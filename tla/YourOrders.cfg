SPECIFICATION Spec
CHECK_DEADLOCK FALSE
CONSTANTS
    Orders = {1, 2}
    Lists = {l1, l2}
    Chains = {c1, c2}
    None = None
SYMMETRY Interchangeable
INVARIANTS
    RowsAreOwn
    QuietTableIsCurrent
    LoadingExplained
PROPERTIES
    DetailsHaveItems
