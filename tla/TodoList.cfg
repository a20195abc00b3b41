SPECIFICATION Spec
CONSTANTS
    Items = {i1, i2, i3}
    Names = {n1, n2}
    None = None
SYMMETRY Interchangeable
INVARIANTS
    AskedIsStored
    RowsAreStored
PROPERTY
    DeletionIsFinal
