SPECIFICATION Spec
CONSTANTS
    Polls = {p1, p2, p3}
    Cancels = {c1, c2}
    MaxJumps = 2
SYMMETRY Interchangeable
INVARIANTS
    HomeMeansSettled
    NeverStuck
    CancelledPageIsGone
