SPECIFICATION FairSpec
CONSTANTS
    Polls = {p1}
    Cancels = {c1}
    MaxJumps = 2
PROPERTIES
    CancelEnds
    SettledGoesHome
