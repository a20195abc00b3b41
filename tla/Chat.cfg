SPECIFICATION FairSpec
CONSTANTS
    ShopKeys = {k1, k2}
    MaxTime = 1
    MaxSends = 2
    Absent = Absent
    Theirs = Theirs
INVARIANTS
    TabShowsLatest
    ListedOnce
PROPERTIES
    TalkGetsAll
