SPECIFICATION PinFairSpec
CONSTANTS
    Digits <- MCDigits
    MaxDigits = 2
    MaxAttempts = 3
    LockoutTime = 3
    MaxMatches = 2
    NoPin = NoPin
INVARIANTS
    LockoutExact
    CreationOpensNothing
PROPERTIES
    NoGuessWhileLocked
    LockoutEnds
    MatchOpens
