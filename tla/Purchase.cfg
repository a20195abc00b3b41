SPECIFICATION PurchaseSpec
CONSTANTS
    a1 = a1
    a2 = a2
    Attempts = {a1, a2}
    None = None
    Products = {"shoe"}
    Price <- OnePrice
    Unit = 1
    Int16Max = 1
    Addresses = {"home"}
    Placeholder = "Your Address"
    NoDraft = NoDraft
    d1 = d1
    d2 = d2
    Digits = {d1, d2}
    MaxDigits = 1
    MaxAttempts = 1
    LockoutTime = 1
    MaxMatches = 2
    NoPin = NoPin
SYMMETRY Interchangeable
INVARIANTS
    PurchaseTypeOK
    EveryAttemptWasEntered
