SPECIFICATION FairSpec
CONSTANTS
    a1 = a1
    a2 = a2
    Attempts = {a1}
    None = None
    Products = {"shoe", "boot"}
    Price <- HalfPrices
    Unit = 2
    Int16Max = 4
    Addresses = {"home"}
    Placeholder = "Your Address"
    NoDraft = NoDraft
INVARIANTS
    GrossCoversLines
PROPERTIES
    PaymentPageOpens
