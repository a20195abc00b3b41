SPECIFICATION Spec
CONSTANTS
    a1 = a1
    a2 = a2
    Attempts = {a1, a2}
    None = None
    Products = {"shoe"}
    Price <- OnePrice
    Unit = 1
    Int16Max = 2
    Addresses = {"home"}
    Placeholder = "Your Address"
    NoDraft = NoDraft
SYMMETRY AttemptSymmetry
INVARIANTS
    OrdersAddressed
    ChargedOrdersExist
    PaymentMeansEmptyCart
    PageIsOwn
PROPERTIES
    KeepsContract
