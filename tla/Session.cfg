SPECIFICATION Spec
CONSTANTS
    Accounts = {ann, bob}
    Tokens = {t1, t2, t3}
    SignIns = {r1, r2}
    Logouts = {q1, q2}
    MaxJumps = 1
    None = None
SYMMETRY Interchangeable
INVARIANTS
    OneAccount
    RevokedExplained
PROPERTIES
    ForgetsOnlyRevoked
