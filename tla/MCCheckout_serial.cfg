\* Users who wait for each answer before the next tap, with crashes.
SPECIFICATION Spec
CONSTANTS
    MaxDigits = 2
    MAX_CALLBACK_BYTES = 5
    None = None
    p1 = p1
    p2 = p2
    gone = gone
    User = {u1, u2}
    Product = {p1, p2, gone}
    Listed = {p1, p2}
    Price <- MCPrice
    Task = {t1, t2}
    MaxInFlight = 1
    MaxTaps = 5
    NULL = NULL
SYMMETRY MCSymmetry
INVARIANTS
    TypeOK
    OneRowPerProduct
    NothingAskedIsLost
    CartAndOrdersAddUp
    ReplyAddsUp
CHECK_DEADLOCK FALSE
