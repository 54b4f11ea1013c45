\* Two overlapping taps on the checkout button.
SPECIFICATION Spec
CONSTANTS
    MaxDigits = 2
    MAX_CALLBACK_BYTES = 5
    None = None
    p1 = p1
    p2 = p2
    gone = gone
    User = {u1}
    Product = {p1, p2}
    Listed = {p1, p2}
    Price <- MCPrice
    Task = {t1, t2}
    MaxInFlight = 2
    MaxTaps = 3
    NULL = NULL
SYMMETRY MCSymmetry
INVARIANTS
    NothingIsOrderedTwice
CHECK_DEADLOCK FALSE
