\* Liveness, without symmetry: two tasks, two orders, one key.
SPECIFICATION FairSpec
CONSTANTS
    Worker = {w1, w2}
    User = {u1}
    Product = {p1}
    Amount = {10}
    PaymentId = {e1}
    NULL = NULL
    MaxOrders = 2
    MaxKeys = 1
PROPERTIES
    EveryCallEnds
