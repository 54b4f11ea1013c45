\* Two tasks inside the service at once, on two orders for the same product.
SPECIFICATION Spec
CONSTANTS
    Worker = {w1, w2}
    User = {u1, u2}
    Product = {p1}
    Amount = {10}
    PaymentId = {e1, e2}
    NULL = NULL
    MaxOrders = 2
    MaxKeys = 2
SYMMETRY MCSymmetry
INVARIANTS
    TypeOK
    TransactionInv
    PaidOnce
    DeliveredOnce
    KeysSoldOnce
    TrueMeansPaidNow
    KeyReturnedOnce
    OnlyTheOwnerSees
    RefusedOnlyWhenOut
PROPERTIES
    OnlyForward
    KeepsTheLedger
