\* One task at a time, on orders that differ in product and price.
SPECIFICATION Spec
CONSTANTS
    Worker = {w1}
    User = {u1}
    Product = {p1, p2}
    Amount = {10, 25}
    PaymentId = {e1}
    NULL = NULL
    MaxOrders = 2
    MaxKeys = 3
INVARIANTS
    DeliveredOnce
    KeysSoldOnce
PROPERTIES
    KeepsTheLedger
