----------------------------- MODULE StoreTables -----------------------------
(***************************************************************************)
(* The tables of the store that money and goods pass through (orders,      *)
(* payments, product_deliveries and keys of core/migrations.py) and the    *)
(* SQL statements of store/service.py that change them, each as an         *)
(* operator from one state of the tables to the next.                      *)
(*                                                                         *)
(* Ids are AUTOINCREMENT and no statement deletes from these tables, so a  *)
(* table is the sequence of its rows and a row's id is its index.  The     *)
(* text of a key is represented by the id of its row, a timestamp by       *)
(* whether it is set.                                                      *)
(***************************************************************************)
EXTENDS Integers, Sequences, FiniteSets

CONSTANTS
    User,       \* Telegram user ids
    Product,    \* ids of the products table
    Amount,     \* what an order may cost
    PaymentId,  \* provider charge ids (payments.external_id)
    NULL        \* the SQL NULL

ASSUME NullAssumption == NULL \notin User \cup PaymentId

OrderStatus == {"pending_payment", "paid", "delivered", "cancelled"}

OrderRow ==
    [user: User, product: Product, amount: Amount, status: OrderStatus,
     payment_id: PaymentId \cup {NULL}, delivered_at: BOOLEAN]
PaymentRow == [order: Nat, amount: Amount, external_id: PaymentId]
DeliveryRow == [order: Nat, payload: Nat]
KeyRow == [product: Product, used_by: User \cup {NULL}]

Tables ==
    [orders: Seq(OrderRow), payments: Seq(PaymentRow),
     deliveries: Seq(DeliveryRow), keys: Seq(KeyRow)]

EmptyTables == [orders |-> <<>>, payments |-> <<>>, deliveries |-> <<>>, keys |-> <<>>]

-----------------------------------------------------------------------------
(* The statements.  d is the state of the tables a statement starts from.  *)

\* Mutant: the INSERT leaves the status to the column's DEFAULT 'created'.
NewOrderByDefault(u, p, a) ==
    [user |-> u, product |-> p, amount |-> a, status |-> "created",
     payment_id |-> NULL, delivered_at |-> FALSE]

NewOrder(u, p, a) ==
    [user |-> u, product |-> p, amount |-> a, status |-> "pending_payment",
     payment_id |-> NULL, delivered_at |-> FALSE]

InsertOrder(d, u, p, a) == [d EXCEPT !.orders = Append(@, NewOrder(u, p, a))]

\* The rows a WHERE id = :oid AND status = :s matches: this one or none.
HasStatus(d, o, s) == o \in 1..Len(d.orders) /\ d.orders[o].status = s

SetPaid(d, o, e) ==
    [d EXCEPT !.orders[o].status = "paid", !.orders[o].payment_id = e]

\* Mutant: the amount is selected without the WHERE, from the first order.
InsertPaymentOfFirst(d, o, e) ==
    [d EXCEPT !.payments =
        Append(@, [order |-> o, amount |-> d.orders[1].amount, external_id |-> e])]

\* The amount is selected from the order by the INSERT itself.
InsertPayment(d, o, e) ==
    [d EXCEPT !.payments =
        Append(@, [order |-> o, amount |-> d.orders[o].amount, external_id |-> e])]

SetDelivered(d, o) ==
    [d EXCEPT !.orders[o].status = "delivered", !.orders[o].delivered_at = TRUE]

\* Mutant: delivered_at stays set.
SetBackKeepingDate(d, o) == [d EXCEPT !.orders[o].status = "paid"]

SetBackToPaid(d, o) ==
    [d EXCEPT !.orders[o].status = "paid", !.orders[o].delivered_at = FALSE]

\* Mutants: without AND used_by IS NULL; without product_id = :pid.
KeysUsedOrNot(d, p) == {k \in 1..Len(d.keys) : d.keys[k].product = p}
KeysOfAnyProduct(d, p) == {k \in 1..Len(d.keys) : d.keys[k].used_by = NULL}

FreeKeys(d, p) ==
    {k \in 1..Len(d.keys) : d.keys[k].product = p /\ d.keys[k].used_by = NULL}

\* ORDER BY id LIMIT 1
IsOldest(k, S) == k \in S /\ \A j \in S : k <= j

ClaimKey(d, k, o) == [d EXCEPT !.keys[k].used_by = d.orders[o].user]

InsertDelivery(d, o, k) ==
    [d EXCEPT !.deliveries = Append(@, [order |-> o, payload |-> k])]

\* Mutant: the owner is left out of the WHERE.
DeliveredToAnybody(d, o, u) ==
    {d.deliveries[i].payload : i \in
        {j \in 1..Len(d.deliveries) : d.deliveries[j].order = o /\ o \in 1..Len(d.orders)}}

\* What get_delivery may read: the payloads of order o, if u placed it.
Delivered(d, o, u) ==
    {d.deliveries[i].payload : i \in
        {j \in 1..Len(d.deliveries) :
            d.deliveries[j].order = o /\ o \in 1..Len(d.orders) /\ d.orders[o].user = u}}

\* The tables after a whole mark_paid, and after a whole fulfill_order.
Paid(d, o, e) == InsertPayment(SetPaid(d, o, e), o, e)
Handed(d, o, k) == InsertDelivery(ClaimKey(SetDelivered(d, o), k, o), o, k)

\* Done outside the bot: an operator stocks a key, or calls an order off.
InsertKey(d, p) == [d EXCEPT !.keys = Append(@, [product |-> p, used_by |-> NULL])]
SetCancelled(d, o) == [d EXCEPT !.orders[o].status = "cancelled"]

-----------------------------------------------------------------------------
(* What the tables must say, whenever a transaction has committed.         *)

\* A payments row is the payment of an order: of its amount, with its charge
\* id, and an order that was never paid has none.
PaymentsMatchOrders(d) ==
    \A i \in 1..Len(d.payments) :
        LET o == d.payments[i].order IN
        /\ o \in 1..Len(d.orders)
        /\ d.orders[o].status \in {"paid", "delivered"}
        /\ d.orders[o].amount = d.payments[i].amount
        /\ d.orders[o].payment_id = d.payments[i].external_id

OnePaymentPerOrder(d) ==
    \A i, j \in 1..Len(d.payments) :
        d.payments[i].order = d.payments[j].order => i = j

PaidHasPayment(d) ==
    \A o \in 1..Len(d.orders) :
        d.orders[o].status \in {"paid", "delivered"} =>
            \E i \in 1..Len(d.payments) : d.payments[i].order = o

\* A delivery hands a key of the product ordered, marked used by the customer,
\* to an order that says it was delivered.
DeliveriesMatchOrders(d) ==
    \A i \in 1..Len(d.deliveries) :
        LET o == d.deliveries[i].order
            k == d.deliveries[i].payload IN
        /\ HasStatus(d, o, "delivered")
        /\ k \in 1..Len(d.keys)
        /\ d.keys[k].product = d.orders[o].product
        /\ d.keys[k].used_by = d.orders[o].user

OneDeliveryPerOrder(d) ==
    \A i, j \in 1..Len(d.deliveries) :
        d.deliveries[i].order = d.deliveries[j].order => i = j

DeliveredHasDelivery(d) ==
    \A o \in 1..Len(d.orders) :
        d.orders[o].status = "delivered" =>
            \E i \in 1..Len(d.deliveries) : d.deliveries[i].order = o

DeliveredIsDated(d) ==
    \A o \in 1..Len(d.orders) :
        d.orders[o].delivered_at <=> d.orders[o].status = "delivered"

NoKeySoldTwice(d) ==
    \A i, j \in 1..Len(d.deliveries) :
        d.deliveries[i].payload = d.deliveries[j].payload => i = j

\* A key marked used has gone to somebody.
NoKeyWasted(d) ==
    \A k \in 1..Len(d.keys) :
        d.keys[k].used_by # NULL =>
            \E i \in 1..Len(d.deliveries) : d.deliveries[i].payload = k

OldestKeyGoesFirst(d) ==
    \A j, k \in 1..Len(d.keys) :
        /\ j < k
        /\ d.keys[j].product = d.keys[k].product
        /\ d.keys[k].used_by # NULL
        => d.keys[j].used_by # NULL

LedgerInv(d) ==
    /\ PaymentsMatchOrders(d)
    /\ OnePaymentPerOrder(d)
    /\ PaidHasPayment(d)
    /\ DeliveriesMatchOrders(d)
    /\ OneDeliveryPerOrder(d)
    /\ DeliveredHasDelivery(d)
    /\ DeliveredIsDated(d)
    /\ NoKeySoldTwice(d)
    /\ NoKeyWasted(d)
    /\ OldestKeyGoesFirst(d)
=============================================================================
