----------------------------- MODULE OrderLedger -----------------------------
(***************************************************************************)
(* What the store promises about an order, without tables, statements or   *)
(* transactions: it is placed by somebody at a price, paid at most once    *)
(* and for that price, handed at most one key that nobody else was handed, *)
(* and only the one who placed it is shown that key.                       *)
(***************************************************************************)
EXTENDS Naturals

CONSTANTS OrderId, User, Amount, PaymentId, KeyId

VARIABLES
    order,      \* order[o]: its stage, and from its placing on its owner and price
    receipts,   \* receipts[o]: the payments recorded for it
    handed,     \* handed[o]: the keys handed out for it
    seen        \* seen[u]: the keys user u was shown

vars == <<order, receipts, handed, seen>>

Absent == [stage |-> "absent"]

Init ==
    /\ order = [o \in OrderId |-> Absent]
    /\ receipts = [o \in OrderId |-> {}]
    /\ handed = [o \in OrderId |-> {}]
    /\ seen = [u \in User |-> {}]

Place(o, u, a) ==
    /\ order[o] = Absent
    /\ order' = [order EXCEPT ![o] = [stage |-> "pending_payment", user |-> u, amount |-> a]]
    /\ UNCHANGED <<receipts, handed, seen>>

Pay(o, e) ==
    /\ order[o].stage = "pending_payment"
    /\ order' = [order EXCEPT ![o].stage = "paid"]
    /\ receipts' = [receipts EXCEPT ![o] = {[amount |-> order[o].amount, external_id |-> e]}]
    /\ UNCHANGED <<handed, seen>>

Cancel(o) ==
    /\ order[o].stage = "pending_payment"
    /\ order' = [order EXCEPT ![o].stage = "cancelled"]
    /\ UNCHANGED <<receipts, handed, seen>>

Deliver(o, k) ==
    /\ order[o].stage = "paid"
    /\ \A q \in OrderId : k \notin handed[q]
    /\ order' = [order EXCEPT ![o].stage = "delivered"]
    /\ handed' = [handed EXCEPT ![o] = {k}]
    /\ UNCHANGED <<receipts, seen>>

Show(o) ==
    /\ order[o].stage = "delivered"
    /\ seen' = [seen EXCEPT ![order[o].user] = @ \cup handed[o]]
    /\ UNCHANGED <<order, receipts, handed>>

Next ==
    \E o \in OrderId :
        \/ \E u \in User, a \in Amount : Place(o, u, a)
        \/ \E e \in PaymentId : Pay(o, e)
        \/ Cancel(o)
        \/ \E k \in KeyId : Deliver(o, k)
        \/ Show(o)

Spec == Init /\ [][Next]_vars
=============================================================================
