---------------------------- MODULE StoreService -----------------------------
(***************************************************************************)
(* create_order, mark_paid, fulfill_order and get_delivery of              *)
(* store/service.py, called by concurrent tasks of one event loop.         *)
(*                                                                         *)
(* Every execute() awaits the driver's thread, so the calls interleave     *)
(* between statements.  A session opens its SQLite write transaction with  *)
(* its first INSERT or UPDATE, which takes the database's one write lock,  *)
(* and Database.transaction() ends it: commit when the block returns,      *)
(* rollback when it raises.  A call may be repeated at any time with any   *)
(* order id, may fail at any statement, and the process may be killed; the *)
(* tables keep what was committed.                                         *)
(***************************************************************************)
EXTENDS StoreTables

CONSTANTS
    Worker,     \* tasks that may be inside the service at once
    MaxOrders,  \* bound: orders placed
    MaxKeys     \* bound: keys stocked

ASSUME WorkerAssumption == NULL \notin Worker
ASSUME BoundAssumption == MaxOrders \in Nat /\ MaxKeys \in Nat

VARIABLES
    db,         \* the committed tables
    writer,     \* the worker in a write transaction, or NULL
    work,       \* the tables as that worker's transaction sees them
    pc,         \* pc[w]: the statement worker w is about to execute
    call,       \* call[w]: the call it executes, or NULL
    got,        \* got[w]: what the call will return: 0 for None and False,
                \*   1 for True, else the id of the order or key
    paidTrue,   \* paidTrue[o]: how many mark_paid calls returned True for o
    handed,     \* handed[o]: the keys fulfill_order returned for o, in order
    seen        \* seen[u]: the keys redeliver has shown user u

tables == <<db, writer, work>>
control == <<pc, call, got>>
history == <<paidTrue, handed, seen>>
vars == <<tables, control, history>>

OrderId == 1..MaxOrders
KeyId == 1..MaxKeys

CreateOrderCall ==
    [op: {"create_order"}, user: User, product: Product, amount: Amount]
MarkPaidCall == [op: {"mark_paid"}, order: OrderId, payment: PaymentId]
FulfillOrderCall == [op: {"fulfill_order"}, order: OrderId]

Call == CreateOrderCall \cup MarkPaidCall \cup FulfillOrderCall

\* A worker at one of these is inside a write transaction.
Holding == {"insert_payment", "claim_key", "set_back", "insert_delivery", "commit"}
Label == Holding \cup {"idle", "insert_order", "update_paid", "update_delivered", "return"}

TypeOK ==
    /\ db \in Tables
    /\ writer \in Worker \cup {NULL}
    /\ work \in Tables
    /\ pc \in [Worker -> Label]
    /\ call \in [Worker -> Call \cup {NULL}]
    /\ got \in [Worker -> Nat]
    /\ paidTrue \in [OrderId -> Nat]
    /\ handed \in [OrderId -> Seq(Nat)]
    /\ seen \in [User -> SUBSET Nat]

Init ==
    /\ db = EmptyTables
    /\ writer = NULL
    /\ work = EmptyTables
    /\ pc = [w \in Worker |-> "idle"]
    /\ call = [w \in Worker |-> NULL]
    /\ got = [w \in Worker |-> 0]
    /\ paidTrue = [o \in OrderId |-> 0]
    /\ handed = [o \in OrderId |-> <<>>]
    /\ seen = [u \in User |-> {}]

-----------------------------------------------------------------------------
(* Calls.                                                                  *)

Start(w, c, label) ==
    /\ pc[w] = "idle"
    /\ call' = [call EXCEPT ![w] = c]
    /\ pc' = [pc EXCEPT ![w] = label]
    /\ UNCHANGED <<tables, got, history>>

\* The bound counts the orders still to be inserted, too.
CallCreateOrder(w, u, p, a) ==
    /\ Len(work.orders) + Cardinality({v \in Worker : pc[v] = "insert_order"}) < MaxOrders
    /\ Start(w, [op |-> "create_order", user |-> u, product |-> p, amount |-> a],
             "insert_order")

CallMarkPaid(w, o, e) ==
    Start(w, [op |-> "mark_paid", order |-> o, payment |-> e], "update_paid")

CallFulfillOrder(w, o) ==
    Start(w, [op |-> "fulfill_order", order |-> o], "update_delivered")

-----------------------------------------------------------------------------
(* Statements.  The first of a transaction takes the write lock.           *)

\* Mutant: nothing is locked, transactions overlap.
AtUnlocked(w, label) == pc[w] = label

At(w, label) ==
    /\ pc[w] = label
    /\ writer = (IF label \in Holding THEN w ELSE NULL)

Execute(w, d, next) ==
    /\ writer' = w
    /\ work' = d
    /\ pc' = [pc EXCEPT ![w] = next]
    /\ UNCHANGED <<db, call, history>>

InsertOrderRow(w) ==
    /\ At(w, "insert_order")
    /\ Execute(w, InsertOrder(work, call[w].user, call[w].product, call[w].amount), "commit")
    /\ got' = [got EXCEPT ![w] = Len(work.orders) + 1]

\* Mutants: no status guard, so a replay rewrites the order and adds a row;
\* and a rowcount nobody looks at, so a replay is told True as well.
UpdatePaidUnguarded(w) ==
    /\ At(w, "update_paid")
    /\ IF call[w].order \in 1..Len(work.orders)
       THEN Execute(w, SetPaid(work, call[w].order, call[w].payment), "insert_payment")
       ELSE Execute(w, work, "commit")
    /\ UNCHANGED got
UpdatePaidAlwaysTrue(w) ==
    /\ At(w, "update_paid")
    /\ IF HasStatus(work, call[w].order, "pending_payment")
       THEN /\ Execute(w, SetPaid(work, call[w].order, call[w].payment), "insert_payment")
            /\ UNCHANGED got
       ELSE /\ Execute(w, work, "commit")
            /\ got' = [got EXCEPT ![w] = 1]

UpdatePaid(w) ==
    /\ At(w, "update_paid")
    /\ IF HasStatus(work, call[w].order, "pending_payment")
       THEN Execute(w, SetPaid(work, call[w].order, call[w].payment), "insert_payment")
       ELSE Execute(w, work, "commit")
    /\ UNCHANGED got

InsertPaymentRow(w) ==
    /\ At(w, "insert_payment")
    /\ Execute(w, InsertPayment(work, call[w].order, call[w].payment), "commit")
    /\ got' = [got EXCEPT ![w] = 1]

\* Mutants: an order already delivered, or not yet paid, matches as well.
UpdateDeliveredAgain(w) ==
    /\ At(w, "update_delivered")
    /\ IF \E s \in {"paid", "delivered"} : HasStatus(work, call[w].order, s)
       THEN Execute(w, SetDelivered(work, call[w].order), "claim_key")
       ELSE Execute(w, work, "commit")
    /\ UNCHANGED got
UpdateDeliveredUnpaid(w) ==
    /\ At(w, "update_delivered")
    /\ IF \E s \in {"paid", "pending_payment"} : HasStatus(work, call[w].order, s)
       THEN Execute(w, SetDelivered(work, call[w].order), "claim_key")
       ELSE Execute(w, work, "commit")
    /\ UNCHANGED got

UpdateDelivered(w) ==
    /\ At(w, "update_delivered")
    /\ IF HasStatus(work, call[w].order, "paid")
       THEN Execute(w, SetDelivered(work, call[w].order), "claim_key")
       ELSE Execute(w, work, "commit")
    /\ UNCHANGED got

StockFor(d, o) == FreeKeys(d, d.orders[o].product)

\* Mutants: with no key in stock the order is left as delivered; the call waits
\* for stock; and, as use_key did, the key is looked up by its user once claimed.
ClaimOrLeaveDelivered(w) ==
    /\ At(w, "claim_key")
    /\ \/ \E k \in StockFor(work, call[w].order) :
            /\ IsOldest(k, StockFor(work, call[w].order))
            /\ Execute(w, ClaimKey(work, k, call[w].order), "insert_delivery")
            /\ got' = [got EXCEPT ![w] = k]
       \/ /\ StockFor(work, call[w].order) = {}
          /\ Execute(w, work, "commit")
          /\ UNCHANGED got
ClaimOrWait(w) ==
    /\ At(w, "claim_key")
    /\ \E k \in StockFor(work, call[w].order) :
        /\ IsOldest(k, StockFor(work, call[w].order))
        /\ Execute(w, ClaimKey(work, k, call[w].order), "insert_delivery")
        /\ got' = [got EXCEPT ![w] = k]
ClaimThenSelect(w) ==
    /\ At(w, "claim_key")
    /\ \/ \E k \in StockFor(work, call[w].order) :
            LET d == ClaimKey(work, k, call[w].order)
                mine == {j \in 1..Len(d.keys) : d.keys[j].used_by = d.keys[k].used_by} IN
            /\ IsOldest(k, StockFor(work, call[w].order))
            /\ Execute(w, d, "insert_delivery")
            /\ got' = [got EXCEPT ![w] = CHOOSE j \in mine : IsOldest(j, mine)]
       \/ /\ StockFor(work, call[w].order) = {}
          /\ Execute(w, work, "set_back")
          /\ UNCHANGED got

ClaimOldestKey(w) ==
    /\ At(w, "claim_key")
    /\ \/ \E k \in StockFor(work, call[w].order) :
            /\ IsOldest(k, StockFor(work, call[w].order))
            /\ Execute(w, ClaimKey(work, k, call[w].order), "insert_delivery")
            /\ got' = [got EXCEPT ![w] = k]
       \/ /\ StockFor(work, call[w].order) = {}
          /\ Execute(w, work, "set_back")
          /\ UNCHANGED got

UpdateBackToPaid(w) ==
    /\ At(w, "set_back")
    /\ Execute(w, SetBackToPaid(work, call[w].order), "commit")
    /\ UNCHANGED got

InsertDeliveryRow(w) ==
    /\ At(w, "insert_delivery")
    /\ Execute(w, InsertDelivery(work, call[w].order, got[w]), "commit")
    /\ UNCHANGED got

-----------------------------------------------------------------------------
(* How a transaction ends.                                                 *)

Commit(w) ==
    /\ At(w, "commit")
    /\ db' = work
    /\ writer' = NULL
    /\ pc' = [pc EXCEPT ![w] = "return"]
    /\ UNCHANGED <<work, call, got, history>>

\* The session is closed after the commit: only then has the caller its answer.
Return(w) ==
    /\ pc[w] = "return"
    /\ IF call[w].op = "mark_paid" /\ got[w] # 0
       THEN paidTrue' = [paidTrue EXCEPT ![call[w].order] = @ + 1]
       ELSE UNCHANGED paidTrue
    /\ IF call[w].op = "fulfill_order" /\ got[w] # 0
       THEN handed' = [handed EXCEPT ![call[w].order] = Append(@, got[w])]
       ELSE UNCHANGED handed
    /\ pc' = [pc EXCEPT ![w] = "idle"]
    /\ call' = [call EXCEPT ![w] = NULL]
    /\ got' = [got EXCEPT ![w] = 0]
    /\ UNCHANGED <<tables, seen>>

GiveUp(w) ==
    /\ pc' = [pc EXCEPT ![w] = "idle"]
    /\ call' = [call EXCEPT ![w] = NULL]
    /\ got' = [got EXCEPT ![w] = 0]
    /\ UNCHANGED history

\* Mutant: each statement commits on its own, there is nothing to roll back.
RaiseKeepingStatements(w) ==
    /\ pc[w] # "idle"
    /\ IF writer = w
       THEN db' = work /\ writer' = NULL
       ELSE UNCHANGED <<db, writer>>
    /\ UNCHANGED work
    /\ GiveUp(w)

\* A statement, the COMMIT or closing the session raises, or the task is
\* cancelled there: a transaction still open is rolled back, and a caller whose
\* transaction had been committed is not told.
Raise(w) ==
    /\ pc[w] # "idle"
    /\ IF writer = w
       THEN work' = db /\ writer' = NULL
       ELSE UNCHANGED <<work, writer>>
    /\ UNCHANGED db
    /\ GiveUp(w)

\* The write lock did not come free within the driver's timeout.
DatabaseIsLocked(w) ==
    /\ pc[w] \in {"insert_order", "update_paid", "update_delivered"}
    /\ writer # NULL
    /\ UNCHANGED tables
    /\ GiveUp(w)

\* The process is killed.  SQLite rolls the open transaction back when the
\* file is opened again; answers that were not yet given are never given.
Crash ==
    /\ \E w \in Worker : pc[w] # "idle"
    /\ work' = db
    /\ writer' = NULL
    /\ pc' = [w \in Worker |-> "idle"]
    /\ call' = [w \in Worker |-> NULL]
    /\ got' = [w \in Worker |-> 0]
    /\ UNCHANGED <<db, history>>

-----------------------------------------------------------------------------
(* Reading a delivery back, and what is done outside the bot.              *)

\* get_delivery is one SELECT, with LIMIT 1: it reads the committed tables.
Redeliver(u, o) ==
    /\ \E k \in Delivered(db, o, u) : seen' = [seen EXCEPT ![u] = @ \cup {k}]
    /\ UNCHANGED <<tables, control, paidTrue, handed>>

Outside(d) ==
    /\ writer = NULL
    /\ db' = d
    /\ work' = d
    /\ UNCHANGED <<writer, control, history>>

Restock(p) == Len(db.keys) < MaxKeys /\ Outside(InsertKey(db, p))

CallOff(o) == HasStatus(db, o, "pending_payment") /\ Outside(SetCancelled(db, o))

-----------------------------------------------------------------------------
Statement(w) ==
    \/ InsertOrderRow(w)
    \/ UpdatePaid(w)
    \/ InsertPaymentRow(w)
    \/ UpdateDelivered(w)
    \/ ClaimOldestKey(w)
    \/ UpdateBackToPaid(w)
    \/ InsertDeliveryRow(w)
    \/ Commit(w)
    \/ Return(w)

Next ==
    \/ \E w \in Worker :
        \/ \E u \in User, p \in Product, a \in Amount : CallCreateOrder(w, u, p, a)
        \/ \E o \in OrderId, e \in PaymentId : CallMarkPaid(w, o, e)
        \/ \E o \in OrderId : CallFulfillOrder(w, o)
        \/ Statement(w)
        \/ Raise(w)
        \/ DatabaseIsLocked(w)
    \/ Crash
    \/ \E u \in User, o \in OrderId : Redeliver(u, o)
    \/ \E p \in Product : Restock(p)
    \/ \E o \in OrderId : CallOff(o)

Spec == Init /\ [][Next]_vars

\* The event loop runs every ready task and the driver's thread every
\* statement handed to it, so a call goes on or fails; nothing forces a
\* caller to call, an exception, a crash or anything done outside.
Fairness == \A w \in Worker : WF_vars(Statement(w) \/ DatabaseIsLocked(w))

FairSpec == Spec /\ Fairness

-----------------------------------------------------------------------------
(* Safety.                                                                 *)

\* The committed payments ledger agrees with the orders: one row for each
\* order that was paid, of its amount and charge id, and none for another,
\* whatever replays of mark_paid, failures and crashes there were.
PaidOnce ==
    /\ PaymentsMatchOrders(db)
    /\ OnePaymentPerOrder(db)
    /\ PaidHasPayment(db)

\* An order says delivered exactly when one delivery is recorded for it, of a
\* key of the product ordered that is marked used by the customer: fulfill_order
\* leaves no order delivered with nothing delivered, and delivers none twice.
DeliveredOnce ==
    /\ DeliveriesMatchOrders(db)
    /\ OneDeliveryPerOrder(db)
    /\ DeliveredHasDelivery(db)
    /\ DeliveredIsDated(db)

\* No key goes to two orders, none is used up by a fulfilment that failed or
\* found the order taken, and of a product's keys the oldest go first.
KeysSoldOnce ==
    /\ NoKeySoldTwice(db)
    /\ NoKeyWasted(db)
    /\ OldestKeyGoesFirst(db)

\* Of all mark_paid calls for an order, at most one is ever told True, and
\* only when its payment is on record: the caller may act on True.
TrueMeansPaidNow ==
    \A o \in OrderId :
        /\ paidTrue[o] <= 1
        /\ paidTrue[o] = 1 => \E i \in 1..Len(db.payments) : db.payments[i].order = o

\* Of all fulfill_order calls for an order, at most one is ever given a key,
\* and that key is the one the order's customer can have shown again.
KeyReturnedOnce ==
    \A o \in OrderId :
        /\ Len(handed[o]) <= 1
        /\ \A n \in 1..Len(handed[o]) :
            handed[o][n] \in Delivered(db, o, db.orders[o].user)

\* redeliver shows a user only keys of that user's own orders: whatever order
\* ids the callbacks name, nobody sees a key that was handed to another.
OnlyTheOwnerSees ==
    \A u \in User : \A k \in seen[u] :
        \E i \in 1..Len(db.deliveries) :
            /\ db.deliveries[i].payload = k
            /\ db.orders[db.deliveries[i].order].user = u

\* fulfill_order refuses a paid order only when it found no key in stock, and
\* then leaves it as it was before the call, to be fulfilled later.
RefusedOnlyWhenOut ==
    \A w \in Worker :
        (/\ pc[w] = "commit"
         /\ call[w].op = "fulfill_order"
         /\ got[w] = 0
         /\ HasStatus(db, call[w].order, "paid"))
            => work = db /\ StockFor(db, call[w].order) = {}

\* What a commit may do to an order: it stays whose and for what it was, it
\* goes only forward, and once delivered or cancelled it is never touched
\* again; no row is ever lost, and recorded payments, deliveries and used
\* keys are never changed.
Rank(s) == CASE s = "pending_payment" -> 1 [] s = "paid" -> 2 [] OTHER -> 3

\* Tables t may follow tables d.
Forward(d, t) ==
    /\ Len(d.orders) <= Len(t.orders)
    /\ Len(d.payments) <= Len(t.payments)
    /\ Len(d.deliveries) <= Len(t.deliveries)
    /\ Len(d.keys) <= Len(t.keys)
    /\ \A o \in 1..Len(d.orders) :
        LET old == d.orders[o]
            new == t.orders[o] IN
        /\ <<new.user, new.product, new.amount>> = <<old.user, old.product, old.amount>>
        /\ new = old \/ Rank(old.status) < Rank(new.status)
        /\ new.status = "delivered" /\ new # old => old.status = "paid"
    /\ \A i \in 1..Len(d.payments) : t.payments[i] = d.payments[i]
    /\ \A i \in 1..Len(d.deliveries) : t.deliveries[i] = d.deliveries[i]
    /\ \A k \in 1..Len(d.keys) : d.keys[k].used_by # NULL => t.keys[k] = d.keys[k]

OnlyForward == [][Forward(db, db')]_db

-----------------------------------------------------------------------------
(* The committed tables and what users were shown keep the promise of      *)
(* OrderLedger: a transaction appears in it as one step at its commit.     *)

LedgerOrder(o) ==
    IF o \in 1..Len(db.orders)
    THEN [stage |-> db.orders[o].status, user |-> db.orders[o].user,
          amount |-> db.orders[o].amount]
    ELSE [stage |-> "absent"]

LedgerReceipts(o) ==
    {[amount |-> db.payments[i].amount, external_id |-> db.payments[i].external_id] :
        i \in {j \in 1..Len(db.payments) : db.payments[j].order = o}}

LedgerHanded(o) ==
    {db.deliveries[i].payload :
        i \in {j \in 1..Len(db.deliveries) : db.deliveries[j].order = o}}

Ledger == INSTANCE OrderLedger WITH
    order <- [o \in OrderId |-> LedgerOrder(o)],
    receipts <- [o \in OrderId |-> LedgerReceipts(o)],
    handed <- [o \in OrderId |-> LedgerHanded(o)]

\* Every behaviour of the service, seen through its tables, is one of the
\* ledger's: paid once at the price agreed, one key each, shown to its owner.
KeepsTheLedger == Ledger!Spec

-----------------------------------------------------------------------------
(* Why the safety properties hold: what an open transaction has done so    *)
(* far, given the statement it is at.  Invariants of StoreService_proofs.  *)

CallInv(w) ==
    /\ pc[w] = "insert_order" => call[w] \in CreateOrderCall
    /\ pc[w] \in {"update_paid", "insert_payment"} => call[w] \in MarkPaidCall
    /\ pc[w] \in {"update_delivered", "claim_key", "set_back", "insert_delivery"} =>
        call[w] \in FulfillOrderCall
    /\ pc[w] \in {"commit", "return"} => call[w] \in Call
    /\ pc[w] \in {"idle", "insert_order", "update_paid", "insert_payment",
                  "update_delivered", "claim_key", "set_back"} => got[w] = 0

LockInv ==
    /\ \A w \in Worker : writer = w <=> pc[w] \in Holding
    /\ writer = NULL => work = db

\* The transaction worker w is about to commit is empty or whole.
Whole(w) ==
    \/ /\ call[w] \in CreateOrderCall
       /\ work = InsertOrder(db, call[w].user, call[w].product, call[w].amount)
    \/ /\ call[w] \in MarkPaidCall
       /\ \/ got[w] = 0 /\ work = db
          \/ /\ got[w] = 1
             /\ HasStatus(db, call[w].order, "pending_payment")
             /\ work = Paid(db, call[w].order, call[w].payment)
    \/ /\ call[w] \in FulfillOrderCall
       /\ \/ /\ got[w] = 0
             /\ work = db
             /\ HasStatus(db, call[w].order, "paid") => StockFor(db, call[w].order) = {}
          \/ /\ HasStatus(db, call[w].order, "paid")
             /\ IsOldest(got[w], StockFor(db, call[w].order))
             /\ work = Handed(db, call[w].order, got[w])

WorkInv(w) ==
    /\ pc[w] = "insert_payment" =>
        /\ HasStatus(db, call[w].order, "pending_payment")
        /\ work = SetPaid(db, call[w].order, call[w].payment)
    /\ pc[w] \in {"claim_key", "set_back", "insert_delivery"} =>
        HasStatus(db, call[w].order, "paid")
    /\ pc[w] = "claim_key" => work = SetDelivered(db, call[w].order)
    /\ pc[w] = "set_back" =>
        /\ work = SetDelivered(db, call[w].order)
        /\ StockFor(db, call[w].order) = {}
    /\ pc[w] = "insert_delivery" =>
        /\ IsOldest(got[w], StockFor(db, call[w].order))
        /\ work = ClaimKey(SetDelivered(db, call[w].order), got[w], call[w].order)
    /\ pc[w] = "commit" => Whole(w)

\* The inductive invariant behind the ledger properties: every worker is
\* where its call and the write lock put it, and the open transaction differs
\* from the committed tables by exactly the statements it has executed.
TransactionInv ==
    /\ TypeOK
    /\ LedgerInv(db)
    /\ LockInv
    /\ \A w \in Worker : CallInv(w) /\ WorkInv(w)

-----------------------------------------------------------------------------
(* Liveness.                                                               *)

\* A call returns or raises in the end: no worker waits for ever for the
\* write lock, and none keeps it.
EveryCallEnds == \A w \in Worker : pc[w] # "idle" ~> pc[w] = "idle"
=============================================================================
