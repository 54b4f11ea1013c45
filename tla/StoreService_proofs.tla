------------------------- MODULE StoreService_proofs --------------------------
(***************************************************************************)
(* TransactionInv is an inductive invariant of StoreService, for any sets  *)
(* of workers, users, products, amounts and charge ids and any bounds; the *)
(* type invariant and the ledger properties follow.                        *)
(***************************************************************************)
EXTENDS StoreService, StoreTables_proofs

\* A step of worker w alone cannot disturb what the others are doing: either
\* the tables do not move, or nobody else holds the write lock.
LEMMA Frame ==
    ASSUME TransactionInv, NEW w \in Worker,
           TypeOK', LedgerInv(db)', LockInv', CallInv(w)', WorkInv(w)',
           \A v \in Worker : v # w =>
                pc'[v] = pc[v] /\ call'[v] = call[v] /\ got'[v] = got[v],
           (db' = db /\ work' = work) \/ writer \in {NULL, w}
    PROVE  TransactionInv'
<1> SUFFICES ASSUME NEW v \in Worker, v # w
             PROVE  CallInv(v)' /\ WorkInv(v)'
  BY DEF TransactionInv
<1>1. pc'[v] = pc[v] /\ call'[v] = call[v] /\ got'[v] = got[v]
  OBVIOUS
<1>2. CallInv(v) /\ WorkInv(v) /\ (writer = v <=> pc[v] \in Holding) /\ writer \in Worker \cup {NULL}
  BY DEF TransactionInv, LockInv, TypeOK
<1>3. CallInv(v)'
  BY <1>1, <1>2 DEF CallInv
<1>4. CASE pc[v] \in Holding
  <2>1. db' = db /\ work' = work
    BY <1>2, <1>4, WorkerAssumption
  <2> QED BY <1>1, <1>2, <1>3, <2>1 DEF WorkInv, Whole
<1>5. CASE pc[v] \notin Holding
  BY <1>1, <1>3, <1>5 DEF WorkInv, Holding
<1> QED BY <1>4, <1>5

\* The write lock stays with the worker whose statement it is.
LEMMA LockAfterExecute ==
    ASSUME TypeOK, LockInv, NEW w \in Worker, NEW d, NEW next \in Holding,
           writer \in {NULL, w}, Execute(w, d, next)
    PROVE  LockInv'
BY WorkerAssumption DEF LockInv, TypeOK, Execute, Holding, Label

\* A statement of w is executed: the type of the new state and the frame.
LEMMA ExecuteFrame ==
    ASSUME TransactionInv, NEW w \in Worker, NEW d \in Tables, NEW next \in Holding,
           NEW label, At(w, label), Execute(w, d, next),
           got' \in [Worker -> Nat],
           \A v \in Worker : v # w => got'[v] = got[v],
           CallInv(w)', WorkInv(w)'
    PROVE  TransactionInv'
<1>1. writer \in {NULL, w}
  BY DEF At
<1>2. TypeOK'
  BY DEF TransactionInv, TypeOK, Execute, history, Label
<1>3. LedgerInv(db)'
  BY DEF TransactionInv, Execute
<1>4. LockInv'
  BY <1>1, LockAfterExecute DEF TransactionInv
<1>5. \A v \in Worker : v # w => pc'[v] = pc[v] /\ call'[v] = call[v] /\ got'[v] = got[v]
  BY DEF TransactionInv, TypeOK, Execute
<1> QED BY <1>1, <1>2, <1>3, <1>4, <1>5, Frame

\* An empty store, with no call in progress, satisfies the invariant.
LEMMA InitInv == Init => TransactionInv
<1> SUFFICES ASSUME Init PROVE TransactionInv
  OBVIOUS
<1>1. EmptyTables \in Tables
  BY EmptySeq DEF EmptyTables, Tables
<1>2. TypeOK
  BY <1>1, EmptySeq DEF Init, TypeOK, Label
<1>3. LedgerInv(db)
  <2>1. Len(db.orders) = 0 /\ Len(db.payments) = 0 /\ Len(db.deliveries) = 0 /\ Len(db.keys) = 0
    BY DEF Init, EmptyTables
  <2> QED BY <2>1 DEF LedgerInv, PaymentsMatchOrders, OnePaymentPerOrder, PaidHasPayment,
             DeliveriesMatchOrders, OneDeliveryPerOrder, DeliveredHasDelivery,
             DeliveredIsDated, NoKeySoldTwice, NoKeyWasted, OldestKeyGoesFirst
<1>4. LockInv
  BY WorkerAssumption DEF Init, LockInv, Holding
<1>5. \A w \in Worker : CallInv(w) /\ WorkInv(w)
  BY DEF Init, CallInv, WorkInv
<1> QED BY <1>2, <1>3, <1>4, <1>5 DEF TransactionInv

\* A call begins: the worker is outside a transaction and stays outside.
LEMMA StartInv ==
    ASSUME TransactionInv, NEW w \in Worker, NEW c, NEW label, Start(w, c, label),
           \/ label = "insert_order" /\ c \in CreateOrderCall
           \/ label = "update_paid" /\ c \in MarkPaidCall
           \/ label = "update_delivered" /\ c \in FulfillOrderCall
    PROVE  TransactionInv'
<1>1. /\ pc[w] = "idle" /\ got[w] = 0
      /\ pc' = [pc EXCEPT ![w] = label] /\ call' = [call EXCEPT ![w] = c] /\ got' = got
      /\ db' = db /\ work' = work /\ writer' = writer
  BY DEF Start, tables, TransactionInv, CallInv
<1>2. label \in Label /\ label \notin Holding /\ c \in Call
  BY DEF Label, Holding, Call
<1>3. TypeOK'
  BY <1>1, <1>2 DEF Start, TransactionInv, TypeOK, history
<1>4. LedgerInv(db)'
  BY <1>1 DEF TransactionInv
<1>5. LockInv'
  BY <1>1, <1>2 DEF TransactionInv, LockInv, TypeOK, Holding
<1>6. pc'[w] = label /\ call'[w] = c /\ got'[w] = 0
  BY <1>1 DEF TransactionInv, TypeOK
<1>7. CallInv(w)' /\ WorkInv(w)'
  BY <1>6 DEF CallInv, WorkInv
<1>8. \A v \in Worker : v # w => pc'[v] = pc[v] /\ call'[v] = call[v] /\ got'[v] = got[v]
  BY <1>1 DEF TransactionInv, TypeOK
<1> QED BY <1>1, <1>3, <1>4, <1>5, <1>7, <1>8, Frame

\* The first statement of a transaction finds no write lock held: it starts
\* from the committed tables, and w is not yet in a transaction.
LEMMA FirstStatement ==
    ASSUME TransactionInv, NEW w \in Worker,
           NEW label, label \notin Holding, At(w, label)
    PROVE  pc[w] = label /\ work = db /\ work \in Tables
BY DEF TransactionInv, LockInv, At, TypeOK

\* A later one finds the lock its own.
LEMMA LaterStatement ==
    ASSUME TransactionInv, NEW w \in Worker, NEW label, At(w, label)
    PROVE  pc[w] = label /\ CallInv(w) /\ WorkInv(w) /\ work \in Tables /\ db \in Tables
BY DEF TransactionInv, At, TypeOK

\* create_order's INSERT: the transaction is the whole of create_order.
LEMMA InsertOrderRowInv ==
    ASSUME TransactionInv, NEW w \in Worker, InsertOrderRow(w)
    PROVE  TransactionInv'
<1> DEFINE c == call[w]
           d == InsertOrder(work, c.user, c.product, c.amount)
<1>1. At(w, "insert_order") /\ Execute(w, d, "commit")
      /\ got' = [got EXCEPT ![w] = Len(work.orders) + 1]
  BY DEF InsertOrderRow
<1>2. pc[w] = "insert_order" /\ work = db /\ work \in Tables
  BY <1>1, FirstStatement DEF Holding
<1>3. c \in CreateOrderCall
  BY <1>2 DEF TransactionInv, CallInv
<1>4. c.user \in User /\ c.product \in Product /\ c.amount \in Amount
  BY <1>3 DEF CreateOrderCall
<1>5. d \in Tables /\ Len(work.orders) + 1 \in Nat
  BY <1>2, <1>4, InsertOrderFacts, LengthsType
<1>6. got' \in [Worker -> Nat] /\ \A v \in Worker : v # w => got'[v] = got[v]
  BY <1>1, <1>5 DEF TransactionInv, TypeOK
<1>7. pc'[w] = "commit" /\ call'[w] = c /\ work' = d /\ db' = db
  BY <1>1 DEF TransactionInv, TypeOK, Execute
<1>8. CallInv(w)'
  BY <1>3, <1>7 DEF CallInv, Call
<1>9. WorkInv(w)'
  BY <1>2, <1>3, <1>7 DEF WorkInv, Whole
<1> HIDE DEF c, d
<1> QED BY <1>1, <1>5, <1>6, <1>8, <1>9, ExecuteFrame DEF Holding

\* mark_paid's guarded UPDATE claims a pending order, or the transaction is
\* empty and about to commit.
LEMMA UpdatePaidInv ==
    ASSUME TransactionInv, NEW w \in Worker, UpdatePaid(w)
    PROVE  TransactionInv'
<1> DEFINE c == call[w]
<1>1. At(w, "update_paid") /\ got' = got
  BY DEF UpdatePaid
<1>2. pc[w] = "update_paid" /\ work = db /\ work \in Tables
  BY <1>1, FirstStatement DEF Holding
<1>3. c \in MarkPaidCall /\ got[w] = 0
  BY <1>2 DEF TransactionInv, CallInv
<1>4. got' \in [Worker -> Nat] /\ (\A v \in Worker : v # w => got'[v] = got[v]) /\ got'[w] = 0
  BY <1>1, <1>3 DEF TransactionInv, TypeOK
<1>5. CASE HasStatus(work, c.order, "pending_payment")
  <2> DEFINE d == SetPaid(work, c.order, c.payment)
  <2>1. Execute(w, d, "insert_payment")
    BY <1>5 DEF UpdatePaid
  <2>2. c.order \in 1..Len(work.orders) /\ c.payment \in PaymentId
    BY <1>3, <1>5 DEF HasStatus, MarkPaidCall
  <2>3. d \in Tables
    BY <1>2, <2>2, SetPaidFacts
  <2>4. pc'[w] = "insert_payment" /\ call'[w] = c /\ work' = d /\ db' = db
    BY <2>1 DEF TransactionInv, TypeOK, Execute
  <2>5. CallInv(w)'
    BY <1>3, <1>4, <2>4 DEF CallInv
  <2>6. WorkInv(w)'
    BY <1>2, <1>5, <2>4 DEF WorkInv
  <2> HIDE DEF d
  <2> QED BY <1>1, <1>4, <2>1, <2>3, <2>5, <2>6, ExecuteFrame DEF Holding
<1>6. CASE ~ HasStatus(work, c.order, "pending_payment")
  <2>1. Execute(w, work, "commit")
    BY <1>6 DEF UpdatePaid
  <2>2. pc'[w] = "commit" /\ call'[w] = c /\ work' = db' /\ db' = db
    BY <1>2, <2>1 DEF TransactionInv, TypeOK, Execute
  <2>3. CallInv(w)'
    BY <1>3, <1>4, <2>2 DEF CallInv, Call
  <2>4. WorkInv(w)'
    BY <1>3, <1>4, <2>2 DEF WorkInv, Whole
  <2> QED BY <1>1, <1>2, <1>4, <2>1, <2>3, <2>4, ExecuteFrame DEF Holding
<1> QED BY <1>5, <1>6

\* mark_paid's INSERT completes the transaction to Paid.
LEMMA InsertPaymentRowInv ==
    ASSUME TransactionInv, NEW w \in Worker, InsertPaymentRow(w)
    PROVE  TransactionInv'
<1> DEFINE c == call[w]
           d == InsertPayment(work, c.order, c.payment)
<1>1. At(w, "insert_payment") /\ Execute(w, d, "commit") /\ got' = [got EXCEPT ![w] = 1]
  BY DEF InsertPaymentRow
<1>2. pc[w] = "insert_payment" /\ CallInv(w) /\ WorkInv(w) /\ db \in Tables
  BY <1>1, LaterStatement
<1>3. /\ c \in MarkPaidCall
      /\ HasStatus(db, c.order, "pending_payment")
      /\ work = SetPaid(db, c.order, c.payment)
  BY <1>2 DEF CallInv, WorkInv
<1>4. c.order \in 1..Len(db.orders) /\ c.payment \in PaymentId
  BY <1>3 DEF HasStatus, MarkPaidCall
<1>5. d = Paid(db, c.order, c.payment) /\ d \in Tables
  BY <1>2, <1>3, <1>4, PaidFacts DEF Paid
<1>6. got' \in [Worker -> Nat] /\ (\A v \in Worker : v # w => got'[v] = got[v]) /\ got'[w] = 1
  BY <1>1 DEF TransactionInv, TypeOK
<1>7. pc'[w] = "commit" /\ call'[w] = c /\ work' = d /\ db' = db
  BY <1>1 DEF TransactionInv, TypeOK, Execute
<1>8. CallInv(w)'
  BY <1>3, <1>7 DEF CallInv, Call
<1>9. WorkInv(w)'
  BY <1>3, <1>5, <1>6, <1>7 DEF WorkInv, Whole
<1> HIDE DEF c, d
<1> QED BY <1>1, <1>5, <1>6, <1>8, <1>9, ExecuteFrame DEF Holding

\* fulfill_order's guarded UPDATE claims a paid order, or the transaction is
\* empty and about to commit.
LEMMA UpdateDeliveredInv ==
    ASSUME TransactionInv, NEW w \in Worker, UpdateDelivered(w)
    PROVE  TransactionInv'
<1> DEFINE c == call[w]
<1>1. At(w, "update_delivered") /\ got' = got
  BY DEF UpdateDelivered
<1>2. pc[w] = "update_delivered" /\ work = db /\ work \in Tables
  BY <1>1, FirstStatement DEF Holding
<1>3. c \in FulfillOrderCall /\ got[w] = 0
  BY <1>2 DEF TransactionInv, CallInv
<1>4. got' \in [Worker -> Nat] /\ (\A v \in Worker : v # w => got'[v] = got[v]) /\ got'[w] = 0
  BY <1>1, <1>3 DEF TransactionInv, TypeOK
<1>5. CASE HasStatus(work, c.order, "paid")
  <2> DEFINE d == SetDelivered(work, c.order)
  <2>1. Execute(w, d, "claim_key")
    BY <1>5 DEF UpdateDelivered
  <2>2. c.order \in 1..Len(work.orders)
    BY <1>5 DEF HasStatus
  <2>3. d \in Tables
    BY <1>2, <2>2, SetDeliveredFacts
  <2>4. pc'[w] = "claim_key" /\ call'[w] = c /\ work' = d /\ db' = db
    BY <2>1 DEF TransactionInv, TypeOK, Execute
  <2>5. CallInv(w)'
    BY <1>3, <1>4, <2>4 DEF CallInv
  <2>6. WorkInv(w)'
    BY <1>2, <1>5, <2>4 DEF WorkInv
  <2> HIDE DEF d
  <2> QED BY <1>1, <1>4, <2>1, <2>3, <2>5, <2>6, ExecuteFrame DEF Holding
<1>6. CASE ~ HasStatus(work, c.order, "paid")
  <2>1. Execute(w, work, "commit")
    BY <1>6 DEF UpdateDelivered
  <2>2. pc'[w] = "commit" /\ call'[w] = c /\ work' = db' /\ db' = db
    BY <1>2, <2>1 DEF TransactionInv, TypeOK, Execute
  <2>3. CallInv(w)'
    BY <1>3, <1>4, <2>2 DEF CallInv, Call
  <2>4. WorkInv(w)'
    BY <1>2, <1>3, <1>4, <1>6, <2>2 DEF WorkInv, Whole
  <2> QED BY <1>1, <1>2, <1>4, <2>1, <2>3, <2>4, ExecuteFrame DEF Holding
<1> QED BY <1>5, <1>6

\* Marking the order delivered did not touch the stock for it.
LEMMA StockUnmoved ==
    ASSUME NEW d \in Tables, NEW o \in 1..Len(d.orders)
    PROVE  StockFor(SetDelivered(d, o), o) = StockFor(d, o)
<1>1. /\ SetDelivered(d, o).keys = d.keys
      /\ SetDelivered(d, o).orders[o].product = d.orders[o].product
  BY SetDeliveredFacts DEF SameTerms
<1> QED BY <1>1 DEF StockFor, FreeKeys

\* fulfill_order's second UPDATE claims the oldest free key of the product,
\* or finds that there is none.
LEMMA ClaimOldestKeyInv ==
    ASSUME TransactionInv, NEW w \in Worker, ClaimOldestKey(w)
    PROVE  TransactionInv'
<1> DEFINE c == call[w]
<1>1. At(w, "claim_key")
  BY DEF ClaimOldestKey
<1>2. pc[w] = "claim_key" /\ CallInv(w) /\ WorkInv(w) /\ work \in Tables /\ db \in Tables
  BY <1>1, LaterStatement
<1>3. /\ c \in FulfillOrderCall
      /\ got[w] = 0
      /\ HasStatus(db, c.order, "paid")
      /\ work = SetDelivered(db, c.order)
  BY <1>2 DEF CallInv, WorkInv
<1>4. c.order \in 1..Len(db.orders) /\ c.order \in 1..Len(work.orders)
  BY <1>2, <1>3, SetDeliveredFacts DEF HasStatus
<1>5. StockFor(work, c.order) = StockFor(db, c.order)
  BY <1>2, <1>3, <1>4, StockUnmoved
<1>6. CASE StockFor(work, c.order) # {}
  <2>1. PICK k \in StockFor(work, c.order) :
            /\ IsOldest(k, StockFor(work, c.order))
            /\ Execute(w, ClaimKey(work, k, c.order), "insert_delivery")
            /\ got' = [got EXCEPT ![w] = k]
    BY <1>6 DEF ClaimOldestKey
  <2> DEFINE d == ClaimKey(work, k, c.order)
  <2>2. k \in 1..Len(work.keys) /\ k \in Nat
    BY <1>2, <2>1, LengthsType DEF StockFor, FreeKeys
  <2>3. d \in Tables
    BY <1>2, <1>4, <2>2, ClaimKeyFacts
  <2>4. got' \in [Worker -> Nat] /\ (\A v \in Worker : v # w => got'[v] = got[v]) /\ got'[w] = k
    BY <2>1, <2>2 DEF TransactionInv, TypeOK
  <2>5. pc'[w] = "insert_delivery" /\ call'[w] = c /\ work' = d /\ db' = db
    BY <2>1 DEF TransactionInv, TypeOK, Execute
  <2>6. CallInv(w)'
    BY <1>3, <2>5 DEF CallInv
  <2>7. WorkInv(w)'
    BY <1>3, <1>5, <2>1, <2>4, <2>5 DEF WorkInv
  <2> HIDE DEF d
  <2>8. Execute(w, d, "insert_delivery")
    BY <2>1 DEF d
  <2> QED BY <1>1, <2>3, <2>4, <2>6, <2>7, <2>8, ExecuteFrame DEF Holding
<1>7. CASE StockFor(work, c.order) = {}
  <2>1. Execute(w, work, "set_back") /\ got' = got
    BY <1>7 DEF ClaimOldestKey
  <2>2. got' \in [Worker -> Nat] /\ (\A v \in Worker : v # w => got'[v] = got[v]) /\ got'[w] = 0
    BY <1>3, <2>1 DEF TransactionInv, TypeOK
  <2>3. pc'[w] = "set_back" /\ call'[w] = c /\ work' = work /\ db' = db
    BY <2>1 DEF TransactionInv, TypeOK, Execute
  <2>4. CallInv(w)'
    BY <1>3, <2>2, <2>3 DEF CallInv
  <2>5. WorkInv(w)'
    BY <1>3, <1>5, <1>7, <2>3 DEF WorkInv
  <2> QED BY <1>1, <1>2, <2>1, <2>2, <2>4, <2>5, ExecuteFrame DEF Holding
<1> QED BY <1>6, <1>7

\* fulfill_order, out of stock: putting the status back makes the transaction
\* empty again.
LEMMA UpdateBackToPaidInv ==
    ASSUME TransactionInv, NEW w \in Worker, UpdateBackToPaid(w)
    PROVE  TransactionInv'
<1> DEFINE c == call[w]
           d == SetBackToPaid(work, c.order)
<1>1. At(w, "set_back") /\ Execute(w, d, "commit") /\ got' = got
  BY DEF UpdateBackToPaid
<1>2. pc[w] = "set_back" /\ CallInv(w) /\ WorkInv(w) /\ db \in Tables
  BY <1>1, LaterStatement
<1>3. /\ c \in FulfillOrderCall
      /\ got[w] = 0
      /\ HasStatus(db, c.order, "paid")
      /\ work = SetDelivered(db, c.order)
      /\ StockFor(db, c.order) = {}
  BY <1>2 DEF CallInv, WorkInv
<1>4. d = db
  BY <1>2, <1>3, SetBackUndoes DEF TransactionInv
<1>5. got' \in [Worker -> Nat] /\ (\A v \in Worker : v # w => got'[v] = got[v]) /\ got'[w] = 0
  BY <1>1, <1>3 DEF TransactionInv, TypeOK
<1>6. pc'[w] = "commit" /\ call'[w] = c /\ work' = d /\ db' = db
  BY <1>1 DEF TransactionInv, TypeOK, Execute
<1>7. CallInv(w)'
  BY <1>3, <1>6 DEF CallInv, Call
<1>8. WorkInv(w)'
  BY <1>3, <1>4, <1>5, <1>6 DEF WorkInv, Whole
<1> HIDE DEF c, d
<1> QED BY <1>1, <1>2, <1>4, <1>5, <1>7, <1>8, ExecuteFrame DEF Holding

\* fulfill_order's INSERT completes the transaction to Handed.
LEMMA InsertDeliveryRowInv ==
    ASSUME TransactionInv, NEW w \in Worker, InsertDeliveryRow(w)
    PROVE  TransactionInv'
<1> DEFINE c == call[w]
           k == got[w]
           d == InsertDelivery(work, c.order, k)
<1>1. At(w, "insert_delivery") /\ Execute(w, d, "commit") /\ got' = got
  BY DEF InsertDeliveryRow
<1>2. pc[w] = "insert_delivery" /\ CallInv(w) /\ WorkInv(w) /\ db \in Tables
  BY <1>1, LaterStatement
<1>3. /\ c \in FulfillOrderCall
      /\ HasStatus(db, c.order, "paid")
      /\ IsOldest(k, StockFor(db, c.order))
      /\ work = ClaimKey(SetDelivered(db, c.order), k, c.order)
  BY <1>2 DEF CallInv, WorkInv
<1>4. c.order \in 1..Len(db.orders) /\ k \in 1..Len(db.keys)
  BY <1>3 DEF HasStatus, IsOldest, StockFor, FreeKeys
<1>5. d = Handed(db, c.order, k)
  BY <1>3 DEF Handed
<1>6. d \in Tables
  BY <1>2, <1>4, <1>5, HandedOrders
<1>7. got' \in [Worker -> Nat] /\ (\A v \in Worker : v # w => got'[v] = got[v]) /\ got'[w] = k
  BY <1>1 DEF TransactionInv, TypeOK
<1>8. pc'[w] = "commit" /\ call'[w] = c /\ work' = d /\ db' = db
  BY <1>1 DEF TransactionInv, TypeOK, Execute
<1>9. CallInv(w)'
  BY <1>3, <1>8 DEF CallInv, Call
<1>10. WorkInv(w)'
  BY <1>3, <1>5, <1>7, <1>8 DEF WorkInv, Whole
<1> HIDE DEF c, d, k
<1> QED BY <1>1, <1>6, <1>7, <1>9, <1>10, ExecuteFrame DEF Holding

-----------------------------------------------------------------------------
(* The transaction ends.                                                   *)

\* What is about to be committed satisfies the ledger invariant.
LEMMA WholeKeepsTheLedger ==
    ASSUME TransactionInv, NEW w \in Worker, Whole(w)
    PROVE  LedgerInv(work)
<1> DEFINE c == call[w]
<1>1. db \in Tables /\ LedgerInv(db)
  BY DEF TransactionInv, TypeOK
<1>2. CASE work = db
  BY <1>1, <1>2
<1>3. CASE c \in CreateOrderCall /\ work = InsertOrder(db, c.user, c.product, c.amount)
  <2>1. c.user \in User /\ c.product \in Product /\ c.amount \in Amount
    BY <1>3 DEF CreateOrderCall
  <2> QED BY <1>1, <1>3, <2>1, PlacingKeepsTheLedger
<1>4. CASE /\ c \in MarkPaidCall
           /\ HasStatus(db, c.order, "pending_payment")
           /\ work = Paid(db, c.order, c.payment)
  <2>1. c.payment \in PaymentId
    BY <1>4 DEF MarkPaidCall
  <2> QED BY <1>1, <1>4, <2>1, PayingKeepsTheLedger
<1>5. CASE /\ HasStatus(db, c.order, "paid")
           /\ IsOldest(got[w], StockFor(db, c.order))
           /\ work = Handed(db, c.order, got[w])
  BY <1>1, <1>5, DeliveringKeepsTheLedger DEF StockFor
<1> QED BY <1>2, <1>3, <1>4, <1>5 DEF Whole

\* A commit publishes an empty or whole transaction and frees the lock.
LEMMA CommitInv ==
    ASSUME TransactionInv, NEW w \in Worker, Commit(w)
    PROVE  TransactionInv'
<1>1. /\ pc[w] = "commit" /\ writer = w
      /\ db' = work /\ work' = work /\ writer' = NULL
      /\ pc' = [pc EXCEPT ![w] = "return"] /\ call' = call /\ got' = got
  BY DEF Commit, At, Holding
<1>2. Whole(w) /\ call[w] \in Call
  BY <1>1 DEF TransactionInv, WorkInv, CallInv
<1>3. LedgerInv(db)'
  BY <1>1, <1>2, WholeKeepsTheLedger
<1>4. TypeOK'
  BY <1>1 DEF TransactionInv, TypeOK, Label, Commit, history
<1>5. LockInv'
  BY <1>1, WorkerAssumption DEF TransactionInv, LockInv, TypeOK, Holding
<1>6. pc'[w] = "return" /\ call'[w] = call[w]
  BY <1>1 DEF TransactionInv, TypeOK
<1>7. CallInv(w)' /\ WorkInv(w)'
  BY <1>2, <1>6 DEF CallInv, WorkInv
<1>8. \A v \in Worker : v # w => pc'[v] = pc[v] /\ call'[v] = call[v] /\ got'[v] = got[v]
  BY <1>1 DEF TransactionInv, TypeOK
<1> QED BY <1>1, <1>3, <1>4, <1>5, <1>7, <1>8, Frame

\* What Return leaves in the histories has their type.
LEMMA ReturnHistories ==
    ASSUME TypeOK, NEW w \in Worker, call[w] \in Call, Return(w)
    PROVE  paidTrue' \in [OrderId -> Nat] /\ handed' \in [OrderId -> Seq(Nat)]
<1>1. CASE call[w].op = "mark_paid"
  BY <1>1 DEF TypeOK, Return
<1>2. CASE call[w].op = "fulfill_order"
  <2>1. call[w].order \in OrderId
    BY <1>2 DEF Call, CreateOrderCall, MarkPaidCall, FulfillOrderCall
  <2>2. Append(handed[call[w].order], got[w]) \in Seq(Nat)
    BY <2>1 DEF TypeOK
  <2> QED BY <1>2, <2>1, <2>2 DEF TypeOK, Return
<1>3. CASE call[w].op \notin {"mark_paid", "fulfill_order"}
  BY <1>3 DEF TypeOK, Return
<1> QED BY <1>1, <1>2, <1>3

\* A worker leaves the service, from wherever it is, without the write lock.
LEMMA LeaveInv ==
    ASSUME TransactionInv, NEW w \in Worker,
           pc' = [pc EXCEPT ![w] = "idle"], call' = [call EXCEPT ![w] = NULL],
           got' = [got EXCEPT ![w] = 0], db' = db,
           \/ pc[w] \notin Holding /\ work' = work /\ writer' = writer
           \/ writer = w /\ work' = db /\ writer' = NULL,
           paidTrue' \in [OrderId -> Nat], handed' \in [OrderId -> Seq(Nat)], seen' = seen
    PROVE  TransactionInv'
<1>1. TypeOK'
  BY DEF TransactionInv, TypeOK, Label
<1>2. LedgerInv(db)'
  BY DEF TransactionInv
<1>3. LockInv'
  BY WorkerAssumption DEF TransactionInv, LockInv, TypeOK, Holding
<1>4. pc'[w] = "idle" /\ got'[w] = 0
  BY DEF TransactionInv, TypeOK
<1>5. CallInv(w)' /\ WorkInv(w)'
  BY <1>4 DEF CallInv, WorkInv
<1>6. \A v \in Worker : v # w => pc'[v] = pc[v] /\ call'[v] = call[v] /\ got'[v] = got[v]
  BY DEF TransactionInv, TypeOK
<1>7. (db' = db /\ work' = work) \/ writer \in {NULL, w}
  OBVIOUS
<1> QED BY <1>1, <1>2, <1>3, <1>5, <1>6, <1>7, Frame

\* A call that returns leaves tables and lock alone.
LEMMA ReturnInv ==
    ASSUME TransactionInv, NEW w \in Worker, Return(w)
    PROVE  TransactionInv'
<1>1. pc[w] = "return" /\ call[w] \in Call /\ TypeOK
  BY DEF TransactionInv, CallInv, Return
<1>2. paidTrue' \in [OrderId -> Nat] /\ handed' \in [OrderId -> Seq(Nat)]
  BY <1>1, ReturnHistories
<1>3. /\ pc[w] \notin Holding
      /\ pc' = [pc EXCEPT ![w] = "idle"] /\ call' = [call EXCEPT ![w] = NULL]
      /\ got' = [got EXCEPT ![w] = 0]
      /\ db' = db /\ work' = work /\ writer' = writer /\ seen' = seen
  BY <1>1 DEF Return, tables, Holding
<1> QED BY <1>2, <1>3, LeaveInv

\* A call that fails gives up its transaction, or never had one.
LEMMA RaiseInv ==
    ASSUME TransactionInv, NEW w \in Worker, Raise(w) \/ DatabaseIsLocked(w)
    PROVE  TransactionInv'
<1>1. /\ pc' = [pc EXCEPT ![w] = "idle"] /\ call' = [call EXCEPT ![w] = NULL]
      /\ got' = [got EXCEPT ![w] = 0]
      /\ paidTrue' = paidTrue /\ handed' = handed /\ seen' = seen /\ db' = db
  BY DEF Raise, DatabaseIsLocked, GiveUp, history, tables
<1>2. \/ pc[w] \notin Holding /\ work' = work /\ writer' = writer
      \/ writer = w /\ work' = db /\ writer' = NULL
  <2>1. CASE DatabaseIsLocked(w)
    BY <2>1 DEF DatabaseIsLocked, tables, Holding
  <2>2. CASE Raise(w) /\ writer = w
    BY <2>2 DEF Raise
  <2>3. CASE Raise(w) /\ writer # w
    BY <2>3 DEF Raise, TransactionInv, LockInv
  <2> QED BY <2>1, <2>2, <2>3
<1>3. paidTrue \in [OrderId -> Nat] /\ handed \in [OrderId -> Seq(Nat)]
  BY DEF TransactionInv, TypeOK
<1> QED BY <1>1, <1>2, <1>3, LeaveInv

\* A crash leaves the committed tables, and no transaction.
LEMMA CrashInv ==
    ASSUME TransactionInv, Crash
    PROVE  TransactionInv'
<1>1. /\ db' = db /\ work' = db' /\ writer' = NULL
      /\ pc' = [w \in Worker |-> "idle"] /\ got' = [w \in Worker |-> 0]
  BY DEF Crash
<1>2. TypeOK'
  BY DEF TransactionInv, TypeOK, Crash, history, Label
<1>3. LedgerInv(db)'
  BY <1>1 DEF TransactionInv
<1>4. LockInv'
  BY <1>1, WorkerAssumption DEF LockInv, Holding
<1>5. \A w \in Worker : CallInv(w)' /\ WorkInv(w)'
  BY <1>1 DEF CallInv, WorkInv
<1> QED BY <1>2, <1>3, <1>4, <1>5 DEF TransactionInv

-----------------------------------------------------------------------------
(* Steps of nobody inside a call.                                          *)

\* Reading a delivery back changes only what its reader has seen.
LEMMA RedeliverInv ==
    ASSUME TransactionInv, NEW u \in User, NEW o, Redeliver(u, o)
    PROVE  TransactionInv'
<1>1. UNCHANGED <<tables, control>> /\ paidTrue' = paidTrue /\ handed' = handed
  BY DEF Redeliver
<1>2. PICK k \in Delivered(db, o, u) : seen' = [seen EXCEPT ![u] = @ \cup {k}]
  BY DEF Redeliver
<1>3. k \in Nat
  <2>1. PICK i \in 1..Len(db.deliveries) : k = db.deliveries[i].payload
    BY DEF Delivered
  <2>2. db.deliveries[i] \in DeliveryRow
    BY <2>1, ElementOfSeq DEF TransactionInv, TypeOK, Tables
  <2> QED BY <2>1, <2>2 DEF DeliveryRow
<1>4. seen' \in [User -> SUBSET Nat]
  BY <1>2, <1>3 DEF TransactionInv, TypeOK
<1>5. TypeOK'
  BY <1>1, <1>4 DEF TransactionInv, TypeOK, tables, control
<1>6. LedgerInv(db)' /\ LockInv' /\ \A w \in Worker : CallInv(w)' /\ WorkInv(w)'
  BY <1>1 DEF TransactionInv, tables, control, LockInv, CallInv, WorkInv, Whole
<1> QED BY <1>5, <1>6 DEF TransactionInv

\* A change made outside the bot is safe if it keeps the ledger invariant.
LEMMA OutsideInv ==
    ASSUME TransactionInv, NEW d \in Tables, LedgerInv(d), Outside(d)
    PROVE  TransactionInv'
<1>1. /\ writer = NULL /\ writer' = NULL /\ db' = d /\ work' = d
      /\ pc' = pc /\ call' = call /\ got' = got
  BY DEF Outside, control
<1>2. TypeOK'
  BY <1>1 DEF TransactionInv, TypeOK, Outside, history
<1>3. LedgerInv(db)' /\ LockInv'
  BY <1>1 DEF TransactionInv, LockInv
<1>4. \A w \in Worker : pc[w] \notin Holding
  BY <1>1, WorkerAssumption DEF TransactionInv, LockInv
<1>5. \A w \in Worker : CallInv(w)' /\ WorkInv(w)'
  BY <1>1, <1>4 DEF TransactionInv, CallInv, WorkInv, Holding
<1> QED BY <1>2, <1>3, <1>5 DEF TransactionInv

\* Stocking a key keeps the invariant.
LEMMA RestockInv ==
    ASSUME TransactionInv, NEW p \in Product, Restock(p)
    PROVE  TransactionInv'
<1>1. db \in Tables /\ LedgerInv(db) /\ Outside(InsertKey(db, p))
  BY DEF TransactionInv, TypeOK, Restock
<1>2. InsertKey(db, p) \in Tables /\ LedgerInv(InsertKey(db, p))
  BY <1>1, InsertKeyFacts, RestockingKeepsTheLedger
<1> QED BY <1>1, <1>2, OutsideInv

\* Calling an unpaid order off keeps the invariant.
LEMMA CallOffInv ==
    ASSUME TransactionInv, NEW o, CallOff(o)
    PROVE  TransactionInv'
<1>1. db \in Tables /\ LedgerInv(db) /\ HasStatus(db, o, "pending_payment")
      /\ Outside(SetCancelled(db, o))
  BY DEF TransactionInv, TypeOK, CallOff
<1>2. SetCancelled(db, o) \in Tables /\ LedgerInv(SetCancelled(db, o))
  BY <1>1, CallingOffKeepsTheLedger
<1> QED BY <1>1, <1>2, OutsideInv

-----------------------------------------------------------------------------
(* The theorems.                                                           *)

\* Every step of the service, its crashes and its surroundings keeps the
\* inductive invariant.
LEMMA NextInv == TransactionInv /\ [Next]_vars => TransactionInv'
<1> SUFFICES ASSUME TransactionInv, [Next]_vars
             PROVE  TransactionInv'
  OBVIOUS
<1>1. ASSUME NEW w \in Worker, NEW u \in User, NEW p \in Product, NEW a \in Amount,
             CallCreateOrder(w, u, p, a)
      PROVE  TransactionInv'
  <2> DEFINE c == [op |-> "create_order", user |-> u, product |-> p, amount |-> a]
  <2>1. c \in CreateOrderCall
    BY DEF CreateOrderCall
  <2>2. Start(w, c, "insert_order")
    BY <1>1 DEF CallCreateOrder
  <2> HIDE DEF c
  <2> QED BY <2>1, <2>2, StartInv
<1>2. ASSUME NEW w \in Worker, NEW o \in OrderId, NEW e \in PaymentId, CallMarkPaid(w, o, e)
      PROVE  TransactionInv'
  <2> DEFINE c == [op |-> "mark_paid", order |-> o, payment |-> e]
  <2>1. c \in MarkPaidCall
    BY DEF MarkPaidCall
  <2>2. Start(w, c, "update_paid")
    BY <1>2 DEF CallMarkPaid
  <2> HIDE DEF c
  <2> QED BY <2>1, <2>2, StartInv
<1>3. ASSUME NEW w \in Worker, NEW o \in OrderId, CallFulfillOrder(w, o)
      PROVE  TransactionInv'
  <2> DEFINE c == [op |-> "fulfill_order", order |-> o]
  <2>1. c \in FulfillOrderCall
    BY DEF FulfillOrderCall
  <2>2. Start(w, c, "update_delivered")
    BY <1>3 DEF CallFulfillOrder
  <2> HIDE DEF c
  <2> QED BY <2>1, <2>2, StartInv
<1>4. ASSUME NEW w \in Worker, Statement(w)
      PROVE  TransactionInv'
  BY <1>4, InsertOrderRowInv, UpdatePaidInv, InsertPaymentRowInv, UpdateDeliveredInv,
     ClaimOldestKeyInv, UpdateBackToPaidInv, InsertDeliveryRowInv, CommitInv, ReturnInv
     DEF Statement
<1>5. CASE UNCHANGED vars
  BY <1>5 DEF vars, tables, control, history, TransactionInv, TypeOK, LockInv,
     CallInv, WorkInv, Whole
<1> QED BY <1>1, <1>2, <1>3, <1>4, <1>5, RaiseInv, CrashInv, RedeliverInv, RestockInv,
        CallOffInv DEF Next

\* Whatever calls are made, replayed, interleaved, failed or cut off by a
\* crash, an open transaction differs from the committed tables by exactly
\* the statements it has executed, and the committed tables satisfy LedgerInv.
THEOREM TransactionsAreWhole == Spec => []TransactionInv
BY InitInv, NextInv, PTL DEF Spec

\* Every variable keeps its type: each row written by the service is a row of
\* its table, each call in progress has the parameters of its operation.
THEOREM TypeCorrect == Spec => []TypeOK
<1>1. TransactionInv => TypeOK
  BY DEF TransactionInv
<1> QED BY <1>1, TransactionsAreWhole, PTL

\* mark_paid records one payment per paid order, of the order's amount and
\* charge id, and none for an order that was not paid.
THEOREM PaymentsAreRecordedOnce == Spec => []PaidOnce
<1>1. TransactionInv => PaidOnce
  BY DEF TransactionInv, LedgerInv, PaidOnce
<1> QED BY <1>1, TransactionsAreWhole, PTL

\* fulfill_order records one delivery per delivered order, of a key of its
\* product that is marked used by its customer.
THEOREM OrdersAreDeliveredOnce == Spec => []DeliveredOnce
<1>1. TransactionInv => DeliveredOnce
  BY DEF TransactionInv, LedgerInv, DeliveredOnce
<1> QED BY <1>1, TransactionsAreWhole, PTL

\* No key is handed to two orders or used up without a delivery, and the
\* oldest key of a product is always the first to go.
THEOREM KeysAreSoldOnce == Spec => []KeysSoldOnce
<1>1. TransactionInv => KeysSoldOnce
  BY DEF TransactionInv, LedgerInv, KeysSoldOnce
<1> QED BY <1>1, TransactionsAreWhole, PTL

\* fulfill_order answers None for a paid order only when there is no key for
\* it, and leaves the tables as it found them.
THEOREM RefusalsAreJustified == Spec => []RefusedOnlyWhenOut
<1>1. TransactionInv => RefusedOnlyWhenOut
  <2> SUFFICES ASSUME TransactionInv, NEW w \in Worker,
                      pc[w] = "commit", call[w].op = "fulfill_order", got[w] = 0,
                      HasStatus(db, call[w].order, "paid")
               PROVE  work = db /\ StockFor(db, call[w].order) = {}
    BY DEF RefusedOnlyWhenOut
  <2>1. Whole(w)
    BY DEF TransactionInv, WorkInv
  <2>2. call[w] \notin CreateOrderCall /\ call[w] \notin MarkPaidCall
    BY DEF CreateOrderCall, MarkPaidCall
  <2>3. ~ IsOldest(0, StockFor(db, call[w].order))
    BY LengthsType DEF IsOldest, StockFor, FreeKeys
  <2> QED BY <2>1, <2>2, <2>3 DEF Whole
<1> QED BY <1>1, TransactionsAreWhole, PTL
=============================================================================
