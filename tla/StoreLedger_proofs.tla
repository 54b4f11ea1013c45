------------------------- MODULE StoreLedger_proofs ---------------------------
(***************************************************************************)
(* What follows from TransactionInv about steps and histories: the         *)
(* committed tables only go forward, callers are told the truth, and the   *)
(* service implements OrderLedger.                                         *)
(***************************************************************************)
EXTENDS StoreService_proofs, FiniteSetTheorems

-----------------------------------------------------------------------------
(* The committed tables only go forward.                                   *)

\* Placing an order only adds a row.
LEMMA PlacingIsForward ==
    ASSUME NEW d \in Tables, NEW u \in User, NEW p \in Product, NEW a \in Amount
    PROVE  Forward(d, InsertOrder(d, u, p, a))
<1> DEFINE t == InsertOrder(d, u, p, a)
<1>1. /\ Len(t.orders) = Len(d.orders) + 1
      /\ \A q \in 1..Len(d.orders) : t.orders[q] = d.orders[q]
      /\ t.payments = d.payments /\ t.deliveries = d.deliveries /\ t.keys = d.keys
  BY InsertOrderFacts
<1> HIDE DEF t
<1> SUFFICES Forward(d, t)
  BY DEF t
<1> QED BY <1>1, LengthsType DEF Forward

\* Paying takes a pending order one rank up and adds its payment.
LEMMA PayingIsForward ==
    ASSUME NEW d \in Tables, NEW o, HasStatus(d, o, "pending_payment"), NEW e \in PaymentId
    PROVE  Forward(d, Paid(d, o, e))
<1> DEFINE t == Paid(d, o, e)
<1>1. o \in 1..Len(d.orders) /\ d.orders[o].status = "pending_payment"
  BY DEF HasStatus
<1>2. /\ Len(t.orders) = Len(d.orders)
      /\ t.orders[o].status = "paid"
      /\ SameTerms(t.orders[o], d.orders[o])
      /\ \A q \in 1..Len(d.orders) : q # o => t.orders[q] = d.orders[q]
      /\ Len(t.payments) = Len(d.payments) + 1
      /\ \A i \in 1..Len(d.payments) : t.payments[i] = d.payments[i]
      /\ t.deliveries = d.deliveries /\ t.keys = d.keys
  BY <1>1, PaidFacts
<1> HIDE DEF t
<1> SUFFICES Forward(d, t)
  BY DEF t
<1>3. Rank(d.orders[o].status) < Rank(t.orders[o].status)
  BY <1>1, <1>2 DEF Rank
<1> QED BY <1>1, <1>2, <1>3, LengthsType DEF Forward, SameTerms

\* Delivering takes a paid order one rank up, and the key it uses was free.
LEMMA DeliveringIsForward ==
    ASSUME NEW d \in Tables, NEW o, HasStatus(d, o, "paid"),
           NEW k, IsOldest(k, FreeKeys(d, d.orders[o].product))
    PROVE  Forward(d, Handed(d, o, k))
<1> DEFINE t == Handed(d, o, k)
<1>1. /\ o \in 1..Len(d.orders) /\ d.orders[o].status = "paid"
      /\ k \in 1..Len(d.keys) /\ d.keys[k].used_by = NULL
  BY DEF HasStatus, IsOldest, FreeKeys
<1>2. /\ Len(t.orders) = Len(d.orders)
      /\ t.orders[o].status = "delivered"
      /\ SameTerms(t.orders[o], d.orders[o])
      /\ \A q \in 1..Len(d.orders) : q # o => t.orders[q] = d.orders[q]
      /\ t.payments = d.payments
  BY <1>1, HandedOrders
<1>3. /\ Len(t.deliveries) = Len(d.deliveries) + 1
      /\ \A i \in 1..Len(d.deliveries) : t.deliveries[i] = d.deliveries[i]
      /\ Len(t.keys) = Len(d.keys)
      /\ \A q \in 1..Len(d.keys) : q # k => t.keys[q] = d.keys[q]
  BY <1>1, HandedKeys
<1> HIDE DEF t
<1> SUFFICES Forward(d, t)
  BY DEF t
<1>4. Rank(d.orders[o].status) < Rank(t.orders[o].status)
  BY <1>1, <1>2 DEF Rank
<1> QED BY <1>1, <1>2, <1>3, <1>4, LengthsType DEF Forward, SameTerms

\* Stocking a key only adds a row.
LEMMA RestockingIsForward ==
    ASSUME NEW d \in Tables, NEW p \in Product
    PROVE  Forward(d, InsertKey(d, p))
<1> DEFINE t == InsertKey(d, p)
<1>1. /\ Len(t.keys) = Len(d.keys) + 1
      /\ \A k \in 1..Len(d.keys) : t.keys[k] = d.keys[k]
      /\ t.orders = d.orders /\ t.payments = d.payments /\ t.deliveries = d.deliveries
  BY InsertKeyFacts
<1> HIDE DEF t
<1> SUFFICES Forward(d, t)
  BY DEF t
<1> QED BY <1>1, LengthsType DEF Forward

\* Calling off takes a pending order to its end.
LEMMA CallingOffIsForward ==
    ASSUME NEW d \in Tables, NEW o, HasStatus(d, o, "pending_payment")
    PROVE  Forward(d, SetCancelled(d, o))
<1> DEFINE t == SetCancelled(d, o)
<1>1. o \in 1..Len(d.orders) /\ d.orders[o].status = "pending_payment"
  BY DEF HasStatus
<1>2. /\ Len(t.orders) = Len(d.orders)
      /\ t.orders[o].status = "cancelled"
      /\ SameTerms(t.orders[o], d.orders[o])
      /\ \A q \in 1..Len(d.orders) : q # o => t.orders[q] = d.orders[q]
      /\ t.payments = d.payments /\ t.deliveries = d.deliveries /\ t.keys = d.keys
  BY <1>1, SetCancelledFacts
<1> HIDE DEF t
<1> SUFFICES Forward(d, t)
  BY DEF t
<1>3. Rank(d.orders[o].status) < Rank(t.orders[o].status)
  BY <1>1, <1>2 DEF Rank
<1> QED BY <1>1, <1>2, <1>3, LengthsType DEF Forward, SameTerms

\* The tables may stay as they are.
LEMMA StayingIsForward ==
    ASSUME NEW d \in Tables
    PROVE  Forward(d, d)
BY LengthsType DEF Forward

\* What a commit publishes follows what was committed before.
LEMMA WholeIsForward ==
    ASSUME TransactionInv, NEW w \in Worker, Whole(w)
    PROVE  Forward(db, work)
<1> DEFINE c == call[w]
<1>1. db \in Tables
  BY DEF TransactionInv, TypeOK
<1>2. CASE work = db
  BY <1>1, <1>2, StayingIsForward
<1>3. CASE c \in CreateOrderCall /\ work = InsertOrder(db, c.user, c.product, c.amount)
  <2>1. c.user \in User /\ c.product \in Product /\ c.amount \in Amount
    BY <1>3 DEF CreateOrderCall
  <2> QED BY <1>1, <1>3, <2>1, PlacingIsForward
<1>4. CASE /\ c \in MarkPaidCall
           /\ HasStatus(db, c.order, "pending_payment")
           /\ work = Paid(db, c.order, c.payment)
  <2>1. c.payment \in PaymentId
    BY <1>4 DEF MarkPaidCall
  <2> QED BY <1>1, <1>4, <2>1, PayingIsForward
<1>5. CASE /\ HasStatus(db, c.order, "paid")
           /\ IsOldest(got[w], StockFor(db, c.order))
           /\ work = Handed(db, c.order, got[w])
  BY <1>1, <1>5, DeliveringIsForward DEF StockFor
<1> QED BY <1>2, <1>3, <1>4, <1>5 DEF Whole

\* Only a commit and what is done outside the bot change the committed tables.
LEMMA OnlyCommitsChangeTables ==
    ASSUME [Next]_vars
    PROVE  \/ db' = db
           \/ \E w \in Worker : Commit(w)
           \/ \E p \in Product : Restock(p)
           \/ \E o \in OrderId : CallOff(o)
<1>1. ASSUME NEW w \in Worker, Statement(w), ~ Commit(w)
      PROVE  db' = db
  BY <1>1 DEF Statement, InsertOrderRow, UpdatePaid, InsertPaymentRow, UpdateDelivered,
     ClaimOldestKey, UpdateBackToPaid, InsertDeliveryRow, Return, Execute, tables
<1>2. ASSUME NEW w \in Worker,
             \/ \E u \in User, p \in Product, a \in Amount : CallCreateOrder(w, u, p, a)
             \/ \E o \in OrderId, e \in PaymentId : CallMarkPaid(w, o, e)
             \/ \E o \in OrderId : CallFulfillOrder(w, o)
      PROVE  db' = db
  BY <1>2 DEF CallCreateOrder, CallMarkPaid, CallFulfillOrder, Start, tables
<1>3. ASSUME NEW w \in Worker, Raise(w) \/ DatabaseIsLocked(w)
      PROVE  db' = db
  BY <1>3 DEF Raise, DatabaseIsLocked, tables
<1>4. CASE Crash \/ (\E u \in User, o \in OrderId : Redeliver(u, o)) \/ UNCHANGED vars
  BY <1>4 DEF Crash, Redeliver, vars, tables
<1> QED BY <1>1, <1>2, <1>3, <1>4 DEF Next

\* Each step takes the committed tables forward, or leaves them alone.
LEMMA StepIsForward ==
    ASSUME TransactionInv, [Next]_vars
    PROVE  Forward(db, db')
<1>1. db \in Tables
  BY DEF TransactionInv, TypeOK
<1>2. CASE db' = db
  BY <1>1, <1>2, StayingIsForward
<1>3. ASSUME NEW w \in Worker, Commit(w)
      PROVE  Forward(db, db')
  BY <1>3, WholeIsForward DEF Commit, At, TransactionInv, WorkInv
<1>4. ASSUME NEW p \in Product, Restock(p)
      PROVE  Forward(db, db')
  BY <1>1, <1>4, RestockingIsForward DEF Restock, Outside
<1>5. ASSUME NEW o \in OrderId, CallOff(o)
      PROVE  Forward(db, db')
  BY <1>1, <1>5, CallingOffIsForward DEF CallOff, Outside
<1> QED BY <1>2, <1>3, <1>4, <1>5, OnlyCommitsChangeTables

\* No commit takes an order back, changes its terms, or touches what is
\* delivered, cancelled or recorded.
THEOREM OrdersGoForward == Spec => OnlyForward
<1>1. TransactionInv /\ [Next]_vars => [Forward(db, db')]_db
  BY StepIsForward
<1> QED BY <1>1, TransactionsAreWhole, PTL DEF Spec, OnlyForward

-----------------------------------------------------------------------------
(* What callers and users were told.                                       *)

\* Order o's payment is on record; k was delivered to it and can be shown.
PaymentOf(o) == \E i \in 1..Len(db.payments) : db.payments[i].order = o
Shown(o, k) == k \in Delivered(db, o, db.orders[o].user)

\* Worker w is about to answer that order o is paid, or to hand a key for it.
ToldPaid(w, o) == pc[w] = "return" /\ call[w] \in MarkPaidCall /\ call[w].order = o /\ got[w] # 0
GivenKey(w, o) == pc[w] = "return" /\ call[w] \in FulfillOrderCall /\ call[w].order = o /\ got[w] # 0

\* An answer, given or still to be given, is about what is on record, and of
\* all answers about an order, given or still to be given, there is only one.
PaidAnswers(o) ==
    /\ paidTrue[o] <= 1
    /\ paidTrue[o] = 1 => PaymentOf(o)
    /\ \A w \in Worker : ToldPaid(w, o) => PaymentOf(o) /\ paidTrue[o] = 0
    /\ \A v, w \in Worker : ToldPaid(v, o) /\ ToldPaid(w, o) => v = w

KeyAnswers(o) ==
    /\ Len(handed[o]) <= 1
    /\ Len(handed[o]) = 1 => Shown(o, handed[o][1])
    /\ \A w \in Worker : GivenKey(w, o) => Shown(o, got[w]) /\ handed[o] = <<>>
    /\ \A v, w \in Worker : GivenKey(v, o) /\ GivenKey(w, o) => v = w

AnswersInv == \A o \in OrderId : PaidAnswers(o) /\ KeyAnswers(o)

\* What is on record stays on record.
LEMMA RecordsStay ==
    ASSUME TransactionInv, TransactionInv', [Next]_vars, NEW o
    PROVE  /\ PaymentOf(o) => PaymentOf(o)'
           /\ \A k : Shown(o, k) => Shown(o, k)'
<1>1. Forward(db, db') /\ db \in Tables /\ db' \in Tables
  BY StepIsForward DEF TransactionInv, TypeOK
<1>2. /\ Len(db.payments) <= Len(db'.payments)
      /\ \A i \in 1..Len(db.payments) : db'.payments[i] = db.payments[i]
      /\ Len(db.deliveries) <= Len(db'.deliveries)
      /\ \A i \in 1..Len(db.deliveries) : db'.deliveries[i] = db.deliveries[i]
      /\ Len(db.orders) <= Len(db'.orders)
      /\ \A q \in 1..Len(db.orders) : db'.orders[q].user = db.orders[q].user
  BY <1>1 DEF Forward
<1>3. /\ Len(db.payments) \in Nat /\ Len(db'.payments) \in Nat
      /\ Len(db.deliveries) \in Nat /\ Len(db'.deliveries) \in Nat
      /\ Len(db.orders) \in Nat /\ Len(db'.orders) \in Nat
  BY <1>1, LengthsType
<1>4. PaymentOf(o) => PaymentOf(o)'
  BY <1>2, <1>3 DEF PaymentOf
<1>5. ASSUME NEW k, Shown(o, k)
      PROVE  Shown(o, k)'
  <2>1. PICK i \in 1..Len(db.deliveries) :
            db.deliveries[i].order = o /\ o \in 1..Len(db.orders) /\ db.deliveries[i].payload = k
    BY <1>5 DEF Shown, Delivered
  <2>2. i \in 1..Len(db'.deliveries) /\ o \in 1..Len(db'.orders)
    BY <1>2, <1>3, <2>1
  <2> QED BY <1>2, <2>1, <2>2 DEF Shown, Delivered
<1> QED BY <1>4, <1>5

\* A step that answers nobody, gives nobody an answer to give and leaves the
\* histories of answers alone keeps the invariant.
LEMMA QuietKeepsAnswers ==
    ASSUME TransactionInv, TransactionInv', [Next]_vars, AnswersInv,
           paidTrue' = paidTrue, handed' = handed,
           \A w \in Worker : pc'[w] = "return" =>
                pc[w] = "return" /\ call'[w] = call[w] /\ got'[w] = got[w]
    PROVE  AnswersInv'
<1> SUFFICES ASSUME NEW o \in OrderId
             PROVE  PaidAnswers(o)' /\ KeyAnswers(o)'
  BY DEF AnswersInv
<1>1. PaidAnswers(o) /\ KeyAnswers(o)
  BY DEF AnswersInv
<1>2. \A w \in Worker :
        /\ ToldPaid(w, o)' => ToldPaid(w, o)
        /\ GivenKey(w, o)' => GivenKey(w, o) /\ got'[w] = got[w]
  BY DEF ToldPaid, GivenKey
<1>3. PaidAnswers(o)'
  BY <1>1, <1>2, RecordsStay DEF PaidAnswers
<1>4. KeyAnswers(o)'
  BY <1>1, <1>2, RecordsStay DEF KeyAnswers
<1> QED BY <1>3, <1>4

\* The call whose payment is committed is the first to be told True: its
\* order was pending, so there was no payment of it and nobody was told.
LEMMA CommitKeepsPaidAnswers ==
    ASSUME TransactionInv, TransactionInv', [Next]_vars, AnswersInv,
           NEW w \in Worker, Commit(w), NEW o \in OrderId
    PROVE  PaidAnswers(o)'
<1>1. /\ pc[w] = "commit" /\ db' = work /\ paidTrue' = paidTrue
      /\ pc' = [pc EXCEPT ![w] = "return"] /\ call' = call /\ got' = got
  BY DEF Commit, At, history
<1>2. PaidAnswers(o) /\ Whole(w) /\ db \in Tables /\ PaymentsMatchOrders(db)
  BY <1>1 DEF AnswersInv, TransactionInv, TypeOK, WorkInv, LedgerInv
<1>3. \A v \in Worker : v # w => (ToldPaid(v, o)' <=> ToldPaid(v, o))
  BY <1>1 DEF ToldPaid, TransactionInv, TypeOK
<1>4. CASE ~ ToldPaid(w, o)'
  BY <1>1, <1>2, <1>3, <1>4, RecordsStay DEF PaidAnswers
<1>5. CASE ToldPaid(w, o)'
  <2>1. call[w] \in MarkPaidCall /\ call[w].order = o /\ got[w] # 0
    BY <1>1, <1>5 DEF ToldPaid
  <2>2. call[w] \notin CreateOrderCall /\ call[w] \notin FulfillOrderCall
    BY <2>1 DEF MarkPaidCall, CreateOrderCall, FulfillOrderCall
  <2>3. HasStatus(db, o, "pending_payment") /\ work = Paid(db, o, call[w].payment)
    BY <1>2, <2>1, <2>2 DEF Whole
  <2>4. o \in 1..Len(db.orders) /\ call[w].payment \in PaymentId
    BY <2>1, <2>3 DEF HasStatus, MarkPaidCall
  <2>5. ~ PaymentOf(o)
    BY <1>2, <2>3 DEF PaymentOf, PaymentsMatchOrders, HasStatus
  <2>6. PaymentOf(o)'
    <3>1. /\ Len(work.payments) = Len(db.payments) + 1
          /\ work.payments[Len(db.payments) + 1].order = o
      BY <1>2, <2>3, <2>4, PaidFacts
    <3>2. Len(db.payments) \in Nat
      BY <1>2, LengthsType
    <3> QED BY <1>1, <3>1, <3>2 DEF PaymentOf
  <2>7. paidTrue[o] = 0 /\ \A v \in Worker : ~ ToldPaid(v, o)
    BY <1>2, <2>5 DEF PaidAnswers, TransactionInv, TypeOK
  <2> QED BY <1>1, <1>3, <2>6, <2>7 DEF PaidAnswers
<1> QED BY <1>4, <1>5

\* The call whose delivery is committed is the first to be given a key for
\* its order: the order was paid, so it had no delivery and nobody a key.
LEMMA CommitKeepsKeyAnswers ==
    ASSUME TransactionInv, TransactionInv', [Next]_vars, AnswersInv,
           NEW w \in Worker, Commit(w), NEW o \in OrderId
    PROVE  KeyAnswers(o)'
<1>1. /\ pc[w] = "commit" /\ db' = work /\ handed' = handed
      /\ pc' = [pc EXCEPT ![w] = "return"] /\ call' = call /\ got' = got
  BY DEF Commit, At, history
<1>2. KeyAnswers(o) /\ Whole(w) /\ db \in Tables /\ DeliveriesMatchOrders(db)
  BY <1>1 DEF AnswersInv, TransactionInv, TypeOK, WorkInv, LedgerInv
<1>3. \A v \in Worker : v # w => (GivenKey(v, o)' <=> GivenKey(v, o))
  BY <1>1 DEF GivenKey, TransactionInv, TypeOK
<1>4. CASE ~ GivenKey(w, o)'
  BY <1>1, <1>2, <1>3, <1>4, RecordsStay DEF KeyAnswers
<1>5. CASE GivenKey(w, o)'
  <2>0. PICK k : k = got[w]
    OBVIOUS
  <2>1. call[w] \in FulfillOrderCall /\ call[w].order = o
    BY <1>1, <1>5 DEF GivenKey
  <2>2. call[w] \notin CreateOrderCall /\ call[w] \notin MarkPaidCall
    BY <2>1 DEF MarkPaidCall, CreateOrderCall, FulfillOrderCall
  <2>3. HasStatus(db, o, "paid") /\ IsOldest(k, StockFor(db, o)) /\ work = Handed(db, o, k)
    BY <1>1, <1>2, <1>5, <2>0, <2>1, <2>2 DEF Whole, GivenKey
  <2>4. o \in 1..Len(db.orders) /\ k \in 1..Len(db.keys)
    BY <2>3 DEF HasStatus, IsOldest, StockFor, FreeKeys
  <2>5. \A j : ~ Shown(o, j)
    BY <1>2, <2>3 DEF Shown, Delivered, DeliveriesMatchOrders, HasStatus
  <2>6. Shown(o, k)'
    <3>1. /\ Len(work.deliveries) = Len(db.deliveries) + 1
          /\ work.deliveries[Len(db.deliveries) + 1].order = o
          /\ work.deliveries[Len(db.deliveries) + 1].payload = k
      BY <1>2, <2>3, <2>4, HandedKeys
    <3>2. Len(work.orders) = Len(db.orders)
      BY <1>2, <2>3, <2>4, HandedOrders
    <3>3. Len(db.deliveries) \in Nat
      BY <1>2, LengthsType
    <3>4. Len(db.deliveries) + 1 \in 1..Len(work.deliveries) /\ o \in 1..Len(work.orders)
      BY <2>4, <3>1, <3>2, <3>3
    <3>5. k \in Delivered(work, o, work.orders[o].user)
      BY <3>1, <3>4 DEF Delivered
    <3> QED BY <1>1, <3>5 DEF Shown
  <2>7. handed[o] = <<>> /\ \A v \in Worker : ~ GivenKey(v, o)
    <3>1. handed[o] \in Seq(Nat) /\ Len(handed[o]) \in Nat
      BY LenProperties DEF TransactionInv, TypeOK
    <3>2. Len(handed[o]) <= 1 /\ Len(handed[o]) # 1
      BY <1>2, <2>5 DEF KeyAnswers
    <3>3. \A s \in Seq(Nat) : s # <<>> => Len(s) # 0
      BY EmptySeq
    <3>4. handed[o] = <<>>
      <4> DEFINE n == Len(handed[o])
      <4>1. n \in Nat /\ n <= 1 /\ n # 1
        BY <3>1, <3>2
      <4> HIDE DEF n
      <4>2. n = 0
        BY <4>1
      <4> QED BY <3>1, <3>3, <4>2 DEF n
    <3> QED BY <1>2, <2>5, <3>4 DEF KeyAnswers
  <2>8. got'[w] = k /\ handed'[o] = <<>> /\ Len(<<>>) = 0
    BY <1>1, <2>0, <2>7
  <2> QED BY <1>3, <2>6, <2>7, <2>8 DEF KeyAnswers
<1> QED BY <1>4, <1>5

\* An answer that is given was the only one to give, and none was given.
LEMMA ReturnKeepsPaidAnswers ==
    ASSUME TransactionInv, TransactionInv', [Next]_vars, AnswersInv,
           NEW w \in Worker, Return(w), NEW o \in OrderId
    PROVE  PaidAnswers(o)'
<1>1. /\ pc[w] = "return" /\ call[w] \in Call
      /\ \A v \in Worker : v # w => pc'[v] = pc[v] /\ call'[v] = call[v] /\ got'[v] = got[v]
      /\ pc'[w] = "idle"
  BY DEF Return, TransactionInv, TypeOK, CallInv
<1>2. PaidAnswers(o) /\ paidTrue \in [OrderId -> Nat]
  BY DEF AnswersInv, TransactionInv, TypeOK
<1>3. /\ ~ ToldPaid(w, o)'
      /\ \A v \in Worker : ToldPaid(v, o)' => ToldPaid(v, o) /\ v # w
  BY <1>1 DEF ToldPaid
<1>4. call[w] \in MarkPaidCall <=> call[w].op = "mark_paid"
  BY <1>1 DEF Call, MarkPaidCall, CreateOrderCall, FulfillOrderCall
<1>5. CASE ToldPaid(w, o)
  <2>1. paidTrue'[o] = 1 /\ PaymentOf(o)
    BY <1>2, <1>4, <1>5 DEF Return, ToldPaid, PaidAnswers
  <2>2. \A v \in Worker : ~ ToldPaid(v, o)'
    BY <1>2, <1>3, <1>5 DEF PaidAnswers
  <2> QED BY <2>1, <2>2, RecordsStay DEF PaidAnswers
<1>6. CASE ~ ToldPaid(w, o)
  <2>1. paidTrue'[o] = paidTrue[o]
    BY <1>1, <1>2, <1>4, <1>6 DEF Return, ToldPaid
  <2> QED BY <1>2, <1>3, <2>1, RecordsStay DEF PaidAnswers
<1> QED BY <1>5, <1>6

\* And so for a key that is handed to its caller.
LEMMA ReturnKeepsKeyAnswers ==
    ASSUME TransactionInv, TransactionInv', [Next]_vars, AnswersInv,
           NEW w \in Worker, Return(w), NEW o \in OrderId
    PROVE  KeyAnswers(o)'
<1>1. /\ pc[w] = "return" /\ call[w] \in Call
      /\ \A v \in Worker : v # w => pc'[v] = pc[v] /\ call'[v] = call[v] /\ got'[v] = got[v]
      /\ pc'[w] = "idle"
  BY DEF Return, TransactionInv, TypeOK, CallInv
<1>2. KeyAnswers(o) /\ handed \in [OrderId -> Seq(Nat)] /\ got[w] \in Nat
  BY DEF AnswersInv, TransactionInv, TypeOK
<1>3. /\ ~ GivenKey(w, o)'
      /\ \A v \in Worker : GivenKey(v, o)' => GivenKey(v, o) /\ v # w /\ got'[v] = got[v]
  BY <1>1 DEF GivenKey
<1>4. call[w] \in FulfillOrderCall <=> call[w].op = "fulfill_order"
  BY <1>1 DEF Call, MarkPaidCall, CreateOrderCall, FulfillOrderCall
<1>5. CASE GivenKey(w, o)
  <2>1. Shown(o, got[w]) /\ handed[o] = <<>>
    BY <1>2, <1>5 DEF KeyAnswers
  <2>2. handed'[o] = Append(<<>>, got[w])
    BY <1>2, <1>4, <1>5, <2>1 DEF Return, GivenKey
  <2>3. Len(handed'[o]) = 1 /\ handed'[o][1] = got[w]
    BY <1>2, <2>2
  <2>4. \A v \in Worker : ~ GivenKey(v, o)'
    BY <1>2, <1>3, <1>5 DEF KeyAnswers
  <2> QED BY <2>1, <2>3, <2>4, RecordsStay DEF KeyAnswers, Shown
<1>6. CASE ~ GivenKey(w, o)
  <2>1. handed'[o] = handed[o]
    BY <1>1, <1>2, <1>4, <1>6 DEF Return, GivenKey
  <2> QED BY <1>2, <1>3, <2>1, RecordsStay DEF KeyAnswers
<1> QED BY <1>5, <1>6

\* Which steps are quiet: all but a commit and a call's return.
LEMMA AnswersKept ==
    ASSUME TransactionInv, TransactionInv', [Next]_vars, AnswersInv
    PROVE  AnswersInv'
<1> DEFINE Quiet ==
        /\ paidTrue' = paidTrue /\ handed' = handed
        /\ \A w \in Worker : pc'[w] = "return" =>
                pc[w] = "return" /\ call'[w] = call[w] /\ got'[w] = got[w]
<1> USE DEF TransactionInv, TypeOK
<1>1. ASSUME NEW w \in Worker, NEW c, NEW label, Start(w, c, label), label # "return"
      PROVE  Quiet
  BY <1>1 DEF Start, history
<1>2. ASSUME NEW w \in Worker,
             \/ \E u \in User, p \in Product, a \in Amount : CallCreateOrder(w, u, p, a)
             \/ \E o \in OrderId, e \in PaymentId : CallMarkPaid(w, o, e)
             \/ \E o \in OrderId : CallFulfillOrder(w, o)
      PROVE  Quiet
  BY <1>1, <1>2 DEF CallCreateOrder, CallMarkPaid, CallFulfillOrder
<1>3. ASSUME NEW w \in Worker, NEW d, NEW next \in Holding, Execute(w, d, next),
             \A v \in Worker : v # w => got'[v] = got[v]
      PROVE  Quiet
  BY <1>3 DEF Execute, history, Holding
<1>4. ASSUME NEW w \in Worker, Statement(w), ~ Commit(w), ~ Return(w)
      PROVE  Quiet
  <2>1. \E d : \E next \in Holding : Execute(w, d, next)
    BY <1>4 DEF Statement, InsertOrderRow, UpdatePaid, InsertPaymentRow, UpdateDelivered,
       ClaimOldestKey, UpdateBackToPaid, InsertDeliveryRow, Holding
  <2>2. \A v \in Worker : v # w => got'[v] = got[v]
    BY <1>4 DEF Statement, InsertOrderRow, UpdatePaid, InsertPaymentRow, UpdateDelivered,
       ClaimOldestKey, UpdateBackToPaid, InsertDeliveryRow
  <2> HIDE DEF Quiet
  <2> QED BY <1>3, <2>1, <2>2
<1>5. ASSUME NEW w \in Worker, Raise(w) \/ DatabaseIsLocked(w)
      PROVE  Quiet
  BY <1>5 DEF Raise, DatabaseIsLocked, GiveUp, history
<1>6. ASSUME Crash
      PROVE  Quiet
  BY <1>6 DEF Crash, history
<1>7. ASSUME UNCHANGED control, UNCHANGED <<paidTrue, handed>>
      PROVE  Quiet
  BY <1>7 DEF control
<1>8. ASSUME \/ \E u \in User, o \in OrderId : Redeliver(u, o)
             \/ \E p \in Product : Restock(p)
             \/ \E o \in OrderId : CallOff(o)
             \/ UNCHANGED vars
      PROVE  Quiet
  BY <1>7, <1>8 DEF Redeliver, Restock, CallOff, Outside, vars, control, history
<1>9. CASE Quiet
  BY <1>9, QuietKeepsAnswers
<1>10. ASSUME NEW w \in Worker, Commit(w)
       PROVE  AnswersInv'
  BY <1>10, CommitKeepsPaidAnswers, CommitKeepsKeyAnswers DEF AnswersInv
<1>11. ASSUME NEW w \in Worker, Return(w)
       PROVE  AnswersInv'
  BY <1>11, ReturnKeepsPaidAnswers, ReturnKeepsKeyAnswers DEF AnswersInv
<1> HIDE DEF Quiet
<1> QED BY <1>2, <1>4, <1>5, <1>6, <1>8, <1>9, <1>10, <1>11 DEF Next

\* Whatever is replayed, lost or overtaken, the answers callers got and the
\* answers on their way to them agree with the tables and with each other.
THEOREM AnswersAreOnRecord == Spec => []AnswersInv
<1>1. Init => AnswersInv
  BY EmptySeq DEF Init, AnswersInv, PaidAnswers, KeyAnswers, ToldPaid, GivenKey
<1>2. TransactionInv /\ TransactionInv' /\ AnswersInv /\ [Next]_vars => AnswersInv'
  BY AnswersKept
<1> QED BY <1>1, <1>2, TransactionsAreWhole, PTL DEF Spec

\* mark_paid answers True to one caller per order, with the payment on record.
THEOREM TrueIsToldOnce == Spec => []TrueMeansPaidNow
<1>1. AnswersInv => TrueMeansPaidNow
  BY DEF AnswersInv, PaidAnswers, PaymentOf, TrueMeansPaidNow
<1> QED BY <1>1, AnswersAreOnRecord, PTL

\* fulfill_order gives one caller per order a key, the one its customer can
\* have shown again.
THEOREM KeysAreGivenOnce == Spec => []KeyReturnedOnce
<1>1. AnswersInv /\ TypeOK => KeyReturnedOnce
  <2> SUFFICES ASSUME AnswersInv, TypeOK, NEW o \in OrderId
               PROVE  /\ Len(handed[o]) <= 1
                      /\ \A n \in 1..Len(handed[o]) : Shown(o, handed[o][n])
    BY DEF KeyReturnedOnce, Shown
  <2>1. Len(handed[o]) \in Nat
    BY LenProperties DEF TypeOK
  <2>2. Len(handed[o]) <= 1 /\ (Len(handed[o]) = 1 => Shown(o, handed[o][1]))
    BY DEF AnswersInv, KeyAnswers
  <2> DEFINE n == Len(handed[o])
  <2>3. n \in Nat /\ n <= 1
    BY <2>1, <2>2
  <2> HIDE DEF n
  <2>4. \A i \in 1..n : i = 1 /\ n = 1
    BY <2>3
  <2> QED BY <2>2, <2>4 DEF n
<1> QED BY <1>1, AnswersAreOnRecord, TypeCorrect, PTL

-----------------------------------------------------------------------------
(* What users were shown.                                                  *)

\* Only redeliver shows anybody anything.
LEMMA StepShows ==
    ASSUME [Next]_vars
    PROVE  seen' = seen \/ \E u \in User, o \in OrderId : Redeliver(u, o)
BY DEF Next, vars, history, CallCreateOrder, CallMarkPaid, CallFulfillOrder, Start,
   Statement, InsertOrderRow, UpdatePaid, InsertPaymentRow, UpdateDelivered, ClaimOldestKey,
   UpdateBackToPaid, InsertDeliveryRow, Execute, Commit, Return, Raise, DatabaseIsLocked,
   GiveUp, Crash, Restock, CallOff, Outside

\* What redeliver has shown a user stays a delivery of an order of theirs.
LEMMA OwnersKept ==
    ASSUME TransactionInv, TransactionInv', [Next]_vars, OnlyTheOwnerSees
    PROVE  OnlyTheOwnerSees'
<1>1. Forward(db, db') /\ db \in Tables /\ db' \in Tables /\ DeliveriesMatchOrders(db)
  BY StepIsForward DEF TransactionInv, TypeOK, LedgerInv
<1>2. ASSUME NEW i \in 1..Len(db.deliveries)
      PROVE  /\ i \in 1..Len(db'.deliveries)
             /\ db'.deliveries[i] = db.deliveries[i]
             /\ db'.orders[db.deliveries[i].order].user = db.orders[db.deliveries[i].order].user
  <2>1. Len(db.deliveries) \in Nat /\ Len(db'.deliveries) \in Nat
    BY <1>1, LengthsType
  <2>2. db.deliveries[i].order \in 1..Len(db.orders)
    BY <1>1 DEF DeliveriesMatchOrders, HasStatus
  <2> QED BY <1>1, <2>1, <2>2 DEF Forward
<1>3. CASE seen' = seen
  BY <1>2, <1>3 DEF OnlyTheOwnerSees
<1>4. ASSUME NEW u \in User, NEW o \in OrderId, Redeliver(u, o)
      PROVE  OnlyTheOwnerSees'
  <2>1. PICK k \in Delivered(db, o, u) : seen' = [seen EXCEPT ![u] = @ \cup {k}]
    BY <1>4 DEF Redeliver
  <2>2. db' = db
    BY <1>4 DEF Redeliver, tables
  <2>3. \E i \in 1..Len(db.deliveries) :
            db.deliveries[i].payload = k /\ db.orders[db.deliveries[i].order].user = u
    BY <2>1 DEF Delivered
  <2>4. \A v \in User : seen'[v] = IF v = u THEN seen[v] \cup {k} ELSE seen[v]
    BY <2>1 DEF TransactionInv, TypeOK
  <2> SUFFICES ASSUME NEW v \in User, NEW j \in seen'[v]
               PROVE  \E i \in 1..Len(db.deliveries) :
                        /\ db.deliveries[i].payload = j
                        /\ db.orders[db.deliveries[i].order].user = v
    BY <2>2 DEF OnlyTheOwnerSees
  <2>5. j \in seen[v] \/ (v = u /\ j = k)
    BY <2>4
  <2> QED BY <2>3, <2>5 DEF OnlyTheOwnerSees
<1> QED BY <1>3, <1>4, StepShows

\* Whatever order ids callers name, nobody is shown a key of another's order.
THEOREM OwnersOnly == Spec => []OnlyTheOwnerSees
<1>1. Init => OnlyTheOwnerSees
  BY DEF Init, OnlyTheOwnerSees
<1>2. TransactionInv /\ TransactionInv' /\ OnlyTheOwnerSees /\ [Next]_vars => OnlyTheOwnerSees'
  BY OwnersKept
<1> QED BY <1>1, <1>2, TransactionsAreWhole, PTL DEF Spec

-----------------------------------------------------------------------------
(* Every order and key has an id within the bounds.                        *)

Waiting == {v \in Worker : pc[v] = "insert_order"}

\* Each call of create_order still to insert its order has room for it.
SizeInv ==
    /\ IsFiniteSet(Waiting)
    /\ Len(work.orders) + Cardinality(Waiting) <= MaxOrders
    /\ Len(db.orders) <= Len(work.orders)
    /\ Len(work.keys) <= MaxKeys
    /\ Len(db.keys) <= MaxKeys

\* The tables' lengths are numbers.
LEMMA SizeTypes ==
    ASSUME TransactionInv
    PROVE  /\ Len(db.orders) \in Nat /\ Len(db.keys) \in Nat
           /\ Len(work.orders) \in Nat /\ Len(work.keys) \in Nat
           /\ MaxOrders \in Nat /\ MaxKeys \in Nat
BY LengthsType, BoundAssumption DEF TransactionInv, TypeOK

\* No statement but create_order's INSERT adds an order, none adds a key.
LEMMA StatementSizes ==
    ASSUME TransactionInv, NEW w \in Worker, Statement(w), ~ InsertOrderRow(w)
    PROVE  Len(work'.orders) = Len(work.orders) /\ Len(work'.keys) = Len(work.keys)
<1> DEFINE c == call[w]
<1>1. work \in Tables /\ db \in Tables /\ CallInv(w) /\ WorkInv(w)
  BY DEF TransactionInv, TypeOK
<1>2. CASE Commit(w) \/ Return(w)
  BY <1>2 DEF Commit, Return, tables
<1>3. CASE UpdatePaid(w)
  <2>1. CASE work' = work
    BY <2>1
  <2>2. CASE HasStatus(work, c.order, "pending_payment") /\ work' = SetPaid(work, c.order, c.payment)
    <3>1. c.order \in 1..Len(work.orders) /\ c.payment \in PaymentId
      BY <1>1, <1>3, <2>2 DEF HasStatus, UpdatePaid, At, CallInv, MarkPaidCall
    <3> QED BY <1>1, <2>2, <3>1, SetPaidFacts
  <2> QED BY <1>3, <2>1, <2>2 DEF UpdatePaid, Execute
<1>4. CASE InsertPaymentRow(w)
  <2>1. work' = InsertPayment(work, c.order, c.payment)
    BY <1>4 DEF InsertPaymentRow, Execute
  <2>2. work'.orders = work.orders /\ work'.keys = work.keys
    BY <1>1, <2>1 DEF InsertPayment, Tables
  <2> QED BY <2>2
<1>5. CASE UpdateDelivered(w)
  <2>1. CASE work' = work
    BY <2>1
  <2>2. CASE HasStatus(work, c.order, "paid") /\ work' = SetDelivered(work, c.order)
    <3>1. c.order \in 1..Len(work.orders)
      BY <2>2 DEF HasStatus
    <3> QED BY <1>1, <2>2, <3>1, SetDeliveredFacts
  <2> QED BY <1>5, <2>1, <2>2 DEF UpdateDelivered, Execute
<1>6. CASE ClaimOldestKey(w) \/ UpdateBackToPaid(w)
  <2>1. c.order \in 1..Len(db.orders) /\ work = SetDelivered(db, c.order)
    BY <1>1, <1>6 DEF ClaimOldestKey, UpdateBackToPaid, At, WorkInv, HasStatus
  <2>2. c.order \in 1..Len(work.orders)
    BY <1>1, <2>1, SetDeliveredFacts
  <2>3. CASE ClaimOldestKey(w)
    <3>1. CASE work' = work
      BY <3>1
    <3>2. ASSUME NEW k \in StockFor(work, c.order), work' = ClaimKey(work, k, c.order)
          PROVE  Len(work'.orders) = Len(work.orders) /\ Len(work'.keys) = Len(work.keys)
      <4>1. k \in 1..Len(work.keys)
        BY DEF StockFor, FreeKeys
      <4> QED BY <1>1, <2>2, <3>2, <4>1, ClaimKeyFacts
    <3> QED BY <2>3, <3>1, <3>2 DEF ClaimOldestKey, Execute
  <2>4. CASE UpdateBackToPaid(w)
    <3>1. work' = SetBackToPaid(work, c.order)
      BY <2>4 DEF UpdateBackToPaid, Execute
    <3> QED BY <1>1, <2>2, <3>1, SetBackToPaidFacts
  <2> QED BY <1>6, <2>3, <2>4
<1>7. CASE InsertDeliveryRow(w)
  <2>1. work' = InsertDelivery(work, c.order, got[w])
    BY <1>7 DEF InsertDeliveryRow, Execute
  <2>2. work'.orders = work.orders /\ work'.keys = work.keys
    BY <1>1, <2>1 DEF InsertDelivery, Tables
  <2> QED BY <2>2
<1> QED BY <1>2, <1>3, <1>4, <1>5, <1>6, <1>7 DEF Statement

\* A step after which no more calls wait and no table has grown keeps the bounds.
LEMMA ShrinkingKeepsSizes ==
    ASSUME TransactionInv, TransactionInv', SizeInv,
           Waiting' \subseteq Waiting,
           Len(work'.orders) <= Len(work.orders),
           Len(db'.orders) <= Len(work'.orders),
           Len(work'.keys) <= MaxKeys, Len(db'.keys) <= MaxKeys
    PROVE  SizeInv'
<1>1. IsFiniteSet(Waiting') /\ Cardinality(Waiting') <= Cardinality(Waiting)
  BY FS_Subset DEF SizeInv
<1>2. Cardinality(Waiting) \in Nat /\ Cardinality(Waiting') \in Nat
  BY <1>1, FS_CardinalityType DEF SizeInv
<1>3. Len(work.orders) \in Nat /\ Len(work'.orders) \in Nat /\ MaxOrders \in Nat
  BY LengthsType, BoundAssumption DEF TransactionInv, TypeOK
<1>4. Len(work'.orders) + Cardinality(Waiting') <= MaxOrders
  BY <1>1, <1>2, <1>3 DEF SizeInv
<1> QED BY <1>1, <1>4 DEF SizeInv

\* A call of create_order is let in while there is room for its order.
LEMMA PlacingCallKeepsSizes ==
    ASSUME TransactionInv, TransactionInv', SizeInv,
           NEW w \in Worker, NEW u, NEW p, NEW a, CallCreateOrder(w, u, p, a)
    PROVE  SizeInv'
<1>1. /\ pc[w] = "idle" /\ pc' = [pc EXCEPT ![w] = "insert_order"]
      /\ db' = db /\ work' = work
      /\ Len(work.orders) + Cardinality(Waiting) < MaxOrders
  BY DEF CallCreateOrder, Start, tables, Waiting
<1>2. Waiting' = Waiting \cup {w} /\ w \notin Waiting
  BY <1>1 DEF Waiting, TransactionInv, TypeOK
<1>3. IsFiniteSet(Waiting')
  BY <1>2, FS_AddElement DEF SizeInv
<1>4. Cardinality(Waiting') = Cardinality(Waiting) + 1 /\ Cardinality(Waiting) \in Nat
  BY <1>2, FS_AddElement, FS_CardinalityType DEF SizeInv
<1>5. Len(work.orders) + Cardinality(Waiting') <= MaxOrders
  BY <1>1, <1>4, SizeTypes
<1> QED BY <1>1, <1>3, <1>5 DEF SizeInv

\* The INSERT takes the room its call was let in for.
LEMMA InsertKeepsSizes ==
    ASSUME TransactionInv, TransactionInv', SizeInv,
           NEW w \in Worker, InsertOrderRow(w)
    PROVE  SizeInv'
<1> DEFINE c == call[w]
<1>1. /\ pc[w] = "insert_order" /\ pc' = [pc EXCEPT ![w] = "commit"]
      /\ db' = db /\ work' = InsertOrder(work, c.user, c.product, c.amount)
  BY DEF InsertOrderRow, At, Execute
<1>2. Len(work'.orders) = Len(work.orders) + 1 /\ work'.keys = work.keys
  <2>1. c.user \in User /\ c.product \in Product /\ c.amount \in Amount
    BY <1>1 DEF TransactionInv, CallInv, CreateOrderCall
  <2>2. work \in Tables
    BY DEF TransactionInv, TypeOK
  <2> QED BY <1>1, <2>1, <2>2, InsertOrderFacts
<1>3. Waiting' = Waiting \ {w} /\ w \in Waiting
  BY <1>1 DEF Waiting, TransactionInv, TypeOK
<1>4. IsFiniteSet(Waiting')
  BY <1>3, FS_RemoveElement DEF SizeInv
<1>5. Cardinality(Waiting') = Cardinality(Waiting) - 1 /\ Cardinality(Waiting) \in Nat
  BY <1>3, FS_RemoveElement, FS_CardinalityType DEF SizeInv
<1>6. Len(work'.orders) + Cardinality(Waiting') <= MaxOrders
  BY <1>2, <1>5, SizeTypes DEF SizeInv
<1>7. Len(db'.orders) <= Len(work'.orders)
  BY <1>1, <1>2, SizeTypes DEF SizeInv
<1> QED BY <1>1, <1>2, <1>4, <1>6, <1>7 DEF SizeInv

\* Stocking and calling off are done outside of every transaction.
LEMMA OutsideKeepsSizes ==
    ASSUME TransactionInv, TransactionInv', SizeInv,
           (\E p \in Product : Restock(p)) \/ (\E o \in OrderId : CallOff(o))
    PROVE  SizeInv'
<1>1. db \in Tables /\ work = db
  BY DEF Restock, CallOff, Outside, TransactionInv, TypeOK, LockInv
<1>2. pc' = pc /\ db' = work'
  BY DEF Restock, CallOff, Outside, control
<1>3. Len(db'.orders) = Len(db.orders) /\ Len(db'.keys) <= MaxKeys
  <2>1. ASSUME NEW p \in Product, Restock(p)
        PROVE  Len(db'.orders) = Len(db.orders) /\ Len(db'.keys) <= MaxKeys
    <3>1. db' = InsertKey(db, p) /\ Len(db.keys) < MaxKeys
      BY <2>1 DEF Restock, Outside
    <3>2. Len(db'.keys) = Len(db.keys) + 1 /\ db'.orders = db.orders
      BY <1>1, <3>1, InsertKeyFacts
    <3> QED BY <3>1, <3>2, SizeTypes
  <2>2. ASSUME NEW o \in OrderId, CallOff(o)
        PROVE  Len(db'.orders) = Len(db.orders) /\ Len(db'.keys) <= MaxKeys
    <3>1. db' = SetCancelled(db, o) /\ o \in 1..Len(db.orders)
      BY <2>2 DEF CallOff, Outside, HasStatus
    <3>2. Len(db'.orders) = Len(db.orders) /\ db'.keys = db.keys
      BY <1>1, <3>1, SetCancelledFacts
    <3> QED BY <3>2 DEF SizeInv
  <2> QED BY <2>1, <2>2
<1>4. Len(db'.orders) <= Len(work'.orders) /\ Len(work'.orders) <= Len(work.orders)
  BY <1>1, <1>2, <1>3, SizeTypes
<1>5. Waiting' \subseteq Waiting
  BY <1>2 DEF Waiting
<1> QED BY <1>2, <1>3, <1>4, <1>5, ShrinkingKeepsSizes

\* Every step keeps the bounds.
LEMMA SizesKept ==
    ASSUME TransactionInv, TransactionInv', [Next]_vars, SizeInv
    PROVE  SizeInv'
<1>1. ASSUME db' = db, work' \in {work, db}, Waiting' \subseteq Waiting
      PROVE  SizeInv'
  <2>1. Len(work'.orders) <= Len(work.orders) /\ Len(db'.orders) <= Len(work'.orders)
    BY <1>1, SizeTypes DEF SizeInv
  <2>2. Len(work'.keys) <= MaxKeys /\ Len(db'.keys) <= MaxKeys
    BY <1>1 DEF SizeInv
  <2> QED BY <1>1, <2>1, <2>2, ShrinkingKeepsSizes
<1>2. ASSUME NEW w \in Worker, Statement(w), ~ InsertOrderRow(w)
      PROVE  SizeInv'
  <2>1. Len(work'.orders) = Len(work.orders) /\ Len(work'.keys) = Len(work.keys)
    BY <1>2, StatementSizes
  <2>2. db' = db \/ (db' = work /\ work' = work)
    BY <1>2 DEF Statement, InsertOrderRow, UpdatePaid, InsertPaymentRow, UpdateDelivered,
       ClaimOldestKey, UpdateBackToPaid, InsertDeliveryRow, Commit, Return, Execute, tables
  <2>3. \E label \in Label \ {"insert_order"} : pc' = [pc EXCEPT ![w] = label]
    BY <1>2 DEF Statement, UpdatePaid, InsertPaymentRow, UpdateDelivered,
       ClaimOldestKey, UpdateBackToPaid, InsertDeliveryRow, Commit, Return, Execute, Label, Holding
  <2>4. Waiting' \subseteq Waiting
    BY <2>3 DEF Waiting, TransactionInv, TypeOK
  <2>5. Len(work'.orders) <= Len(work.orders) /\ Len(db'.orders) <= Len(work'.orders)
    BY <2>1, <2>2, SizeTypes DEF SizeInv
  <2>6. Len(work'.keys) <= MaxKeys /\ Len(db'.keys) <= MaxKeys
    BY <2>1, <2>2 DEF SizeInv
  <2> QED BY <2>4, <2>5, <2>6, ShrinkingKeepsSizes
<1>3. ASSUME NEW w \in Worker,
             \/ \E o \in OrderId, e \in PaymentId : CallMarkPaid(w, o, e)
             \/ \E o \in OrderId : CallFulfillOrder(w, o)
             \/ Raise(w)
             \/ DatabaseIsLocked(w)
      PROVE  SizeInv'
  <2>1. db' = db /\ work' \in {work, db}
    BY <1>3 DEF CallMarkPaid, CallFulfillOrder, Start, Raise, DatabaseIsLocked, tables
  <2>2. \E label \in Label \ {"insert_order"} : pc' = [pc EXCEPT ![w] = label]
    BY <1>3 DEF CallMarkPaid, CallFulfillOrder, Start, Raise, DatabaseIsLocked, GiveUp, Label
  <2>3. Waiting' \subseteq Waiting
    BY <2>2 DEF Waiting, TransactionInv, TypeOK
  <2> QED BY <1>1, <2>1, <2>3
<1>4. CASE Crash
  BY <1>1, <1>4 DEF Crash, Waiting
<1>5. CASE (\E u \in User, o \in OrderId : Redeliver(u, o)) \/ UNCHANGED vars
  BY <1>1, <1>5 DEF Redeliver, vars, tables, control, Waiting
<1> QED BY <1>2, <1>3, <1>4, <1>5, PlacingCallKeepsSizes, InsertKeepsSizes, OutsideKeepsSizes
        DEF Next

\* Every order ever placed and every key ever stocked has an id the ledger knows.
THEOREM EverythingHasAnId == Spec => []SizeInv
<1>1. Init => SizeInv
  <2> SUFFICES ASSUME Init PROVE SizeInv
    OBVIOUS
  <2>1. Waiting = {}
    BY DEF Init, Waiting
  <2>2. /\ Len(db.orders) = 0 /\ Len(work.orders) = 0
        /\ Len(db.keys) = 0 /\ Len(work.keys) = 0
    BY DEF Init, EmptyTables
  <2> QED BY <2>1, <2>2, FS_EmptySet, BoundAssumption DEF SizeInv
<1>2. TransactionInv /\ TransactionInv' /\ SizeInv /\ [Next]_vars => SizeInv'
  BY SizesKept
<1> QED BY <1>1, <1>2, TransactionsAreWhole, PTL DEF Spec

-----------------------------------------------------------------------------
(* The service implements OrderLedger.                                     *)

\* The ledger's orders, receipts and handed keys, as functions of the tables.
orders == [o \in OrderId |-> LedgerOrder(o)]
receipts == [o \in OrderId |-> LedgerReceipts(o)]
keys == [o \in OrderId |-> LedgerHanded(o)]

\* Changing a function at one argument.
LEMMA OneChanged ==
    ASSUME NEW S, NEW f, NEW g, f = [q \in S |-> f[q]], g = [q \in S |-> g[q]],
           NEW a \in S, NEW x, g[a] = x, \A q \in S : q # a => g[q] = f[q]
    PROVE  g = [f EXCEPT ![a] = x]
OBVIOUS

\* And nowhere.
LEMMA NoneChanged ==
    ASSUME NEW S, NEW f, NEW g, f = [q \in S |-> f[q]], g = [q \in S |-> g[q]],
           \A q \in S : g[q] = f[q]
    PROVE  g = f
OBVIOUS

\* Rows that stay as they were look the same in the ledger.
LEMMA SameRows ==
    ASSUME NEW o,
           o \in 1..Len(db'.orders) <=> o \in 1..Len(db.orders),
           o \in 1..Len(db.orders) => db'.orders[o] = db.orders[o]
    PROVE  LedgerOrder(o)' = LedgerOrder(o)
BY DEF LedgerOrder

\* Tables that did not change, neither.
LEMMA SameOrders == db'.orders = db.orders => orders' = orders
BY DEF orders, LedgerOrder

LEMMA SameReceipts == db'.payments = db.payments => receipts' = receipts
BY DEF receipts, LedgerReceipts

LEMMA SameKeys == db'.deliveries = db.deliveries => keys' = keys
BY DEF keys, LedgerHanded

\* Changing one row of orders changes one order of the ledger.
LEMMA OneOrder ==
    ASSUME NEW o \in OrderId, o \in 1..Len(db.orders),
           Len(db'.orders) = Len(db.orders),
           SameTerms(db'.orders[o], db.orders[o]),
           \A q \in 1..Len(db.orders) : q # o => db'.orders[q] = db.orders[q]
    PROVE  orders' = [orders EXCEPT ![o].stage = db'.orders[o].status]
<1> DEFINE r == [stage |-> db'.orders[o].status, user |-> db.orders[o].user,
                 amount |-> db.orders[o].amount]
<1>1. LedgerOrder(o)' = r
  BY DEF LedgerOrder, SameTerms
<1>2. [orders[o] EXCEPT !.stage = db'.orders[o].status] = r
  BY DEF orders, LedgerOrder
<1>3. \A q \in OrderId : q # o => LedgerOrder(q)' = LedgerOrder(q)
  BY SameRows
<1> HIDE DEF r
<1>4. orders' = [orders EXCEPT ![o] = r]
  BY <1>1, <1>3 DEF orders
<1> QED BY <1>2, <1>4

\* create_order's commit is Place.
LEMMA PlacingPlaces ==
    ASSUME TransactionInv, NEW u \in User, NEW p \in Product, NEW a \in Amount,
           db' = InsertOrder(db, u, p, a), Len(db'.orders) <= MaxOrders, seen' = seen
    PROVE  Ledger!Next
<1>0. PICK n : n = Len(db.orders) + 1
  OBVIOUS
<1>1. /\ Len(db'.orders) = n
      /\ db'.orders[n] = NewOrder(u, p, a)
      /\ \A q \in 1..Len(db.orders) : db'.orders[q] = db.orders[q]
      /\ db'.payments = db.payments /\ db'.deliveries = db.deliveries
  BY <1>0, InsertOrderFacts DEF TransactionInv, TypeOK
<1>2. n \in OrderId /\ n \notin 1..Len(db.orders) /\ n \in 1..n
  BY <1>0, <1>1, SizeTypes DEF OrderId
<1>3. orders[n] = [stage |-> "absent"]
  BY <1>2 DEF orders, LedgerOrder
<1>4. LedgerOrder(n)' = [stage |-> "pending_payment", user |-> u, amount |-> a]
  BY <1>1, <1>2 DEF LedgerOrder, NewOrder
<1>5. \A q \in OrderId : q # n => LedgerOrder(q)' = LedgerOrder(q)
  <2>1. \A q \in OrderId : q # n => (q \in 1..n <=> q \in 1..Len(db.orders))
    BY <1>0, SizeTypes DEF OrderId
  <2> QED BY <1>1, <2>1, SameRows
<1>6. receipts' = receipts /\ keys' = keys
  BY <1>1, SameReceipts, SameKeys
<1>7. orders' = [orders EXCEPT ![n] = [stage |-> "pending_payment", user |-> u, amount |-> a]]
  BY <1>4, <1>5, <1>2 DEF orders
<1>8. Ledger!Place(n, u, a)
  BY <1>3, <1>6, <1>7 DEF Ledger!Place, Ledger!Absent, orders, receipts, keys
<1> QED BY <1>2, <1>8 DEF Ledger!Next

\* mark_paid's commit is Pay: the order had no receipt, and gets this one.
LEMMA PayingPays ==
    ASSUME TransactionInv, NEW o \in OrderId, NEW e \in PaymentId,
           HasStatus(db, o, "pending_payment"), db' = Paid(db, o, e), seen' = seen
    PROVE  Ledger!Next
<1> DEFINE receipt == [amount |-> db.orders[o].amount, external_id |-> e]
<1>1. /\ o \in 1..Len(db.orders) /\ db.orders[o].status = "pending_payment"
      /\ db \in Tables /\ PaymentsMatchOrders(db)
  BY DEF HasStatus, TransactionInv, TypeOK, LedgerInv
<1>2. PICK n : n = Len(db.payments) + 1
  OBVIOUS
<1>3. /\ Len(db'.orders) = Len(db.orders)
      /\ db'.orders[o].status = "paid"
      /\ SameTerms(db'.orders[o], db.orders[o])
      /\ \A q \in 1..Len(db.orders) : q # o => db'.orders[q] = db.orders[q]
      /\ Len(db'.payments) = n
      /\ db'.payments[n].order = o
      /\ db'.payments[n].amount = db.orders[o].amount
      /\ db'.payments[n].external_id = e
      /\ \A i \in 1..Len(db.payments) : db'.payments[i] = db.payments[i]
      /\ db'.deliveries = db.deliveries
  <2> DEFINE t == Paid(db, o, e)
  <2>1. /\ Len(t.orders) = Len(db.orders)
        /\ t.orders[o].status = "paid"
        /\ SameTerms(t.orders[o], db.orders[o])
        /\ \A q \in 1..Len(db.orders) : q # o => t.orders[q] = db.orders[q]
        /\ Len(t.payments) = Len(db.payments) + 1
        /\ t.payments[Len(db.payments) + 1].order = o
        /\ t.payments[Len(db.payments) + 1].amount = db.orders[o].amount
        /\ t.payments[Len(db.payments) + 1].external_id = e
        /\ \A i \in 1..Len(db.payments) : t.payments[i] = db.payments[i]
        /\ t.deliveries = db.deliveries
    BY <1>1, PaidFacts
  <2> HIDE DEF t
  <2>2. db' = t
    BY DEF t
  <2> QED BY <1>2, <2>1, <2>2
<1>4. orders' = [orders EXCEPT ![o].stage = "paid"]
  BY <1>1, <1>3, OneOrder
<1>5. orders[o].stage = "pending_payment" /\ orders[o].amount = db.orders[o].amount
  BY <1>1 DEF orders, LedgerOrder
<1>6. 1..Len(db'.payments) = 1..Len(db.payments) \cup {n}
  <2>1. Len(db.payments) \in Nat
    BY <1>1, LengthsType
  <2> QED BY <1>2, <1>3, <2>1
<1>7. \A i \in 1..Len(db.payments) : db.payments[i].order # o
  BY <1>1 DEF PaymentsMatchOrders
<1>8. LedgerReceipts(o)' = {receipt}
  BY <1>3, <1>6, <1>7 DEF LedgerReceipts
<1>9. \A q \in OrderId : q # o => LedgerReceipts(q)' = LedgerReceipts(q)
  BY <1>3, <1>6 DEF LedgerReceipts
<1> HIDE DEF receipt
<1>10. receipts' = [receipts EXCEPT ![o] = {receipt}]
  BY <1>8, <1>9 DEF receipts
<1>11. keys' = keys
  BY <1>3, SameKeys
<1>12. Ledger!Pay(o, e)
  BY <1>4, <1>5, <1>10, <1>11 DEF Ledger!Pay, orders, receipts, keys, receipt
<1> QED BY <1>12 DEF Ledger!Next

\* fulfill_order's commit is Deliver: the key was nobody's.
LEMMA DeliveringDelivers ==
    ASSUME TransactionInv, NEW o \in OrderId, NEW k,
           HasStatus(db, o, "paid"), IsOldest(k, StockFor(db, o)),
           db' = Handed(db, o, k), Len(db.keys) <= MaxKeys, seen' = seen
    PROVE  Ledger!Next
<1>1. /\ o \in 1..Len(db.orders) /\ db.orders[o].status = "paid"
      /\ k \in 1..Len(db.keys) /\ db.keys[k].used_by = NULL
      /\ db \in Tables /\ DeliveriesMatchOrders(db)
  BY DEF HasStatus, IsOldest, StockFor, FreeKeys, TransactionInv, TypeOK, LedgerInv
<1>2. PICK n : n = Len(db.deliveries) + 1
  OBVIOUS
<1>3. /\ Len(db'.orders) = Len(db.orders)
      /\ db'.orders[o].status = "delivered"
      /\ SameTerms(db'.orders[o], db.orders[o])
      /\ \A q \in 1..Len(db.orders) : q # o => db'.orders[q] = db.orders[q]
      /\ db'.payments = db.payments
  BY <1>1, HandedOrders
<1>4. /\ Len(db'.deliveries) = n
      /\ db'.deliveries[n].order = o
      /\ db'.deliveries[n].payload = k
      /\ \A i \in 1..Len(db.deliveries) : db'.deliveries[i] = db.deliveries[i]
  BY <1>1, <1>2, HandedKeys
<1>5. orders' = [orders EXCEPT ![o].stage = "delivered"]
  BY <1>1, <1>3, OneOrder
<1>6. orders[o].stage = "paid"
  BY <1>1 DEF orders, LedgerOrder
<1>7. 1..Len(db'.deliveries) = 1..Len(db.deliveries) \cup {n}
  <2>1. Len(db.deliveries) \in Nat
    BY <1>1, LengthsType
  <2> QED BY <1>2, <1>4, <2>1
<1>8. \A i \in 1..Len(db.deliveries) : db.deliveries[i].order # o /\ db.deliveries[i].payload # k
  <2>1. ASSUME NEW i \in 1..Len(db.deliveries)
        PROVE  /\ HasStatus(db, db.deliveries[i].order, "delivered")
               /\ db.keys[db.deliveries[i].payload].used_by # NULL
    <3>1. /\ HasStatus(db, db.deliveries[i].order, "delivered")
          /\ db.keys[db.deliveries[i].payload].used_by = db.orders[db.deliveries[i].order].user
      BY <1>1 DEF DeliveriesMatchOrders
    <3>2. db.orders[db.deliveries[i].order] \in OrderRow
      BY <1>1, <3>1, OrderRowType DEF HasStatus
    <3> QED BY <3>1, <3>2, NullAssumption DEF OrderRow
  <2> QED BY <1>1, <2>1 DEF HasStatus
<1>9. LedgerHanded(o)' = {k}
  BY <1>4, <1>7, <1>8 DEF LedgerHanded
<1>10. \A q \in OrderId : q # o => LedgerHanded(q)' = LedgerHanded(q)
  BY <1>4, <1>7 DEF LedgerHanded
<1>11. keys' = [keys EXCEPT ![o] = {k}]
  BY <1>9, <1>10 DEF keys
<1>12. \A q \in OrderId : k \notin keys[q]
  BY <1>8 DEF keys, LedgerHanded
<1>13. receipts' = receipts
  BY <1>3, SameReceipts
<1>14. Ledger!Deliver(o, k)
  BY <1>5, <1>6, <1>11, <1>12, <1>13 DEF Ledger!Deliver, orders, receipts, keys
<1>15. k \in KeyId
  BY <1>1, SizeTypes DEF KeyId
<1> QED BY <1>14, <1>15 DEF Ledger!Next

\* Calling off is Cancel.
LEMMA CallingOffCancels ==
    ASSUME TransactionInv, NEW o \in OrderId, CallOff(o)
    PROVE  Ledger!Next
<1>1. /\ o \in 1..Len(db.orders) /\ db.orders[o].status = "pending_payment"
      /\ db \in Tables /\ db' = SetCancelled(db, o) /\ seen' = seen
  BY DEF CallOff, Outside, HasStatus, history, TransactionInv, TypeOK
<1>2. /\ Len(db'.orders) = Len(db.orders)
      /\ db'.orders[o].status = "cancelled"
      /\ SameTerms(db'.orders[o], db.orders[o])
      /\ \A q \in 1..Len(db.orders) : q # o => db'.orders[q] = db.orders[q]
      /\ db'.payments = db.payments /\ db'.deliveries = db.deliveries
  BY <1>1, SetCancelledFacts
<1>3. orders' = [orders EXCEPT ![o].stage = "cancelled"]
  BY <1>1, <1>2, OneOrder
<1>4. orders[o].stage = "pending_payment"
  BY <1>1 DEF orders, LedgerOrder
<1>5. receipts' = receipts /\ keys' = keys
  BY <1>2, SameReceipts, SameKeys
<1>6. Ledger!Cancel(o)
  BY <1>1, <1>3, <1>4, <1>5 DEF Ledger!Cancel, orders, receipts, keys
<1> QED BY <1>6 DEF Ledger!Next

\* redeliver is Show: what it finds is the one key handed out for the order.
LEMMA RedeliveringShows ==
    ASSUME TransactionInv, NEW u \in User, NEW o \in OrderId, Redeliver(u, o)
    PROVE  Ledger!Next
<1>1. PICK k \in Delivered(db, o, u) : seen' = [seen EXCEPT ![u] = @ \cup {k}]
  BY DEF Redeliver
<1>2. PICK i \in 1..Len(db.deliveries) :
        /\ db.deliveries[i].order = o /\ o \in 1..Len(db.orders)
        /\ db.orders[o].user = u /\ db.deliveries[i].payload = k
  BY <1>1 DEF Delivered
<1>3. DeliveriesMatchOrders(db) /\ OneDeliveryPerOrder(db) /\ db' = db
  BY DEF TransactionInv, LedgerInv, Redeliver, tables
<1>4. orders[o].stage = "delivered" /\ orders[o].user = u
  BY <1>2, <1>3 DEF orders, LedgerOrder, DeliveriesMatchOrders, HasStatus
<1>5. keys[o] = {k}
  <2>1. \A j \in 1..Len(db.deliveries) : db.deliveries[j].order = o => j = i
    BY <1>2, <1>3 DEF OneDeliveryPerOrder
  <2> QED BY <1>2, <2>1 DEF keys, LedgerHanded
<1>6. orders' = orders /\ receipts' = receipts /\ keys' = keys
  BY <1>3, SameOrders, SameReceipts, SameKeys
<1>7. Ledger!Show(o)
  BY <1>1, <1>4, <1>5, <1>6 DEF Ledger!Show, orders, receipts, keys
<1> QED BY <1>7 DEF Ledger!Next

\* What a commit publishes is one step of the ledger, or none.
LEMMA CommitIsOneStep ==
    ASSUME TransactionInv, SizeInv', NEW w \in Worker, Commit(w)
    PROVE  Ledger!Next \/ UNCHANGED <<orders, receipts, keys, seen>>
<1> DEFINE c == call[w]
<1>1. /\ db' = work /\ seen' = seen /\ Whole(w) /\ c \in Call
      /\ Len(db'.orders) <= MaxOrders /\ Len(db.keys) <= MaxKeys
  <2>1. pc[w] = "commit" /\ db' = work /\ work' = work /\ seen' = seen
    BY DEF Commit, At, history
  <2>2. Whole(w) /\ c \in Call
    BY <2>1 DEF TransactionInv, WorkInv, CallInv
  <2>3. Len(db'.orders) <= MaxOrders
    <3>1. Cardinality(Waiting') \in Nat
      BY FS_CardinalityType DEF SizeInv
    <3>2. Len(work.orders) + Cardinality(Waiting') <= MaxOrders
      BY <2>1 DEF SizeInv
    <3> QED BY <2>1, <3>1, <3>2, SizeTypes
  <2>4. Len(db.keys) <= Len(db'.keys) /\ Len(db'.keys) <= MaxKeys
    BY <2>1, <2>2, WholeIsForward DEF Forward, SizeInv
  <2>5. Len(db.keys) <= MaxKeys
    BY <2>1, <2>4, SizeTypes
  <2> QED BY <2>1, <2>2, <2>3, <2>5
<1>2. CASE work = db
  BY <1>1, <1>2, SameOrders, SameReceipts, SameKeys
<1>3. CASE c \in CreateOrderCall /\ work = InsertOrder(db, c.user, c.product, c.amount)
  <2>1. c.user \in User /\ c.product \in Product /\ c.amount \in Amount
    BY <1>3 DEF CreateOrderCall
  <2> QED BY <1>1, <1>3, <2>1, PlacingPlaces
<1>4. CASE /\ c \in MarkPaidCall
           /\ HasStatus(db, c.order, "pending_payment")
           /\ work = Paid(db, c.order, c.payment)
  <2>1. c.order \in OrderId /\ c.payment \in PaymentId
    BY <1>4 DEF MarkPaidCall
  <2> QED BY <1>1, <1>4, <2>1, PayingPays
<1>5. CASE /\ c \in FulfillOrderCall
           /\ HasStatus(db, c.order, "paid")
           /\ IsOldest(got[w], StockFor(db, c.order))
           /\ work = Handed(db, c.order, got[w])
  <2>1. c.order \in OrderId
    BY <1>5 DEF FulfillOrderCall
  <2> QED BY <1>1, <1>5, <2>1, DeliveringDelivers
<1> QED BY <1>1, <1>2, <1>3, <1>4, <1>5 DEF Whole

\* Every step of the service is a step of the ledger or leaves it alone.
LEMMA StepKeepsTheLedger ==
    ASSUME TransactionInv, SizeInv', [Next]_vars
    PROVE  Ledger!Next \/ UNCHANGED <<orders, receipts, keys, seen>>
<1>1. CASE db' = db /\ seen' = seen
  BY <1>1, SameOrders, SameReceipts, SameKeys
<1>2. ASSUME NEW u \in User, NEW o \in OrderId, Redeliver(u, o)
      PROVE  Ledger!Next
  BY <1>2, RedeliveringShows
<1>3. ASSUME NEW p \in Product, Restock(p)
      PROVE  UNCHANGED <<orders, receipts, keys, seen>>
  <2>1. db' = InsertKey(db, p) /\ seen' = seen
    BY <1>3 DEF Restock, Outside, history
  <2>2. db'.orders = db.orders /\ db'.payments = db.payments /\ db'.deliveries = db.deliveries
    BY <2>1, InsertKeyFacts DEF TransactionInv, TypeOK
  <2> QED BY <2>1, <2>2, SameOrders, SameReceipts, SameKeys
<1>4. ASSUME NEW o \in OrderId, CallOff(o)
      PROVE  Ledger!Next
  BY <1>4, CallingOffCancels
<1>5. \/ seen' = seen
      \/ \E u \in User, o \in OrderId : Redeliver(u, o)
  BY StepShows
<1> QED BY <1>1, <1>2, <1>3, <1>4, <1>5, CommitIsOneStep, OnlyCommitsChangeTables

\* StoreService implements OrderLedger: through its tables, every behaviour of
\* the service, with its replays, failures and crashes, is one of a ledger in
\* which an order is placed, paid, delivered and shown in single steps.
THEOREM ServiceKeepsTheLedger == Spec => KeepsTheLedger
<1>1. Init => Ledger!Init
  <2> SUFFICES ASSUME Init PROVE Ledger!Init
    OBVIOUS
  <2>1. Len(db.orders) = 0 /\ Len(db.payments) = 0 /\ Len(db.deliveries) = 0
    BY DEF Init, EmptyTables
  <2>2. \A o : o \notin 1..Len(db.orders)
    BY <2>1
  <2>3. \A o : LedgerOrder(o) = [stage |-> "absent"]
    BY <2>2 DEF LedgerOrder
  <2>4. \A o : LedgerReceipts(o) = {} /\ LedgerHanded(o) = {}
    BY <2>1 DEF LedgerReceipts, LedgerHanded
  <2>5. seen = [u \in User |-> {}]
    BY DEF Init
  <2> QED BY <2>3, <2>4, <2>5 DEF Ledger!Init, Ledger!Absent
<1>2. TransactionInv /\ SizeInv' /\ [Next]_vars => [Ledger!Next]_(Ledger!vars)
  BY StepKeepsTheLedger DEF Ledger!vars, orders, receipts, keys
<1> QED BY <1>1, <1>2, TransactionsAreWhole, EverythingHasAnId, PTL
        DEF Spec, KeepsTheLedger, Ledger!Spec
=============================================================================
