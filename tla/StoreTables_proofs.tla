-------------------------- MODULE StoreTables_proofs --------------------------
(***************************************************************************)
(* What the statements and the whole transactions of the service do to     *)
(* tables that satisfy LedgerInv: the tables stay well typed, and after a  *)
(* whole transaction LedgerInv holds again.                                *)
(***************************************************************************)
EXTENDS StoreTables, SequenceTheorems, TLAPS

\* Setting a row of orders leaves the other rows and tables alone.
LEMMA SetOrderRow ==
    ASSUME NEW d \in Tables, NEW o \in 1..Len(d.orders), NEW r \in OrderRow
    PROVE  LET t == [d EXCEPT !.orders[o] = r] IN
           /\ t \in Tables
           /\ Len(t.orders) = Len(d.orders)
           /\ t.orders[o] = r
           /\ \A q \in 1..Len(d.orders) : q # o => t.orders[q] = d.orders[q]
           /\ t.payments = d.payments /\ t.deliveries = d.deliveries /\ t.keys = d.keys
<1> DEFINE s == [d.orders EXCEPT ![o] = r]
<1>1. d.orders \in Seq(OrderRow)
  BY DEF Tables
<1>2. /\ s \in Seq(OrderRow)
      /\ Len(s) = Len(d.orders)
      /\ \A q \in 1..Len(d.orders) : s[q] = IF q = o THEN r ELSE d.orders[q]
  BY <1>1, ExceptSeq
<1> HIDE DEF s
<1>3. [d EXCEPT !.orders = s] \in Tables
  BY <1>2 DEF Tables
<1>4. /\ [d EXCEPT !.orders = s].orders = s
      /\ [d EXCEPT !.orders = s].payments = d.payments
      /\ [d EXCEPT !.orders = s].deliveries = d.deliveries
      /\ [d EXCEPT !.orders = s].keys = d.keys
  BY DEF Tables
<1>5. [d EXCEPT !.orders[o] = r] = [d EXCEPT !.orders = s]
  BY DEF s
<1> QED BY <1>2, <1>3, <1>4, <1>5

\* Likewise for a row of keys.
LEMMA SetKeyRow ==
    ASSUME NEW d \in Tables, NEW k \in 1..Len(d.keys), NEW r \in KeyRow
    PROVE  LET t == [d EXCEPT !.keys[k] = r] IN
           /\ t \in Tables
           /\ Len(t.keys) = Len(d.keys)
           /\ t.keys[k] = r
           /\ \A q \in 1..Len(d.keys) : q # k => t.keys[q] = d.keys[q]
           /\ t.payments = d.payments /\ t.deliveries = d.deliveries /\ t.orders = d.orders
<1> DEFINE s == [d.keys EXCEPT ![k] = r]
<1>1. d.keys \in Seq(KeyRow)
  BY DEF Tables
<1>2. /\ s \in Seq(KeyRow)
      /\ Len(s) = Len(d.keys)
      /\ \A q \in 1..Len(d.keys) : s[q] = IF q = k THEN r ELSE d.keys[q]
  BY <1>1, ExceptSeq
<1> HIDE DEF s
<1>3. [d EXCEPT !.keys = s] \in Tables
  BY <1>2 DEF Tables
<1>4. /\ [d EXCEPT !.keys = s].keys = s
      /\ [d EXCEPT !.keys = s].payments = d.payments
      /\ [d EXCEPT !.keys = s].deliveries = d.deliveries
      /\ [d EXCEPT !.keys = s].orders = d.orders
  BY DEF Tables
<1>5. [d EXCEPT !.keys[k] = r] = [d EXCEPT !.keys = s]
  BY DEF s
<1> QED BY <1>2, <1>3, <1>4, <1>5

\* An order row has its fields and its type.
LEMMA OrderRowType ==
    ASSUME NEW d \in Tables, NEW o \in 1..Len(d.orders)
    PROVE  d.orders[o] \in OrderRow
BY ElementOfSeq DEF Tables

\* So has a key row.
LEMMA KeyRowType ==
    ASSUME NEW d \in Tables, NEW k \in 1..Len(d.keys)
    PROVE  d.keys[k] \in KeyRow
BY ElementOfSeq DEF Tables

\* The tables have lengths.
LEMMA LengthsType ==
    ASSUME NEW d \in Tables
    PROVE  /\ Len(d.orders) \in Nat /\ Len(d.payments) \in Nat
           /\ Len(d.deliveries) \in Nat /\ Len(d.keys) \in Nat
BY LenProperties DEF Tables

\* Statements that set fields of an order leave its owner and its terms alone.
SameTerms(r, s) == r.user = s.user /\ r.product = s.product /\ r.amount = s.amount

\* The INSERT of create_order: a new last row, nothing else.
LEMMA InsertOrderFacts ==
    ASSUME NEW d \in Tables, NEW u \in User, NEW p \in Product, NEW a \in Amount
    PROVE  LET t == InsertOrder(d, u, p, a) IN
           /\ t \in Tables
           /\ Len(t.orders) = Len(d.orders) + 1
           /\ t.orders[Len(d.orders) + 1] = NewOrder(u, p, a)
           /\ \A q \in 1..Len(d.orders) : t.orders[q] = d.orders[q]
           /\ t.payments = d.payments /\ t.deliveries = d.deliveries /\ t.keys = d.keys
<1>1. NewOrder(u, p, a) \in OrderRow
  BY DEF NewOrder, OrderRow, OrderStatus
<1> DEFINE s == Append(d.orders, NewOrder(u, p, a))
<1>2. /\ s \in Seq(OrderRow)
      /\ Len(s) = Len(d.orders) + 1
      /\ s[Len(d.orders) + 1] = NewOrder(u, p, a)
      /\ \A q \in 1..Len(d.orders) : s[q] = d.orders[q]
  BY <1>1 DEF Tables
<1> HIDE DEF s
<1>3. /\ [d EXCEPT !.orders = s] \in Tables
      /\ [d EXCEPT !.orders = s].orders = s
      /\ [d EXCEPT !.orders = s].payments = d.payments
      /\ [d EXCEPT !.orders = s].deliveries = d.deliveries
      /\ [d EXCEPT !.orders = s].keys = d.keys
  BY <1>2 DEF Tables
<1>4. InsertOrder(d, u, p, a) = [d EXCEPT !.orders = s]
  BY DEF InsertOrder, s
<1> QED BY <1>2, <1>3, <1>4

\* mark_paid's UPDATE: status and charge id of one order, nothing else.
LEMMA SetPaidFacts ==
    ASSUME NEW d \in Tables, NEW o \in 1..Len(d.orders), NEW e \in PaymentId
    PROVE  LET t == SetPaid(d, o, e) IN
           /\ t \in Tables
           /\ Len(t.orders) = Len(d.orders)
           /\ t.orders[o].status = "paid"
           /\ t.orders[o].payment_id = e
           /\ t.orders[o].delivered_at = d.orders[o].delivered_at
           /\ SameTerms(t.orders[o], d.orders[o])
           /\ \A q \in 1..Len(d.orders) : q # o => t.orders[q] = d.orders[q]
           /\ t.payments = d.payments /\ t.deliveries = d.deliveries /\ t.keys = d.keys
<1> DEFINE r == [d.orders[o] EXCEPT !.status = "paid", !.payment_id = e]
<1>1. r \in OrderRow
  BY OrderRowType DEF OrderRow, OrderStatus
<1>2. SetPaid(d, o, e) = [d EXCEPT !.orders[o] = r]
  BY DEF SetPaid, Tables
<1>3. /\ r.status = "paid" /\ r.payment_id = e /\ r.delivered_at = d.orders[o].delivered_at
      /\ SameTerms(r, d.orders[o])
  BY OrderRowType DEF OrderRow, SameTerms
<1> HIDE DEF r
<1> QED BY <1>1, <1>2, <1>3, SetOrderRow

\* fulfill_order's first UPDATE: status and date of one order, nothing else.
LEMMA SetDeliveredFacts ==
    ASSUME NEW d \in Tables, NEW o \in 1..Len(d.orders)
    PROVE  LET t == SetDelivered(d, o) IN
           /\ t \in Tables
           /\ Len(t.orders) = Len(d.orders)
           /\ t.orders[o].status = "delivered"
           /\ t.orders[o].payment_id = d.orders[o].payment_id
           /\ t.orders[o].delivered_at = TRUE
           /\ SameTerms(t.orders[o], d.orders[o])
           /\ \A q \in 1..Len(d.orders) : q # o => t.orders[q] = d.orders[q]
           /\ t.payments = d.payments /\ t.deliveries = d.deliveries /\ t.keys = d.keys
<1> DEFINE r == [d.orders[o] EXCEPT !.status = "delivered", !.delivered_at = TRUE]
<1>1. r \in OrderRow
  BY OrderRowType DEF OrderRow, OrderStatus
<1>2. SetDelivered(d, o) = [d EXCEPT !.orders[o] = r]
  BY DEF SetDelivered, Tables
<1>3. /\ r.status = "delivered" /\ r.payment_id = d.orders[o].payment_id /\ r.delivered_at = TRUE
      /\ SameTerms(r, d.orders[o])
  BY OrderRowType DEF OrderRow, SameTerms
<1> HIDE DEF r
<1> QED BY <1>1, <1>2, <1>3, SetOrderRow

\* fulfill_order's UPDATE when out of stock: the same two, set back.
LEMMA SetBackToPaidFacts ==
    ASSUME NEW d \in Tables, NEW o \in 1..Len(d.orders)
    PROVE  LET t == SetBackToPaid(d, o) IN
           /\ t \in Tables
           /\ Len(t.orders) = Len(d.orders)
           /\ t.orders[o].status = "paid"
           /\ t.orders[o].payment_id = d.orders[o].payment_id
           /\ t.orders[o].delivered_at = FALSE
           /\ SameTerms(t.orders[o], d.orders[o])
           /\ \A q \in 1..Len(d.orders) : q # o => t.orders[q] = d.orders[q]
           /\ t.payments = d.payments /\ t.deliveries = d.deliveries /\ t.keys = d.keys
<1> DEFINE r == [d.orders[o] EXCEPT !.status = "paid", !.delivered_at = FALSE]
<1>1. r \in OrderRow
  BY OrderRowType DEF OrderRow, OrderStatus
<1>2. SetBackToPaid(d, o) = [d EXCEPT !.orders[o] = r]
  BY DEF SetBackToPaid, Tables
<1>3. /\ r.status = "paid" /\ r.payment_id = d.orders[o].payment_id /\ r.delivered_at = FALSE
      /\ SameTerms(r, d.orders[o])
  BY OrderRowType DEF OrderRow, SameTerms
<1> HIDE DEF r
<1> QED BY <1>1, <1>2, <1>3, SetOrderRow

\* Calling an order off: its status, nothing else.
LEMMA SetCancelledFacts ==
    ASSUME NEW d \in Tables, NEW o \in 1..Len(d.orders)
    PROVE  LET t == SetCancelled(d, o) IN
           /\ t \in Tables
           /\ Len(t.orders) = Len(d.orders)
           /\ t.orders[o].status = "cancelled"
           /\ t.orders[o].payment_id = d.orders[o].payment_id
           /\ t.orders[o].delivered_at = d.orders[o].delivered_at
           /\ SameTerms(t.orders[o], d.orders[o])
           /\ \A q \in 1..Len(d.orders) : q # o => t.orders[q] = d.orders[q]
           /\ t.payments = d.payments /\ t.deliveries = d.deliveries /\ t.keys = d.keys
<1> DEFINE r == [d.orders[o] EXCEPT !.status = "cancelled"]
<1>1. r \in OrderRow
  BY OrderRowType DEF OrderRow, OrderStatus
<1>2. SetCancelled(d, o) = [d EXCEPT !.orders[o] = r]
  BY DEF SetCancelled, Tables
<1>3. /\ r.status = "cancelled" /\ r.payment_id = d.orders[o].payment_id /\ r.delivered_at = d.orders[o].delivered_at
      /\ SameTerms(r, d.orders[o])
  BY OrderRowType DEF OrderRow, SameTerms
<1> HIDE DEF r
<1> QED BY <1>1, <1>2, <1>3, SetOrderRow

\* fulfill_order's UPDATE of keys: one key is its customer's, nothing else.
LEMMA ClaimKeyFacts ==
    ASSUME NEW d \in Tables, NEW o \in 1..Len(d.orders), NEW k \in 1..Len(d.keys)
    PROVE  LET t == ClaimKey(d, k, o) IN
           /\ t \in Tables
           /\ Len(t.keys) = Len(d.keys)
           /\ t.keys[k].used_by = d.orders[o].user
           /\ t.keys[k].product = d.keys[k].product
           /\ \A q \in 1..Len(d.keys) : q # k => t.keys[q] = d.keys[q]
           /\ t.payments = d.payments /\ t.deliveries = d.deliveries /\ t.orders = d.orders
<1> DEFINE r == [d.keys[k] EXCEPT !.used_by = d.orders[o].user]
<1>1. r \in KeyRow
  BY OrderRowType, KeyRowType DEF KeyRow, OrderRow
<1>2. ClaimKey(d, k, o) = [d EXCEPT !.keys[k] = r]
  BY DEF ClaimKey, Tables
<1>3. r.used_by = d.orders[o].user /\ r.product = d.keys[k].product
  BY KeyRowType DEF KeyRow
<1> HIDE DEF r
<1> QED BY <1>1, <1>2, <1>3, SetKeyRow

\* mark_paid's INSERT: a new last payment, of the order's own amount.
LEMMA InsertPaymentFacts ==
    ASSUME NEW d \in Tables, NEW o \in 1..Len(d.orders), NEW e \in PaymentId
    PROVE  LET t == InsertPayment(d, o, e) IN
           /\ t \in Tables
           /\ Len(t.payments) = Len(d.payments) + 1
           /\ t.payments[Len(d.payments) + 1].order = o
           /\ t.payments[Len(d.payments) + 1].amount = d.orders[o].amount
           /\ t.payments[Len(d.payments) + 1].external_id = e
           /\ \A i \in 1..Len(d.payments) : t.payments[i] = d.payments[i]
           /\ t.orders = d.orders /\ t.deliveries = d.deliveries /\ t.keys = d.keys
<1> DEFINE r == [order |-> o, amount |-> d.orders[o].amount, external_id |-> e]
           s == Append(d.payments, r)
<1>1. r \in PaymentRow
  BY OrderRowType, LengthsType DEF OrderRow, PaymentRow
<1> HIDE DEF r
<1>2. /\ s \in Seq(PaymentRow)
      /\ Len(s) = Len(d.payments) + 1
      /\ s[Len(d.payments) + 1] = r
      /\ \A q \in 1..Len(d.payments) : s[q] = d.payments[q]
  BY <1>1 DEF Tables
<1> HIDE DEF s
<1>3. /\ [d EXCEPT !.payments = s] \in Tables
      /\ [d EXCEPT !.payments = s].payments = s
      /\ [d EXCEPT !.payments = s].orders = d.orders
      /\ [d EXCEPT !.payments = s].deliveries = d.deliveries
      /\ [d EXCEPT !.payments = s].keys = d.keys
  BY <1>2 DEF Tables
<1>4. InsertPayment(d, o, e) = [d EXCEPT !.payments = s]
  BY DEF InsertPayment, s, r
<1> QED BY <1>2, <1>3, <1>4 DEF r

\* fulfill_order's INSERT: a new last delivery, nothing else.
LEMMA InsertDeliveryFacts ==
    ASSUME NEW d \in Tables, NEW o \in 1..Len(d.orders), NEW k \in Nat
    PROVE  LET t == InsertDelivery(d, o, k) IN
           /\ t \in Tables
           /\ Len(t.deliveries) = Len(d.deliveries) + 1
           /\ t.deliveries[Len(d.deliveries) + 1].order = o
           /\ t.deliveries[Len(d.deliveries) + 1].payload = k
           /\ \A i \in 1..Len(d.deliveries) : t.deliveries[i] = d.deliveries[i]
           /\ t.orders = d.orders /\ t.payments = d.payments /\ t.keys = d.keys
<1> DEFINE r == [order |-> o, payload |-> k]
           s == Append(d.deliveries, r)
<1>1. r \in DeliveryRow
  BY LengthsType DEF DeliveryRow
<1> HIDE DEF r
<1>2. /\ s \in Seq(DeliveryRow)
      /\ Len(s) = Len(d.deliveries) + 1
      /\ s[Len(d.deliveries) + 1] = r
      /\ \A q \in 1..Len(d.deliveries) : s[q] = d.deliveries[q]
  BY <1>1 DEF Tables
<1> HIDE DEF s
<1>3. /\ [d EXCEPT !.deliveries = s] \in Tables
      /\ [d EXCEPT !.deliveries = s].deliveries = s
      /\ [d EXCEPT !.deliveries = s].orders = d.orders
      /\ [d EXCEPT !.deliveries = s].payments = d.payments
      /\ [d EXCEPT !.deliveries = s].keys = d.keys
  BY <1>2 DEF Tables
<1>4. InsertDelivery(d, o, k) = [d EXCEPT !.deliveries = s]
  BY DEF InsertDelivery, s, r
<1> QED BY <1>2, <1>3, <1>4 DEF r

\* Stocking a key: a new last row of keys, used by nobody.
LEMMA InsertKeyFacts ==
    ASSUME NEW d \in Tables, NEW p \in Product
    PROVE  LET t == InsertKey(d, p) IN
           /\ t \in Tables
           /\ Len(t.keys) = Len(d.keys) + 1
           /\ t.keys[Len(d.keys) + 1].product = p
           /\ t.keys[Len(d.keys) + 1].used_by = NULL
           /\ \A k \in 1..Len(d.keys) : t.keys[k] = d.keys[k]
           /\ t.orders = d.orders /\ t.payments = d.payments /\ t.deliveries = d.deliveries
<1> DEFINE r == [product |-> p, used_by |-> NULL]
           s == Append(d.keys, r)
<1>1. r \in KeyRow
  BY DEF KeyRow
<1> HIDE DEF r
<1>2. /\ s \in Seq(KeyRow)
      /\ Len(s) = Len(d.keys) + 1
      /\ s[Len(d.keys) + 1] = r
      /\ \A q \in 1..Len(d.keys) : s[q] = d.keys[q]
  BY <1>1 DEF Tables
<1> HIDE DEF s
<1>3. /\ [d EXCEPT !.keys = s] \in Tables
      /\ [d EXCEPT !.keys = s].keys = s
      /\ [d EXCEPT !.keys = s].orders = d.orders
      /\ [d EXCEPT !.keys = s].payments = d.payments
      /\ [d EXCEPT !.keys = s].deliveries = d.deliveries
  BY <1>2 DEF Tables
<1>4. InsertKey(d, p) = [d EXCEPT !.keys = s]
  BY DEF InsertKey, s, r
<1> QED BY <1>2, <1>3, <1>4 DEF r

-----------------------------------------------------------------------------
(* Whole transactions.                                                     *)

\* What a whole mark_paid leaves: the order paid, and its payment.
LEMMA PaidFacts ==
    ASSUME NEW d \in Tables, NEW o \in 1..Len(d.orders), NEW e \in PaymentId
    PROVE  LET t == Paid(d, o, e) IN
           /\ t \in Tables
           /\ Len(t.orders) = Len(d.orders)
           /\ t.orders[o].status = "paid"
           /\ t.orders[o].payment_id = e
           /\ t.orders[o].delivered_at = d.orders[o].delivered_at
           /\ SameTerms(t.orders[o], d.orders[o])
           /\ \A q \in 1..Len(d.orders) : q # o => t.orders[q] = d.orders[q]
           /\ Len(t.payments) = Len(d.payments) + 1
           /\ t.payments[Len(d.payments) + 1].order = o
           /\ t.payments[Len(d.payments) + 1].amount = d.orders[o].amount
           /\ t.payments[Len(d.payments) + 1].external_id = e
           /\ \A i \in 1..Len(d.payments) : t.payments[i] = d.payments[i]
           /\ t.deliveries = d.deliveries /\ t.keys = d.keys
<1> DEFINE s == SetPaid(d, o, e)
<1>1. /\ s \in Tables
      /\ Len(s.orders) = Len(d.orders)
      /\ s.orders[o].status = "paid"
      /\ s.orders[o].payment_id = e
      /\ s.orders[o].delivered_at = d.orders[o].delivered_at
      /\ SameTerms(s.orders[o], d.orders[o])
      /\ \A q \in 1..Len(d.orders) : q # o => s.orders[q] = d.orders[q]
      /\ s.payments = d.payments /\ s.deliveries = d.deliveries /\ s.keys = d.keys
  BY SetPaidFacts
<1>2. s.orders[o].amount = d.orders[o].amount
  BY <1>1 DEF SameTerms
<1> HIDE DEF s
<1>3. o \in 1..Len(s.orders)
  BY <1>1
<1> DEFINE t == InsertPayment(s, o, e)
<1>4. /\ t \in Tables
      /\ Len(t.payments) = Len(s.payments) + 1
      /\ t.payments[Len(s.payments) + 1].order = o
      /\ t.payments[Len(s.payments) + 1].amount = s.orders[o].amount
      /\ t.payments[Len(s.payments) + 1].external_id = e
      /\ \A i \in 1..Len(s.payments) : t.payments[i] = s.payments[i]
      /\ t.orders = s.orders /\ t.deliveries = s.deliveries /\ t.keys = s.keys
  BY <1>1, <1>3, InsertPaymentFacts
<1>5. Paid(d, o, e) = t
  BY DEF Paid, s
<1> HIDE DEF t
<1> QED BY <1>1, <1>2, <1>4, <1>5

\* What a whole fulfill_order leaves of orders and payments.
LEMMA HandedOrders ==
    ASSUME NEW d \in Tables, NEW o \in 1..Len(d.orders), NEW k \in 1..Len(d.keys)
    PROVE  LET t == Handed(d, o, k) IN
           /\ t \in Tables
           /\ Len(t.orders) = Len(d.orders)
           /\ t.orders[o].status = "delivered"
           /\ t.orders[o].payment_id = d.orders[o].payment_id
           /\ t.orders[o].delivered_at = TRUE
           /\ SameTerms(t.orders[o], d.orders[o])
           /\ \A q \in 1..Len(d.orders) : q # o => t.orders[q] = d.orders[q]
           /\ t.payments = d.payments
<1> DEFINE s == SetDelivered(d, o)
           c == ClaimKey(s, k, o)
<1>1. /\ s \in Tables
      /\ Len(s.orders) = Len(d.orders)
      /\ s.orders[o].status = "delivered"
      /\ s.orders[o].payment_id = d.orders[o].payment_id
      /\ s.orders[o].delivered_at = TRUE
      /\ SameTerms(s.orders[o], d.orders[o])
      /\ \A q \in 1..Len(d.orders) : q # o => s.orders[q] = d.orders[q]
      /\ s.payments = d.payments /\ s.deliveries = d.deliveries /\ s.keys = d.keys
  BY SetDeliveredFacts
<1>2. s.orders[o].user = d.orders[o].user
  BY <1>1 DEF SameTerms
<1> HIDE DEF s
<1>3. s \in Tables /\ o \in 1..Len(s.orders) /\ k \in 1..Len(s.keys)
  BY <1>1
<1>4. /\ c \in Tables
      /\ Len(c.keys) = Len(s.keys)
      /\ c.keys[k].used_by = s.orders[o].user
      /\ c.keys[k].product = s.keys[k].product
      /\ \A q \in 1..Len(s.keys) : q # k => c.keys[q] = s.keys[q]
      /\ c.payments = s.payments /\ c.deliveries = s.deliveries /\ c.orders = s.orders
  BY <1>3, ClaimKeyFacts
<1> DEFINE t == InsertDelivery(c, o, k)
<1>5. Handed(d, o, k) = t
  BY DEF Handed, s
<1> HIDE DEF c
<1>6. o \in 1..Len(c.orders) /\ k \in Nat
  BY <1>3, <1>4, LengthsType
<1>7. /\ t \in Tables
      /\ Len(t.deliveries) = Len(c.deliveries) + 1
      /\ t.deliveries[Len(c.deliveries) + 1].order = o
      /\ t.deliveries[Len(c.deliveries) + 1].payload = k
      /\ \A i \in 1..Len(c.deliveries) : t.deliveries[i] = c.deliveries[i]
      /\ t.orders = c.orders /\ t.payments = c.payments /\ t.keys = c.keys
  BY <1>4, <1>6, InsertDeliveryFacts
<1> HIDE DEF t
<1> QED BY <1>1, <1>2, <1>4, <1>5, <1>7

\* What a whole fulfill_order leaves of keys and deliveries.
LEMMA HandedKeys ==
    ASSUME NEW d \in Tables, NEW o \in 1..Len(d.orders), NEW k \in 1..Len(d.keys)
    PROVE  LET t == Handed(d, o, k) IN
           /\ Len(t.deliveries) = Len(d.deliveries) + 1
           /\ t.deliveries[Len(d.deliveries) + 1].order = o
           /\ t.deliveries[Len(d.deliveries) + 1].payload = k
           /\ \A i \in 1..Len(d.deliveries) : t.deliveries[i] = d.deliveries[i]
           /\ Len(t.keys) = Len(d.keys)
           /\ t.keys[k].used_by = d.orders[o].user
           /\ t.keys[k].product = d.keys[k].product
           /\ \A q \in 1..Len(d.keys) : q # k => t.keys[q] = d.keys[q]
<1> DEFINE s == SetDelivered(d, o)
           c == ClaimKey(s, k, o)
<1>1. /\ s \in Tables
      /\ Len(s.orders) = Len(d.orders)
      /\ s.orders[o].status = "delivered"
      /\ s.orders[o].payment_id = d.orders[o].payment_id
      /\ s.orders[o].delivered_at = TRUE
      /\ SameTerms(s.orders[o], d.orders[o])
      /\ \A q \in 1..Len(d.orders) : q # o => s.orders[q] = d.orders[q]
      /\ s.payments = d.payments /\ s.deliveries = d.deliveries /\ s.keys = d.keys
  BY SetDeliveredFacts
<1>2. s.orders[o].user = d.orders[o].user
  BY <1>1 DEF SameTerms
<1> HIDE DEF s
<1>3. s \in Tables /\ o \in 1..Len(s.orders) /\ k \in 1..Len(s.keys)
  BY <1>1
<1>4. /\ c \in Tables
      /\ Len(c.keys) = Len(s.keys)
      /\ c.keys[k].used_by = s.orders[o].user
      /\ c.keys[k].product = s.keys[k].product
      /\ \A q \in 1..Len(s.keys) : q # k => c.keys[q] = s.keys[q]
      /\ c.payments = s.payments /\ c.deliveries = s.deliveries /\ c.orders = s.orders
  BY <1>3, ClaimKeyFacts
<1> DEFINE t == InsertDelivery(c, o, k)
<1>5. Handed(d, o, k) = t
  BY DEF Handed, s
<1> HIDE DEF c
<1>6. o \in 1..Len(c.orders) /\ k \in Nat
  BY <1>3, <1>4, LengthsType
<1>7. /\ t \in Tables
      /\ Len(t.deliveries) = Len(c.deliveries) + 1
      /\ t.deliveries[Len(c.deliveries) + 1].order = o
      /\ t.deliveries[Len(c.deliveries) + 1].payload = k
      /\ \A i \in 1..Len(c.deliveries) : t.deliveries[i] = c.deliveries[i]
      /\ t.orders = c.orders /\ t.payments = c.payments /\ t.keys = c.keys
  BY <1>4, <1>6, InsertDeliveryFacts
<1> HIDE DEF t
<1> QED BY <1>1, <1>2, <1>4, <1>5, <1>7

\* An order is placed: nothing else changes.
LEMMA PlacingKeepsTheLedger ==
    ASSUME NEW d \in Tables, LedgerInv(d),
           NEW u \in User, NEW p \in Product, NEW a \in Amount
    PROVE  LedgerInv(InsertOrder(d, u, p, a))
<1> DEFINE t == InsertOrder(d, u, p, a)
           n == Len(d.orders) + 1
<1>0. /\ t \in Tables
      /\ Len(t.orders) = n
      /\ t.orders[n] = NewOrder(u, p, a)
      /\ \A q \in 1..Len(d.orders) : t.orders[q] = d.orders[q]
      /\ t.payments = d.payments /\ t.deliveries = d.deliveries /\ t.keys = d.keys
  BY InsertOrderFacts
<1>1. t.orders[n].status = "pending_payment" /\ t.orders[n].delivered_at = FALSE
  BY <1>0 DEF NewOrder
<1>2. Len(d.orders) \in Nat
  BY LengthsType
<1>3. 1..n = 1..Len(d.orders) \cup {n}
  BY <1>2
<1> HIDE DEF t
<1>4. PaymentsMatchOrders(t) /\ OnePaymentPerOrder(t) /\ PaidHasPayment(t)
  <2>1. PaymentsMatchOrders(t)
    BY <1>0, <1>3 DEF LedgerInv, PaymentsMatchOrders
  <2>2. OnePaymentPerOrder(t)
    BY <1>0 DEF LedgerInv, OnePaymentPerOrder
  <2>3. PaidHasPayment(t)
    BY <1>0, <1>1, <1>3 DEF LedgerInv, PaidHasPayment
  <2> QED BY <2>1, <2>2, <2>3
<1>5. DeliveriesMatchOrders(t) /\ OneDeliveryPerOrder(t)
  <2>1. ASSUME NEW i \in 1..Len(t.deliveries)
        PROVE  /\ HasStatus(t, t.deliveries[i].order, "delivered")
               /\ t.orders[t.deliveries[i].order] = d.orders[d.deliveries[i].order]
    BY <1>0, <1>3 DEF LedgerInv, DeliveriesMatchOrders, HasStatus
  <2>3. DeliveriesMatchOrders(t)
    BY <1>0, <2>1 DEF LedgerInv, DeliveriesMatchOrders
  <2>2. OneDeliveryPerOrder(t)
    BY <1>0 DEF LedgerInv, OneDeliveryPerOrder
  <2> QED BY <2>2, <2>3
<1>6. DeliveredHasDelivery(t) /\ DeliveredIsDated(t)
  BY <1>0, <1>1, <1>3 DEF LedgerInv, DeliveredHasDelivery, DeliveredIsDated
<1>7. NoKeySoldTwice(t) /\ NoKeyWasted(t) /\ OldestKeyGoesFirst(t)
  BY <1>0 DEF LedgerInv, NoKeySoldTwice, NoKeyWasted, OldestKeyGoesFirst
<1> QED BY <1>4, <1>5, <1>6, <1>7 DEF LedgerInv, t

\* A pending order is paid: the payments row is its first and only one.
LEMMA PayingKeepsTheLedger ==
    ASSUME NEW d \in Tables, LedgerInv(d),
           NEW o, HasStatus(d, o, "pending_payment"), NEW e \in PaymentId
    PROVE  LedgerInv(Paid(d, o, e))
<1> DEFINE t == Paid(d, o, e)
           n == Len(d.payments) + 1
<1>1. o \in 1..Len(d.orders) /\ d.orders[o].status = "pending_payment"
  BY DEF HasStatus
<1>2. /\ Len(t.orders) = Len(d.orders)
      /\ t.orders[o].status = "paid" /\ t.orders[o].payment_id = e
      /\ t.orders[o].delivered_at = d.orders[o].delivered_at
      /\ SameTerms(t.orders[o], d.orders[o])
      /\ \A q \in 1..Len(d.orders) : q # o => t.orders[q] = d.orders[q]
      /\ Len(t.payments) = n
      /\ t.payments[n].order = o
      /\ t.payments[n].amount = d.orders[o].amount
      /\ t.payments[n].external_id = e
      /\ \A i \in 1..Len(d.payments) : t.payments[i] = d.payments[i]
      /\ t.deliveries = d.deliveries /\ t.keys = d.keys
  BY <1>1, PaidFacts
<1>3. 1..n = 1..Len(d.payments) \cup {n} /\ n \notin 1..Len(d.payments)
  BY LengthsType
<1> HIDE DEF t, n
<1>4. \A i \in 1..Len(d.payments) : d.payments[i].order # o
  BY <1>1 DEF LedgerInv, PaymentsMatchOrders
<1>5. \A i \in 1..Len(d.deliveries) : d.deliveries[i].order # o
  BY <1>1 DEF LedgerInv, DeliveriesMatchOrders, HasStatus
<1>6. PaymentsMatchOrders(t)
  <2>1. ASSUME NEW i \in 1..Len(d.payments)
        PROVE  LET q == d.payments[i].order IN
               /\ q \in 1..Len(t.orders)
               /\ t.orders[q].status \in {"paid", "delivered"}
               /\ t.orders[q].amount = d.payments[i].amount
               /\ t.orders[q].payment_id = d.payments[i].external_id
    BY <1>2, <1>4 DEF LedgerInv, PaymentsMatchOrders
  <2>2. /\ t.payments[n].order \in 1..Len(t.orders)
        /\ t.orders[o].amount = t.payments[n].amount
    BY <1>1, <1>2 DEF SameTerms
  <2> QED BY <1>2, <1>3, <2>1, <2>2 DEF PaymentsMatchOrders
<1>7. OnePaymentPerOrder(t)
  BY <1>2, <1>3, <1>4 DEF LedgerInv, OnePaymentPerOrder
<1>8. PaidHasPayment(t)
  BY <1>2, <1>3 DEF LedgerInv, PaidHasPayment
<1>9. DeliveriesMatchOrders(t) /\ OneDeliveryPerOrder(t)
  <2>1. ASSUME NEW i \in 1..Len(d.deliveries)
        PROVE  /\ d.deliveries[i].order \in 1..Len(d.orders)
               /\ t.orders[d.deliveries[i].order] = d.orders[d.deliveries[i].order]
    BY <1>2, <1>5 DEF LedgerInv, DeliveriesMatchOrders, HasStatus
  <2>2. DeliveriesMatchOrders(t)
    BY <1>2, <2>1 DEF LedgerInv, DeliveriesMatchOrders, HasStatus
  <2>3. OneDeliveryPerOrder(t)
    BY <1>2 DEF LedgerInv, OneDeliveryPerOrder
  <2> QED BY <2>2, <2>3
<1>10. DeliveredHasDelivery(t) /\ DeliveredIsDated(t)
  BY <1>1, <1>2 DEF LedgerInv, DeliveredHasDelivery, DeliveredIsDated
<1>11. NoKeySoldTwice(t) /\ NoKeyWasted(t) /\ OldestKeyGoesFirst(t)
  BY <1>2 DEF LedgerInv, NoKeySoldTwice, NoKeyWasted, OldestKeyGoesFirst
<1> QED BY <1>6, <1>7, <1>8, <1>9, <1>10, <1>11 DEF LedgerInv, t

\* A paid order is delivered the oldest free key of its product: no delivery
\* named the order or the key before, and no free key of the product is older.
LEMMA DeliveringKeepsTheLedger ==
    ASSUME NEW d \in Tables, LedgerInv(d),
           NEW o, HasStatus(d, o, "paid"),
           NEW k, IsOldest(k, FreeKeys(d, d.orders[o].product))
    PROVE  LedgerInv(Handed(d, o, k))
<1> DEFINE t == Handed(d, o, k)
           n == Len(d.deliveries) + 1
<1>1. o \in 1..Len(d.orders) /\ d.orders[o].status = "paid"
  BY DEF HasStatus
<1>0. k \in 1..Len(d.keys)
  BY DEF IsOldest, FreeKeys
<1>2. /\ k \in 1..Len(d.keys)
      /\ d.keys[k].product = d.orders[o].product
      /\ d.keys[k].used_by = NULL
      /\ \A j \in FreeKeys(d, d.orders[o].product) : k <= j
  BY DEF IsOldest, FreeKeys
<1>3. /\ Len(t.orders) = Len(d.orders)
      /\ t.orders[o].status = "delivered"
      /\ t.orders[o].delivered_at = TRUE
      /\ t.orders[o].payment_id = d.orders[o].payment_id
      /\ SameTerms(t.orders[o], d.orders[o])
      /\ \A q \in 1..Len(d.orders) : q # o => t.orders[q] = d.orders[q]
      /\ t.payments = d.payments
  BY <1>0, <1>1, HandedOrders
<1>4. /\ Len(t.deliveries) = n
      /\ t.deliveries[n].order = o
      /\ t.deliveries[n].payload = k
      /\ \A i \in 1..Len(d.deliveries) : t.deliveries[i] = d.deliveries[i]
  BY <1>0, <1>1, HandedKeys
<1>5. /\ Len(t.keys) = Len(d.keys)
      /\ t.keys[k].used_by = d.orders[o].user
      /\ t.keys[k].product = d.keys[k].product
      /\ \A q \in 1..Len(d.keys) : q # k => t.keys[q] = d.keys[q]
  BY <1>0, <1>1, HandedKeys
<1>6. d.orders[o].user # NULL
  BY <1>1, OrderRowType, NullAssumption DEF OrderRow
<1>7. 1..n = 1..Len(d.deliveries) \cup {n} /\ n \notin 1..Len(d.deliveries)
  BY LengthsType
<1> HIDE DEF t, n
<1>8. \A i \in 1..Len(d.deliveries) :
        /\ d.deliveries[i].order # o
        /\ d.deliveries[i].payload # k
  <2> SUFFICES ASSUME NEW i \in 1..Len(d.deliveries)
               PROVE  d.deliveries[i].order # o /\ d.deliveries[i].payload # k
    OBVIOUS
  <2>1. /\ d.deliveries[i].order \in 1..Len(d.orders)
        /\ d.orders[d.deliveries[i].order].status = "delivered"
        /\ d.keys[d.deliveries[i].payload].used_by = d.orders[d.deliveries[i].order].user
    BY DEF LedgerInv, DeliveriesMatchOrders, HasStatus
  <2>2. d.orders[d.deliveries[i].order].user # NULL
    BY <2>1, OrderRowType, NullAssumption DEF OrderRow
  <2> QED BY <1>1, <1>2, <2>1, <2>2
<1>9. PaymentsMatchOrders(t) /\ OnePaymentPerOrder(t) /\ PaidHasPayment(t)
  <2>1. ASSUME NEW i \in 1..Len(t.payments)
        PROVE  LET q == t.payments[i].order IN
               /\ q \in 1..Len(t.orders)
               /\ t.orders[q].status \in {"paid", "delivered"}
               /\ t.orders[q].amount = t.payments[i].amount
               /\ t.orders[q].payment_id = t.payments[i].external_id
    <3> DEFINE q == t.payments[i].order
    <3>1. /\ q \in 1..Len(d.orders)
          /\ d.orders[q].status \in {"paid", "delivered"}
          /\ d.orders[q].amount = t.payments[i].amount
          /\ d.orders[q].payment_id = t.payments[i].external_id
      BY <1>3 DEF LedgerInv, PaymentsMatchOrders
    <3> QED BY <1>3, <3>1 DEF SameTerms
  <2>2. PaymentsMatchOrders(t)
    BY <2>1 DEF PaymentsMatchOrders
  <2>3. OnePaymentPerOrder(t) /\ PaidHasPayment(t)
    BY <1>1, <1>3 DEF LedgerInv, OnePaymentPerOrder, PaidHasPayment
  <2> QED BY <2>2, <2>3
<1>10. DeliveriesMatchOrders(t)
  <2>1. ASSUME NEW i \in 1..Len(d.deliveries)
        PROVE  /\ HasStatus(t, d.deliveries[i].order, "delivered")
               /\ d.deliveries[i].payload \in 1..Len(t.keys)
               /\ t.orders[d.deliveries[i].order] = d.orders[d.deliveries[i].order]
               /\ t.keys[d.deliveries[i].payload] = d.keys[d.deliveries[i].payload]
    BY <1>3, <1>5, <1>8 DEF LedgerInv, DeliveriesMatchOrders, HasStatus
  <2>2. /\ HasStatus(t, t.deliveries[n].order, "delivered")
        /\ t.deliveries[n].payload \in 1..Len(t.keys)
        /\ t.keys[k].product = t.orders[o].product
        /\ t.keys[k].used_by = t.orders[o].user
    BY <1>1, <1>2, <1>3, <1>4, <1>5 DEF HasStatus, SameTerms
  <2>3. ASSUME NEW i \in 1..Len(d.deliveries)
        PROVE  LET q == t.deliveries[i].order
                   j == t.deliveries[i].payload IN
               /\ HasStatus(t, q, "delivered")
               /\ j \in 1..Len(t.keys)
               /\ t.keys[j].product = t.orders[q].product
               /\ t.keys[j].used_by = t.orders[q].user
    BY <1>4, <2>1 DEF LedgerInv, DeliveriesMatchOrders
  <2> QED BY <1>4, <1>7, <2>2, <2>3 DEF DeliveriesMatchOrders
<1>11. OneDeliveryPerOrder(t) /\ NoKeySoldTwice(t)
  <2>1. OneDeliveryPerOrder(t)
    BY <1>4, <1>7, <1>8 DEF LedgerInv, OneDeliveryPerOrder
  <2>2. NoKeySoldTwice(t)
    BY <1>4, <1>7, <1>8 DEF LedgerInv, NoKeySoldTwice
  <2> QED BY <2>1, <2>2
<1>12. DeliveredHasDelivery(t)
  <2> SUFFICES ASSUME NEW q \in 1..Len(t.orders), t.orders[q].status = "delivered"
               PROVE  \E i \in 1..Len(t.deliveries) : t.deliveries[i].order = q
    BY DEF DeliveredHasDelivery
  <2>1. CASE q = o
    BY <1>4, <1>7, <2>1
  <2>2. CASE q # o
    BY <1>3, <1>4, <1>7, <2>2 DEF LedgerInv, DeliveredHasDelivery
  <2> QED BY <2>1, <2>2
<1>13. DeliveredIsDated(t)
  BY <1>1, <1>3 DEF LedgerInv, DeliveredIsDated
<1>14. NoKeyWasted(t)
  <2> SUFFICES ASSUME NEW j \in 1..Len(t.keys), t.keys[j].used_by # NULL
               PROVE  \E i \in 1..Len(t.deliveries) : t.deliveries[i].payload = j
    BY DEF NoKeyWasted
  <2>1. CASE j = k
    BY <1>4, <1>7, <2>1
  <2>2. CASE j # k
    BY <1>4, <1>5, <1>7, <2>2 DEF LedgerInv, NoKeyWasted
  <2> QED BY <2>1, <2>2
<1>15. OldestKeyGoesFirst(t)
  <2> SUFFICES ASSUME NEW i \in 1..Len(t.keys), NEW j \in 1..Len(t.keys), i < j,
                      t.keys[i].product = t.keys[j].product,
                      t.keys[j].used_by # NULL
               PROVE  t.keys[i].used_by # NULL
    BY DEF OldestKeyGoesFirst
  <2>1. CASE i = k
    BY <1>5, <1>6, <2>1
  <2>2. CASE i # k /\ j # k
    BY <1>5, <2>2 DEF LedgerInv, OldestKeyGoesFirst
  <2>3. CASE i # k /\ j = k
    <3>1. i \in 1..Len(d.keys) /\ d.keys[i].product = d.orders[o].product
      BY <1>2, <1>5, <2>3
    <3>2. i \notin FreeKeys(d, d.orders[o].product)
      BY <1>2, <1>5, <2>3, LengthsType
    <3> QED BY <1>5, <2>3, <3>1, <3>2 DEF FreeKeys
  <2> QED BY <2>1, <2>2, <2>3
<1> QED BY <1>9, <1>10, <1>11, <1>12, <1>13, <1>14, <1>15 DEF LedgerInv, t

\* Taking the delivered mark back leaves the tables as they were before it.
LEMMA SetBackUndoes ==
    ASSUME NEW d \in Tables, LedgerInv(d), NEW o, HasStatus(d, o, "paid")
    PROVE  SetBackToPaid(SetDelivered(d, o), o) = d
<1> DEFINE s == SetDelivered(d, o)
           t == SetBackToPaid(s, o)
<1>1. o \in 1..Len(d.orders) /\ d.orders[o].status = "paid"
  BY DEF HasStatus
<1>2. d.orders[o].delivered_at = FALSE
  <2>1. d.orders[o].delivered_at \in BOOLEAN
    BY <1>1, OrderRowType DEF OrderRow
  <2>2. ~ d.orders[o].delivered_at
    BY <1>1 DEF LedgerInv, DeliveredIsDated
  <2> QED BY <2>1, <2>2
<1>3. /\ s \in Tables
      /\ Len(s.orders) = Len(d.orders)
      /\ s.orders[o].payment_id = d.orders[o].payment_id
      /\ SameTerms(s.orders[o], d.orders[o])
      /\ \A q \in 1..Len(d.orders) : q # o => s.orders[q] = d.orders[q]
      /\ s.payments = d.payments /\ s.deliveries = d.deliveries /\ s.keys = d.keys
  BY <1>1, SetDeliveredFacts
<1> HIDE DEF s
<1>4. o \in 1..Len(s.orders)
  BY <1>1, <1>3
<1>5. /\ t \in Tables
      /\ Len(t.orders) = Len(s.orders)
      /\ t.orders[o].status = "paid"
      /\ t.orders[o].payment_id = s.orders[o].payment_id
      /\ t.orders[o].delivered_at = FALSE
      /\ SameTerms(t.orders[o], s.orders[o])
      /\ \A q \in 1..Len(s.orders) : q # o => t.orders[q] = s.orders[q]
      /\ t.payments = s.payments /\ t.deliveries = s.deliveries /\ t.keys = s.keys
  BY <1>3, <1>4, SetBackToPaidFacts
<1> HIDE DEF t
<1>6. t.orders[o] = d.orders[o]
  <2>1. t.orders[o] \in OrderRow /\ d.orders[o] \in OrderRow
    BY <1>1, <1>3, <1>5, OrderRowType
  <2>2. /\ t.orders[o].user = d.orders[o].user
        /\ t.orders[o].product = d.orders[o].product
        /\ t.orders[o].amount = d.orders[o].amount
        /\ t.orders[o].status = d.orders[o].status
        /\ t.orders[o].payment_id = d.orders[o].payment_id
        /\ t.orders[o].delivered_at = d.orders[o].delivered_at
    BY <1>1, <1>2, <1>3, <1>5 DEF SameTerms
  <2> QED BY <2>1, <2>2 DEF OrderRow
<1>7. t.orders = d.orders
  <2>1. t.orders \in Seq(OrderRow) /\ d.orders \in Seq(OrderRow)
    BY <1>5 DEF Tables
  <2>2. Len(t.orders) = Len(d.orders)
    BY <1>3, <1>5
  <2>3. \A q \in 1..Len(t.orders) : t.orders[q] = d.orders[q]
    BY <1>3, <1>5, <1>6
  <2> QED BY <2>1, <2>2, <2>3, SeqEqual
<1>8. t.payments = d.payments /\ t.deliveries = d.deliveries /\ t.keys = d.keys
  BY <1>3, <1>5
<1> QED BY <1>5, <1>7, <1>8 DEF Tables, t, s

\* An operator stocks a key: it is free, so it touches no order and no delivery.
LEMMA RestockingKeepsTheLedger ==
    ASSUME NEW d \in Tables, LedgerInv(d), NEW p \in Product
    PROVE  LedgerInv(InsertKey(d, p))
<1> DEFINE t == InsertKey(d, p)
           n == Len(d.keys) + 1
<1>1. /\ Len(t.keys) = n
      /\ t.keys[n].used_by = NULL
      /\ \A k \in 1..Len(d.keys) : t.keys[k] = d.keys[k]
      /\ t.orders = d.orders /\ t.payments = d.payments /\ t.deliveries = d.deliveries
  BY InsertKeyFacts
<1>2. /\ 1..n = 1..Len(d.keys) \cup {n} /\ n \notin 1..Len(d.keys)
      /\ \A j \in 1..n : ~ n < j
  BY LengthsType
<1> HIDE DEF t, n
<1>3. PaymentsMatchOrders(t) /\ OnePaymentPerOrder(t) /\ PaidHasPayment(t)
  BY <1>1 DEF LedgerInv, PaymentsMatchOrders, OnePaymentPerOrder, PaidHasPayment
<1>4. DeliveriesMatchOrders(t)
  BY <1>1, <1>2 DEF LedgerInv, DeliveriesMatchOrders, HasStatus
<1>5. OneDeliveryPerOrder(t) /\ DeliveredHasDelivery(t) /\ DeliveredIsDated(t)
  BY <1>1 DEF LedgerInv, OneDeliveryPerOrder, DeliveredHasDelivery, DeliveredIsDated
<1>6. NoKeySoldTwice(t) /\ NoKeyWasted(t)
  BY <1>1, <1>2 DEF LedgerInv, NoKeySoldTwice, NoKeyWasted
<1>7. OldestKeyGoesFirst(t)
  BY <1>1, <1>2 DEF LedgerInv, OldestKeyGoesFirst
<1> QED BY <1>3, <1>4, <1>5, <1>6, <1>7 DEF LedgerInv, t

\* A pending order is called off: it has neither payment nor delivery.
LEMMA CallingOffKeepsTheLedger ==
    ASSUME NEW d \in Tables, LedgerInv(d), NEW o, HasStatus(d, o, "pending_payment")
    PROVE  SetCancelled(d, o) \in Tables /\ LedgerInv(SetCancelled(d, o))
<1> DEFINE t == SetCancelled(d, o)
<1>1. o \in 1..Len(d.orders) /\ d.orders[o].status = "pending_payment"
  BY DEF HasStatus
<1>2. /\ t \in Tables
      /\ Len(t.orders) = Len(d.orders)
      /\ t.orders[o].status = "cancelled"
      /\ t.orders[o].delivered_at = d.orders[o].delivered_at
      /\ \A q \in 1..Len(d.orders) : q # o => t.orders[q] = d.orders[q]
      /\ t.payments = d.payments /\ t.deliveries = d.deliveries /\ t.keys = d.keys
  BY <1>1, SetCancelledFacts
<1> HIDE DEF t
<1>3. \A i \in 1..Len(d.payments) : d.payments[i].order # o
  BY <1>1 DEF LedgerInv, PaymentsMatchOrders
<1>4. \A i \in 1..Len(d.deliveries) : d.deliveries[i].order # o
  BY <1>1 DEF LedgerInv, DeliveriesMatchOrders, HasStatus
<1>5. PaymentsMatchOrders(t)
  BY <1>2, <1>3 DEF LedgerInv, PaymentsMatchOrders
<1>6. OnePaymentPerOrder(t) /\ PaidHasPayment(t)
  BY <1>1, <1>2 DEF LedgerInv, OnePaymentPerOrder, PaidHasPayment
<1>7. DeliveriesMatchOrders(t)
  BY <1>2, <1>4 DEF LedgerInv, DeliveriesMatchOrders, HasStatus
<1>8. OneDeliveryPerOrder(t) /\ DeliveredHasDelivery(t) /\ DeliveredIsDated(t)
  BY <1>1, <1>2 DEF LedgerInv, OneDeliveryPerOrder, DeliveredHasDelivery, DeliveredIsDated
<1>9. NoKeySoldTwice(t) /\ NoKeyWasted(t) /\ OldestKeyGoesFirst(t)
  BY <1>2 DEF LedgerInv, NoKeySoldTwice, NoKeyWasted, OldestKeyGoesFirst
<1> QED BY <1>2, <1>5, <1>6, <1>7, <1>8, <1>9 DEF LedgerInv, t
=============================================================================
