-------------------------- MODULE Checkout_proofs ---------------------------
(***************************************************************************)
(* Proofs about Checkout, for any number of users, products, tasks and     *)
(* taps.  First what the sum of a sequence is when the sequence changes;   *)
(* then the answer of a checkout, however many taps are in flight; then    *)
(* cart and orders, for users who wait for each answer.                    *)
(***************************************************************************)
EXTENDS Checkout, TLAPS, WellFoundedInduction, SequenceTheorems, FiniteSetTheorems

-----------------------------------------------------------------------------
(* Sums.                                                                   *)

\* Induction, for a set rather than a formula.
LEMMA EveryNatural ==
    ASSUME NEW S \in SUBSET Nat, 0 \in S, \A n \in S : n + 1 \in S
    PROVE  S = Nat
  <1> DEFINE T == Nat \ S
  <1> SUFFICES ASSUME T # {} PROVE FALSE
    OBVIOUS
  <1>1. PICK x \in T : \A y \in T : ~ (<<y, x>> \in OpToRel(<, Nat))
    BY NatLessThanWellFounded, WFMin
  <1>2. x \in Nat /\ x # 0
    OBVIOUS
  <1>3. x - 1 \in Nat /\ x - 1 < x
    BY <1>2
  <1>4. <<x - 1, x>> \in OpToRel(<, Nat)
    BY <1>2, <1>3 DEF OpToRel
  <1>5. x - 1 \in S
    BY <1>1, <1>3, <1>4
  <1>6. (x - 1) + 1 = x
    BY <1>2
  <1> QED
    BY <1>5, <1>6

\* f adds up the first elements of s.
AddsUp(f, s) ==
    /\ f \in [0..Len(s) -> Nat]
    /\ f[0] = 0
    /\ \A n \in 1..Len(s) : f[n] = f[n - 1] + s[n]

LEMMA SumsExist ==
    ASSUME NEW s \in Seq(Nat)
    PROVE  \E f : AddsUp(f, s)
  <1> DEFINE Up(f, m) == /\ f \in [0..m -> Nat]
                         /\ f[0] = 0
                         /\ \A n \in 1..m : f[n] = f[n - 1] + s[n]
             S == {m \in Nat : m <= Len(s) => \E f : Up(f, m)}
  <1>1. 0 \in S
    <2> DEFINE z == [n \in 0..0 |-> 0]
    <2>1. z \in [0..0 -> Nat] /\ z[0] = 0
      OBVIOUS
    <2>2. 1..0 = {}
      OBVIOUS
    <2>3. Up(z, 0)
      BY <2>1, <2>2
    <2> QED
      BY <2>3
  <1>2. ASSUME NEW m \in S PROVE m + 1 \in S
    <2> SUFFICES ASSUME m + 1 <= Len(s) PROVE \E f : Up(f, m + 1)
      <3>1. m + 1 \in Nat
        OBVIOUS
      <3> HIDE DEF Up
      <3> QED
        BY <3>1
    <2>1. m \in Nat /\ Len(s) \in Nat /\ m <= Len(s)
      <3>1. m \in Nat
        OBVIOUS
      <3> HIDE DEF S
      <3> QED
        BY <3>1
    <2>2. PICK f : Up(f, m)
      BY <2>1
    <2>3. s[m + 1] \in Nat
      BY <2>1
    <2> DEFINE g == [n \in 0..m + 1 |-> IF n = m + 1 THEN f[m] + s[m + 1] ELSE f[n]]
    <2>4. g \in [0..m + 1 -> Nat] /\ g[0] = 0
      BY <2>1, <2>2, <2>3
    <2>5. ASSUME NEW n \in 1..m + 1 PROVE g[n] = g[n - 1] + s[n]
      <3>1. CASE n = m + 1
        BY <3>1, <2>1
      <3>2. CASE n # m + 1
        <4>1. n \in 1..m /\ n - 1 \in 0..m + 1 /\ n - 1 # m + 1
          BY <3>2, <2>1
        <4> QED
          BY <4>1, <2>1, <2>2
      <3> QED
        BY <3>1, <3>2
    <2>6. Up(g, m + 1)
      BY <2>4, <2>5
    <2> QED
      BY <2>6
  <1>3. S = Nat
    <2> HIDE DEF S
    <2>1. S \in SUBSET Nat
      BY DEF S
    <2> QED
      BY <1>1, <1>2, <2>1, EveryNatural
  <1>4. \E f : Up(f, Len(s))
    <2>1. Len(s) \in S
      <3> HIDE DEF S
      <3> QED
        BY <1>3
    <2> QED
      BY <2>1
  <1> QED
    BY <1>4 DEF AddsUp

\* Only one function does.
LEMMA SumsAreUnique ==
    ASSUME NEW s \in Seq(Nat), NEW f, NEW g, AddsUp(f, s),
           g[0] = 0, \A n \in 1..Len(s) : g[n] = g[n - 1] + s[n]
    PROVE  \A n \in 0..Len(s) : g[n] = f[n]
  <1> DEFINE S == {m \in Nat : m <= Len(s) => g[m] = f[m]}
  <1>1. 0 \in S
    BY DEF AddsUp
  <1>2. ASSUME NEW m \in S PROVE m + 1 \in S
    <2> SUFFICES ASSUME m + 1 <= Len(s) PROVE g[m + 1] = f[m + 1]
      OBVIOUS
    <2>1. g[m] = f[m] /\ m + 1 \in 1..Len(s) /\ (m + 1) - 1 = m
      OBVIOUS
    <2> QED
      BY <2>1 DEF AddsUp
  <1>3. S = Nat
    <2> HIDE DEF S
    <2>1. S \in SUBSET Nat
      BY DEF S
    <2> QED
      BY <1>1, <1>2, <2>1, EveryNatural
  <1> QED
    BY <1>3

LEMMA SumIs ==
    ASSUME NEW s \in Seq(Nat), NEW f, AddsUp(f, s)
    PROVE  SumOf(s) = f[Len(s)]
  <1> DEFINE Body(g) == [n \in 0..Len(s) |-> IF n = 0 THEN 0 ELSE g[n - 1] + s[n]]
             upTo == CHOOSE g : g = Body(g)
  <1>1. f = Body(f)
    BY DEF AddsUp
  <1>2. upTo = Body(upTo)
    <2>1. \E g : g = Body(g)
      BY <1>1
    <2> HIDE DEF Body
    <2> QED
      BY <2>1
  <1>3. SumOf(s) = upTo[Len(s)]
    BY DEF SumOf
  <1> HIDE DEF upTo
  <1>4. upTo[0] = 0 /\ \A n \in 1..Len(s) : upTo[n] = upTo[n - 1] + s[n]
    BY <1>2
  <1>5. \A n \in 0..Len(s) : upTo[n] = f[n]
    BY <1>4, SumsAreUnique
  <1> QED
    BY <1>3, <1>5

LEMMA SumType ==
    ASSUME NEW s \in Seq(Nat)
    PROVE  SumOf(s) \in Nat
  <1>1. PICK f : AddsUp(f, s)
    BY SumsExist
  <1> QED
    BY <1>1, SumIs DEF AddsUp

LEMMA SumOfZeros ==
    ASSUME NEW s \in Seq(Nat), \A i \in 1..Len(s) : s[i] = 0
    PROVE  SumOf(s) = 0
  <1> DEFINE f == [n \in 0..Len(s) |-> 0]
  <1>1. AddsUp(f, s)
    BY DEF AddsUp
  <1> QED
    BY <1>1, SumIs

\* A sum grows by what is appended.
LEMMA SumOfAppend ==
    ASSUME NEW s \in Seq(Nat), NEW x \in Nat
    PROVE  SumOf(Append(s, x)) = SumOf(s) + x
  <1>1. PICK f : AddsUp(f, s)
    BY SumsExist
  <1> DEFINE m == Len(s)
             g == [n \in 0..m + 1 |-> IF n = m + 1 THEN f[m] + x ELSE f[n]]
  <1>2. PICK r : r = Append(s, x)
    OBVIOUS
  <1>3. /\ r \in Seq(Nat) /\ m \in Nat /\ Len(r) = m + 1
        /\ r[m + 1] = x
        /\ \A n \in 1..m : r[n] = s[n]
    BY <1>2
  <1>4. /\ f \in [0..m -> Nat] /\ f[0] = 0
        /\ \A n \in 1..m : f[n] = f[n - 1] + s[n]
    BY <1>1 DEF AddsUp
  <1> HIDE DEF m
  <1>5. g \in [0..m + 1 -> Nat] /\ g[0] = 0
    BY <1>3, <1>4
  <1>6. ASSUME NEW n \in 1..m + 1 PROVE g[n] = g[n - 1] + r[n]
    <2>1. CASE n = m + 1
      BY <2>1, <1>3, <1>4
    <2>2. CASE n # m + 1
      <3>1. n \in 1..m /\ n - 1 \in 0..m + 1 /\ n - 1 # m + 1
        BY <2>2, <1>3
      <3> QED
        BY <3>1, <1>3, <1>4
    <2> QED
      BY <2>1, <2>2
  <1>7. AddsUp(g, r)
    BY <1>3, <1>5, <1>6 DEF AddsUp
  <1>8. SumOf(r) = g[m + 1] /\ SumOf(s) = f[m]
    BY <1>1, <1>3, <1>7, SumIs DEF m
  <1> QED
    BY <1>2, <1>3, <1>8

\* A sum changes by as much as an element of it.
LEMMA SumOfChange ==
    ASSUME NEW s \in Seq(Nat), NEW r \in Seq(Nat), Len(r) = Len(s),
           NEW i \in 1..Len(s), \A n \in 1..Len(s) : n # i => r[n] = s[n]
    PROVE  SumOf(r) + s[i] = SumOf(s) + r[i]
  <1>1. PICK f : AddsUp(f, s)
    BY SumsExist
  <1>2. PICK g : AddsUp(g, r)
    BY SumsExist
  <1> DEFINE S == {m \in Nat : m <= Len(s) =>
                                  IF m < i THEN g[m] = f[m] ELSE g[m] + s[i] = f[m] + r[i]}
  <1>3. 0 \in S
    BY <1>1, <1>2 DEF AddsUp
  <1>4. ASSUME NEW m \in S PROVE m + 1 \in S
    <2> SUFFICES ASSUME m + 1 <= Len(s)
                 PROVE  IF m + 1 < i THEN g[m + 1] = f[m + 1]
                                     ELSE g[m + 1] + s[i] = f[m + 1] + r[i]
      OBVIOUS
    <2>1. IF m < i THEN g[m] = f[m] ELSE g[m] + s[i] = f[m] + r[i]
      OBVIOUS
    <2>2. m + 1 \in 1..Len(s) /\ m \in 0..Len(s) /\ (m + 1) - 1 = m /\ i \in Nat
      OBVIOUS
    <2> HIDE DEF S
    <2>3. f[m + 1] = f[m] + s[m + 1] /\ g[m + 1] = g[m] + r[m + 1]
      BY <1>1, <1>2, <2>2 DEF AddsUp
    <2>4. f[m] \in Nat /\ g[m] \in Nat
      BY <1>1, <1>2, <2>2 DEF AddsUp
    <2>5. s[m + 1] \in Nat /\ r[m + 1] \in Nat /\ s[i] \in Nat /\ r[i] \in Nat
      BY <2>2
    <2>6. m + 1 # i => r[m + 1] = s[m + 1]
      BY <2>2
    <2>7. CASE m + 1 < i
      BY <2>1, <2>2, <2>3, <2>4, <2>5, <2>6, <2>7
    <2>8. CASE m + 1 = i
      <3>1. g[m] = f[m] /\ s[m + 1] = s[i] /\ r[m + 1] = r[i]
        BY <2>1, <2>2, <2>8
      <3>2. g[m + 1] + s[i] = f[m + 1] + r[i]
        BY <3>1, <2>3, <2>4, <2>5
      <3> QED
        BY <3>2, <2>2, <2>8
    <2>9. CASE m + 1 > i
      <3>1. g[m] + s[i] = f[m] + r[i] /\ r[m + 1] = s[m + 1]
        BY <2>1, <2>2, <2>6, <2>9
      <3>2. g[m + 1] + s[i] = f[m + 1] + r[i]
        <4>1. PICK a \in Nat, b \in Nat, c \in Nat, d \in Nat, e \in Nat :
                 a = g[m] /\ b = f[m] /\ c = s[i] /\ d = r[i] /\ e = s[m + 1]
          BY <2>4, <2>5
        <4>2. a + c = b + d
          BY <3>1, <4>1
        <4>3. (a + e) + c = (b + e) + d
          BY <4>2
        <4> QED
          BY <3>1, <4>1, <4>3, <2>3
      <3> QED
        BY <3>2, <2>2, <2>9
    <2> QED
      BY <2>2, <2>7, <2>8, <2>9
  <1>5. S = Nat
    <2> HIDE DEF S
    <2>1. S \in SUBSET Nat
      BY DEF S
    <2> QED
      BY <1>3, <1>4, <2>1, EveryNatural
  <1>6. g[Len(s)] + s[i] = f[Len(s)] + r[i]
    <2>1. Len(s) \in S
      <3> HIDE DEF S
      <3> QED
        BY <1>5
    <2> QED
      BY <2>1
  <1>7. SumOf(s) = f[Len(s)] /\ SumOf(r) = g[Len(s)]
    BY <1>1, <1>2, SumIs
  <1> QED
    BY <1>6, <1>7

\* What is not 0 at one place only.
LEMMA SumOfOne ==
    ASSUME NEW s \in Seq(Nat), NEW i \in 1..Len(s),
           \A n \in 1..Len(s) : n # i => s[n] = 0
    PROVE  SumOf(s) = s[i]
  <1> DEFINE r == [n \in 1..Len(s) |-> 0]
  <1>1. r \in Seq(Nat) /\ Len(r) = Len(s) /\ \A n \in 1..Len(s) : r[n] = 0
    OBVIOUS
  <1> HIDE DEF r
  <1>2. SumOf(r) = 0
    BY <1>1, SumOfZeros
  <1>3. SumOf(s) + r[i] = SumOf(r) + s[i]
    BY <1>1, SumOfChange
  <1>4. SumOf(s) \in Nat /\ s[i] \in Nat
    BY SumType
  <1> QED
    BY <1>1, <1>2, <1>3, <1>4

-----------------------------------------------------------------------------
(* The inductive invariants.                                               *)

\* A task that has a button's product has one; buy_now goes on with a listed
\* one, and a checkout has the user's rows of listed products.
Tapped ==
    \A t \in Task :
        /\ pc[t] \in {"add_select", "add_update", "add_insert", "buy_lookup"} =>
              what[t] \in Product
        /\ pc[t] = "buy_insert" => what[t] \in Listed
        /\ \A i \in Positions(items[t]) :
              items[t][i].product \in Listed /\ items[t][i].user = who[t]

Amounts(t) == [i \in 1..Len(placed[t]) |-> orders[placed[t][i]].amount]

\* What a checkout has placed so far adds up, before it replies too.
PlacedAddsUp ==
    \A t \in Task :
        /\ pc[t] = "idle" => placed[t] = <<>>
        /\ \A i \in 1..Len(placed[t]) : orders[placed[t][i]].user = who[t]
        /\ IsInjective(placed[t])
        /\ total[t] = SumOf(Amounts(t))

ReplyInv == TypeOK /\ Tapped /\ PlacedAddsUp

\* Of a user who waits for each answer one tap at most is being handled.
OneTap == \A s, t \in Task : who[s] = who[t] /\ who[s] # NULL => s = t

\* So what add_to_cart's SELECT found is still so when it writes, ...
SelectStands(t) ==
    /\ pc[t] = "add_insert" => RowsOfProduct(who[t], what[t]) = {}
    /\ pc[t] = "add_update" => RowsOfProduct(who[t], what[t]) # {}

\* ... and the rows a checkout has yet to order are in the cart as it read them.
ReadStands(t) ==
    /\ pc[t] \in {"checkout_insert", "checkout_clear"} =>
          \A i \in Positions(items[t]) : i \in 1..Len(carts) /\ items[t][i] = carts[i]
    /\ pc[t] = "checkout_clear" => Positions(items[t]) = {}

RowsInv(u) ==
    /\ \A p \in Product : \A i, j \in RowsOfProduct(u, p) : i = j
    /\ \A t \in InFlight(u) : SelectStands(t) /\ ReadStands(t)

\* The units of p that t's checkout has yet to order.
RestIn(t, p) ==
    [i \in 1..Len(items[t]) |->
        IF i \in Positions(items[t]) /\ items[t][i].product = p THEN items[t][i].qty ELSE 0]
Rest(t, p) == SumOf(RestIn(t, p))

Due(u, p) == Price[p] * asked[u][p]

\* In the middle of a checkout what is ordered and what is yet to be ordered are
\* what is due; at any other time what is ordered and what is in the cart.
RestAddsUp(t, p) ==
    /\ Ordered(who[t], p) + Price[p] * Rest(t, p) >= Due(who[t], p)
    /\ hit[who[t]] = FALSE => Ordered(who[t], p) + Price[p] * Rest(t, p) = Due(who[t], p)

AtCheckout(t) == pc[t] \in {"checkout_insert", "checkout_clear"}

SumsInv(u) ==
    \A p \in Listed :
        /\ Worth(u, p) >= Due(u, p)
        /\ hit[u] = FALSE /\ ~ Ordering(u) => Worth(u, p) = Due(u, p)
        /\ \A t \in InFlight(u) : AtCheckout(t) => RestAddsUp(t, p)

CartInv ==
    /\ ReplyInv
    /\ OneTap
    /\ \A u \in User : RowsInv(u) /\ SumsInv(u)

-----------------------------------------------------------------------------
(* Steps: types, and what a checkout has placed.                           *)

OrdersKept ==
    /\ orders' \in Seq(Order)
    /\ Len(orders) <= Len(orders')
    /\ \A o \in 1..Len(orders) : orders'[o] = orders[o]

LEMMA SameOrders ==
    ASSUME TypeOK, UNCHANGED orders
    PROVE  OrdersKept
  BY DEF TypeOK, OrdersKept

LEMMA OneMoreOrder ==
    ASSUME TypeOK, NEW o \in Order, orders' = Append(orders, o)
    PROVE  /\ OrdersKept
           /\ Len(orders') = Len(orders) + 1
           /\ orders'[Len(orders) + 1] = o
  <1>1. orders \in Seq(Order)
    BY DEF TypeOK
  <1> QED
    BY <1>1 DEF OrdersKept

LEMMA TapIsAUsers ==
    ASSUME TypeOK, NEW t \in Task, pc[t] # "idle"
    PROVE  who[t] \in User
  BY DEF TypeOK

\* What an order a checkout placed says of itself does not change.
LEMMA PlacedKept ==
    ASSUME ReplyInv, OrdersKept, NEW t \in Task,
           placed'[t] = placed[t], total'[t] = total[t], who'[t] = who[t]
    PROVE  /\ placed'[t] \in Seq(1..Len(orders'))
           /\ \A i \in 1..Len(placed'[t]) : orders'[placed'[t][i]].user = who'[t]
           /\ IsInjective(placed'[t])
           /\ total'[t] = SumOf(Amounts(t)')
  <1>1. placed[t] \in Seq(1..Len(orders))
    BY DEF ReplyInv, TypeOK
  <1>2. Len(orders) \in Nat /\ Len(orders') \in Nat /\ Len(orders) <= Len(orders')
    BY DEF OrdersKept, ReplyInv, TypeOK
  <1>3. 1..Len(orders) \subseteq 1..Len(orders')
    BY <1>2
  <1>4. placed'[t] \in Seq(1..Len(orders'))
    BY <1>1, <1>3, SeqMonotonic
  <1>5. \A i \in 1..Len(placed[t]) : placed[t][i] \in 1..Len(orders)
    BY <1>1
  <1>6. \A i \in 1..Len(placed[t]) : orders'[placed[t][i]] = orders[placed[t][i]]
    BY <1>5 DEF OrdersKept
  <1>7. Amounts(t)' = Amounts(t)
    BY <1>6 DEF Amounts
  <1> QED
    BY <1>4, <1>6, <1>7 DEF ReplyInv, PlacedAddsUp

\* Nothing placed is nothing to add up.
LEMMA NothingPlaced ==
    ASSUME NEW t \in Task, placed'[t] = <<>>
    PROVE  /\ placed'[t] \in Seq(1..Len(orders'))
           /\ \A i \in 1..Len(placed'[t]) : orders'[placed'[t][i]].user = who'[t]
           /\ IsInjective(placed'[t])
           /\ SumOf(Amounts(t)') = 0
  <1>1. Len(placed'[t]) = 0 /\ 1..0 = {} /\ DOMAIN placed'[t] = {}
    OBVIOUS
  <1>2. Amounts(t)' = [i \in 1..0 |-> orders'[placed'[t][i]].amount]
    BY <1>1 DEF Amounts
  <1>3. Amounts(t)' = <<>>
    BY <1>1, <1>2
  <1>4. <<>> \in Seq(Nat) /\ \A i \in 1..Len(<<>>) : <<>>[i] = 0
    OBVIOUS
  <1>5. SumOf(<<>>) = 0
    BY <1>4, SumOfZeros
  <1> QED
    BY <1>1, <1>3, <1>5 DEF IsInjective

\* A handler that ends: whatever it did to the tables, its task forgets its tap.
LEMMA FinishKeepsReplies ==
    ASSUME ReplyInv, NEW t \in Task, Finish(t), OrdersKept,
           carts' \in Seq(CartRow \cup {NULL}),
           asked' \in [User -> [Product -> Nat]],
           hit' \in [User -> BOOLEAN]
    PROVE  ReplyInv'
  <1>1. ASSUME NEW s \in Task
        PROVE  /\ placed'[s] \in Seq(1..Len(orders'))
               /\ pc'[s] = "idle" => placed'[s] = <<>>
               /\ \A i \in 1..Len(placed'[s]) : orders'[placed'[s][i]].user = who'[s]
               /\ IsInjective(placed'[s])
               /\ total'[s] = SumOf(Amounts(s)')
    <2>1. CASE s = t
      <3>1. placed'[s] = <<>> /\ total'[s] = 0
        BY <2>1 DEF Finish, ReplyInv, TypeOK
      <3> QED
        BY <3>1, NothingPlaced
    <2>2. CASE s # t
      <3>1. /\ placed'[s] = placed[s] /\ total'[s] = total[s] /\ who'[s] = who[s]
            /\ pc'[s] = pc[s]
        BY <2>2 DEF Finish, ReplyInv, TypeOK
      <3> QED
        BY <3>1, PlacedKept DEF ReplyInv, PlacedAddsUp
    <2> QED
      BY <2>1, <2>2
  <1>2. placed' \in [Task -> Seq(1..Len(orders'))]
    BY <1>1 DEF Finish, ReplyInv, TypeOK
  <1>3. TypeOK'
    BY <1>2 DEF Finish, ReplyInv, TypeOK, OrdersKept, Label
  <1>4. Tapped'
    <2>1. Positions(<<>>) = {}
      BY DEF Positions
    <2> QED
      BY <2>1 DEF Finish, ReplyInv, TypeOK, Tapped
  <1>5. PlacedAddsUp'
    BY <1>1 DEF PlacedAddsUp
  <1> QED
    BY <1>3, <1>4, <1>5 DEF ReplyInv

\* A handler that goes on, with the orders as they are.
LEMMA MoveKeepsReplies ==
    ASSUME ReplyInv, NEW t \in Task, NEW label \in Label,
           label # "idle", pc[t] # "idle",
           pc' = [pc EXCEPT ![t] = label],
           carts' \in Seq(CartRow \cup {NULL}),
           items' \in [Task -> Seq(CartRow \cup {NULL})],
           UNCHANGED <<orders, who, what, placed, total, taps, asked, hit>>,
           Tapped'
    PROVE  ReplyInv'
  <1>1. OrdersKept
    BY SameOrders DEF ReplyInv
  <1>2. TypeOK'
    BY DEF ReplyInv, TypeOK
  <1>3. PlacedAddsUp'
    <2>1. ASSUME NEW s \in Task
          PROVE  /\ pc'[s] = "idle" => placed'[s] = <<>>
                 /\ \A i \in 1..Len(placed'[s]) : orders'[placed'[s][i]].user = who'[s]
                 /\ IsInjective(placed'[s])
                 /\ total'[s] = SumOf(Amounts(s)')
      <3>1. pc'[s] = "idle" => pc[s] = "idle"
        BY DEF ReplyInv, TypeOK
      <3> QED
        BY <1>1, <3>1, PlacedKept DEF ReplyInv, PlacedAddsUp
    <2> QED
      BY <2>1 DEF PlacedAddsUp
  <1> QED
    BY <1>2, <1>3 DEF ReplyInv

LEMMA TapKeepsReplies ==
    ASSUME ReplyInv, NEW t \in Task, NEW u \in User, NEW p \in Product \cup {NULL},
           NEW label \in {"add_select", "buy_lookup", "checkout_read"},
           label # "checkout_read" => p \in Product,
           Tap(t, u, p, label)
    PROVE  ReplyInv'
  <1>1. TypeOK'
    <2>1. taps + 1 \in 0..MaxTaps
      BY BoundAssumption DEF Tap, ReplyInv, TypeOK
    <2>2. u # NULL /\ label \in Label /\ label # "idle"
      BY NullAssumption DEF Label
    <2> QED
      BY <2>1, <2>2 DEF Tap, ReplyInv, TypeOK
  <1>2. items[t] # <<>> => Positions(items[t]) = {}
    <2>1. who[t] = NULL
      BY DEF Tap, ReplyInv, TypeOK
    <2>2. \A i \in Positions(items[t]) : items[t][i].user = NULL /\ items[t][i] \in CartRow
      BY <2>1 DEF ReplyInv, TypeOK, Tapped, Positions
    <2> QED
      BY <2>2, NullAssumption DEF CartRow
  <1>3. Tapped'
    <2>1. Positions(<<>>) = {}
      BY DEF Positions
    <2>2. Positions(items[t]) = {}
      BY <1>2, <2>1
    <2> QED
      BY <2>2 DEF Tap, ReplyInv, TypeOK, Tapped
  <1>4. OrdersKept
    BY SameOrders DEF Tap, ReplyInv
  <1>5. PlacedAddsUp'
    <2>1. ASSUME NEW s \in Task
          PROVE  /\ pc'[s] = "idle" => placed'[s] = <<>>
                 /\ \A i \in 1..Len(placed'[s]) : orders'[placed'[s][i]].user = who'[s]
                 /\ IsInjective(placed'[s])
                 /\ total'[s] = SumOf(Amounts(s)')
      <3>1. CASE s = t
        <4>1. placed'[s] = <<>> /\ total'[s] = total[s] /\ pc[s] = "idle"
          BY <3>1 DEF Tap, ReplyInv, PlacedAddsUp
        <4>2. Amounts(s)' = Amounts(s)
          BY <4>1 DEF Amounts, Tap
        <4> QED
          BY <4>1, <4>2, NothingPlaced DEF ReplyInv, PlacedAddsUp
      <3>2. CASE s # t
        <4>1. pc'[s] = pc[s] /\ who'[s] = who[s] /\ placed'[s] = placed[s] /\ total'[s] = total[s]
          BY <3>2 DEF Tap, ReplyInv, TypeOK
        <4> QED
          BY <1>4, <4>1, PlacedKept DEF ReplyInv, PlacedAddsUp
      <3> QED
        BY <3>1, <3>2
    <2> QED
      BY <2>1 DEF PlacedAddsUp
  <1> QED
    BY <1>1, <1>3, <1>5 DEF ReplyInv

\* One turn of checkout's loop: the order of one row.
LEMMA InsertFacts ==
    ASSUME ReplyInv, NEW t \in Task, NEW i \in Positions(items[t]), pc[t] = "checkout_insert"
    PROVE  /\ i \in 1..Len(items[t])
           /\ items[t][i] \in CartRow
           /\ items[t][i].product \in Listed
           /\ Price[items[t][i].product] \in Nat
           /\ items[t][i].qty \in Nat \ {0}
           /\ Price[items[t][i].product] * items[t][i].qty \in Nat
           /\ NewOrder(who[t], items[t][i].product,
                       Price[items[t][i].product] * items[t][i].qty) \in Order
  <1>1. i \in 1..Len(items[t]) /\ items[t][i] \in CartRow /\ items[t][i].product \in Listed
    BY DEF ReplyInv, TypeOK, Tapped, Positions
  <1>2. Price[items[t][i].product] \in Nat /\ items[t][i].qty \in Nat \ {0}
    BY <1>1, CatalogAssumption DEF CartRow
  <1>3. \A m, n \in Nat : m * n \in Nat
    OBVIOUS
  <1>4. Price[items[t][i].product] * items[t][i].qty \in Nat
    BY <1>2, <1>3
  <1>5. who[t] \in User
    BY TapIsAUsers DEF ReplyInv
  <1> QED
    BY <1>1, <1>2, <1>4, <1>5 DEF NewOrder, Order

LEMMA InsertKeepsReplies ==
    ASSUME ReplyInv, NEW t \in Task, CheckoutInsert(t)
    PROVE  ReplyInv'
  <1>1. PICK i \in Positions(items[t]) :
           LET item == items[t][i]
               amount == Price[item.product] * item.qty IN
           /\ pc[t] = "checkout_insert"
           /\ orders' = Append(orders, NewOrder(who[t], item.product, amount))
           /\ placed' = [placed EXCEPT ![t] = Append(@, Len(orders) + 1)]
           /\ total' = [total EXCEPT ![t] = @ + amount]
           /\ items' = [items EXCEPT ![t][i] = NULL]
           /\ pc' = [pc EXCEPT ![t] = IF Positions(items[t]) = {i} THEN "checkout_clear" ELSE @]
           /\ UNCHANGED <<carts, who, what, taps, asked, hit>>
    BY DEF CheckoutInsert
  <1>2. PICK a : a = Price[items[t][i].product] * items[t][i].qty
    OBVIOUS
  <1>3. PICK o : o = NewOrder(who[t], items[t][i].product, a)
    OBVIOUS
  <1>4. /\ pc[t] = "checkout_insert"
        /\ orders' = Append(orders, o)
        /\ placed' = [placed EXCEPT ![t] = Append(@, Len(orders) + 1)]
        /\ total' = [total EXCEPT ![t] = @ + a]
        /\ items' = [items EXCEPT ![t][i] = NULL]
        /\ UNCHANGED <<carts, who, what, taps, asked, hit>>
    BY <1>1, <1>2, <1>3
  <1>5. i \in 1..Len(items[t]) /\ a \in Nat /\ o \in Order /\ o.user = who[t] /\ o.amount = a
    BY <1>2, <1>3, <1>4, InsertFacts DEF NewOrder
  <1>6. OrdersKept /\ Len(orders') = Len(orders) + 1 /\ orders'[Len(orders) + 1] = o
    BY <1>4, <1>5, OneMoreOrder DEF ReplyInv
  <1>7. PICK k \in Nat : k = Len(orders)
    BY DEF ReplyInv, TypeOK
  <1>8. placed[t] \in Seq(1..k) /\ total[t] \in Nat
    BY <1>7 DEF ReplyInv, TypeOK
  <1>9. PICK m \in Nat : m = Len(placed[t])
    BY <1>8
  <1>10. /\ placed'[t] = Append(placed[t], k + 1)
         /\ total'[t] = total[t] + a
         /\ who'[t] = who[t]
         /\ Len(placed'[t]) = m + 1
         /\ placed'[t][m + 1] = k + 1
         /\ \A j \in 1..m : placed'[t][j] = placed[t][j] /\ placed[t][j] \in 1..k
    BY <1>4, <1>7, <1>8, <1>9 DEF ReplyInv, TypeOK
  <1>11. placed'[t] \in Seq(1..Len(orders'))
    <2>1. placed[t] \in Seq(1..(k + 1))
      BY <1>8, SeqMonotonic
    <2>2. k + 1 \in 1..(k + 1)
      OBVIOUS
    <2> QED
      BY <2>1, <2>2, <1>6, <1>7, <1>10
  <1>12. \A j \in 1..(m + 1) : orders'[placed'[t][j]].user = who'[t]
    <2>1. ASSUME NEW j \in 1..m PROVE orders'[placed'[t][j]].user = who'[t]
      BY <1>6, <1>7, <1>9, <1>10 DEF OrdersKept, ReplyInv, PlacedAddsUp
    <2>2. orders'[placed'[t][m + 1]].user = who'[t]
      BY <1>5, <1>6, <1>7, <1>10
    <2> QED
      BY <2>1, <2>2
  <1>13. IsInjective(placed'[t])
    <2>1. IsInjective(placed[t]) /\ DOMAIN placed[t] = 1..m
      BY <1>8, <1>9 DEF ReplyInv, PlacedAddsUp
    <2>2. DOMAIN placed'[t] = 1..(m + 1)
      BY <1>10, <1>11
    <2> QED
      BY <2>1, <2>2, <1>10 DEF IsInjective
  <1>14. total'[t] = SumOf(Amounts(t)')
    <2>1. Amounts(t) \in Seq(Nat) /\ Len(Amounts(t)) = m
      <3>1. \A n \in 1..k : orders[n] \in Order
        BY <1>7 DEF ReplyInv, TypeOK
      <3>2. \A n \in 1..k : orders[n].amount \in Nat
        BY <3>1 DEF Order
      <3>3. \A j \in 1..m : orders[placed[t][j]].amount \in Nat
        BY <3>2, <1>10
      <3> QED
        BY <3>3, <1>9 DEF Amounts
    <2>2. \A j \in 1..m : Amounts(t)[j] = orders[placed[t][j]].amount
      BY <1>9 DEF Amounts
    <2>3. PICK b \in Seq(Nat) : b = Amounts(t)
      BY <2>1
    <2>4. PICK c : c = Append(b, a)
      OBVIOUS
    <2>5. Len(c) = m + 1 /\ c[m + 1] = a /\ \A j \in 1..m : c[j] = b[j]
      BY <2>1, <2>3, <2>4, <1>5
    <2>6. c \in Seq(Nat)
      BY <2>3, <2>4, <1>5
    <2>7. Amounts(t)' = [j \in 1..(m + 1) |-> orders'[placed'[t][j]].amount]
      BY <1>10 DEF Amounts
    <2>8. \A j \in 1..(m + 1) : orders'[placed'[t][j]].amount = c[j]
      <3>1. ASSUME NEW j \in 1..m PROVE orders'[placed'[t][j]].amount = c[j]
        BY <2>2, <2>3, <2>5, <1>6, <1>7, <1>10 DEF OrdersKept
      <3>2. orders'[placed'[t][m + 1]].amount = c[m + 1]
        BY <2>5, <1>5, <1>6, <1>7, <1>10
      <3> QED
        BY <3>1, <3>2
    <2>9. Amounts(t)' = c
      <3>1. c = [j \in 1..(m + 1) |-> c[j]]
        BY <2>5, <2>6
      <3> QED
        BY <3>1, <2>7, <2>8, Zenon
    <2>10. SumOf(c) = SumOf(b) + a
      BY <2>4, <1>5, SumOfAppend
    <2> QED
      BY <2>3, <2>9, <2>10, <1>10 DEF ReplyInv, PlacedAddsUp
  <1>15. ASSUME NEW s \in Task
         PROVE  /\ placed'[s] \in Seq(1..Len(orders'))
                /\ pc'[s] = "idle" => placed'[s] = <<>>
                /\ \A j \in 1..Len(placed'[s]) : orders'[placed'[s][j]].user = who'[s]
                /\ IsInjective(placed'[s])
                /\ total'[s] = SumOf(Amounts(s)')
    <2>1. CASE s = t
      <3>1. pc'[t] # "idle"
        BY <1>1, <1>4 DEF ReplyInv, TypeOK
      <3> QED
        BY <2>1, <3>1, <1>10, <1>11, <1>12, <1>13, <1>14
    <2>2. CASE s # t
      <3>1. /\ placed'[s] = placed[s] /\ total'[s] = total[s] /\ who'[s] = who[s]
            /\ pc'[s] = pc[s]
        BY <2>2, <1>1, <1>4 DEF ReplyInv, TypeOK
      <3> QED
        BY <3>1, <1>6, PlacedKept DEF ReplyInv, PlacedAddsUp
    <2> QED
      BY <2>1, <2>2
  <1>16. items' \in [Task -> Seq(CartRow \cup {NULL})]
    <2>1. [items[t] EXCEPT ![i] = NULL] \in Seq(CartRow \cup {NULL})
      BY <1>5, ExceptSeq DEF ReplyInv, TypeOK
    <2> QED
      BY <2>1, <1>4 DEF ReplyInv, TypeOK
  <1>17. total' \in [Task -> Nat]
    <2>1. total[t] + a \in Nat
      BY <1>5, <1>8
    <2> QED
      BY <2>1, <1>4 DEF ReplyInv, TypeOK
  <1>18. placed' \in [Task -> Seq(1..Len(orders'))]
    BY <1>4, <1>15 DEF ReplyInv, TypeOK
  <1>19. pc' \in [Task -> Label] /\ \A s \in Task : pc'[s] = "idle" <=> who'[s] = NULL
    BY <1>1, <1>4 DEF ReplyInv, TypeOK, Label
  <1>20. TypeOK'
    BY <1>4, <1>6, <1>16, <1>17, <1>18, <1>19 DEF ReplyInv, TypeOK, OrdersKept
  <1>21. Tapped'
    <2>1. \A s \in Task : Positions(items'[s]) \subseteq Positions(items[s])
      BY <1>4, <1>5, <1>16 DEF Positions, ReplyInv, TypeOK
    <2>2. \A s \in Task : \A j \in Positions(items'[s]) : items'[s][j] = items[s][j]
      BY <1>4, <1>5 DEF Positions, ReplyInv, TypeOK
    <2>3. \A s \in Task : pc'[s] = pc[s] \/ pc'[s] \in {"checkout_insert", "checkout_clear"}
      BY <1>1 DEF ReplyInv, TypeOK
    <2>4. \A s \in Task : what'[s] = what[s] /\ who'[s] = who[s]
      BY <1>4
    <2>5. ASSUME NEW s \in Task
          PROVE  /\ pc'[s] \in {"add_select", "add_update", "add_insert", "buy_lookup"} =>
                       what'[s] \in Product
                 /\ pc'[s] = "buy_insert" => what'[s] \in Listed
      BY <2>3, <2>4 DEF ReplyInv, Tapped
    <2>6. \A s \in Task : \A j \in Positions(items'[s]) :
              items'[s][j].product \in Listed /\ items'[s][j].user = who'[s]
      BY <2>1, <2>2, <2>4 DEF ReplyInv, Tapped
    <2> QED
      BY <2>5, <2>6 DEF Tapped
  <1> QED
    BY <1>15, <1>20, <1>21 DEF ReplyInv, PlacedAddsUp

-----------------------------------------------------------------------------
(* What the statements on carts do to its rows.                            *)

LEMMA RowsAreRows ==
    ASSUME TypeOK, NEW u, NEW i \in RowsOf(u)
    PROVE  i \in 1..Len(carts) /\ carts[i] \in CartRow /\ carts[i].user = u
  BY DEF TypeOK, RowsOf

LEMMA DeleteTypes ==
    ASSUME TypeOK, NEW ids, Delete(ids)
    PROVE  /\ carts' \in Seq(CartRow \cup {NULL})
           /\ Len(carts') = Len(carts)
           /\ \A i \in 1..Len(carts) : carts'[i] = IF i \in ids THEN NULL ELSE carts[i]
  <1> DEFINE n == Len(carts)
  <1>1. n \in Nat /\ \A i \in 1..n : carts[i] \in CartRow \cup {NULL}
    BY DEF TypeOK
  <1>2. carts' = [i \in 1..n |-> IF i \in ids THEN NULL ELSE carts[i]]
    BY DEF Delete
  <1> HIDE DEF n
  <1>3. carts' \in [1..n -> CartRow \cup {NULL}]
    BY <1>1, <1>2
  <1>4. carts' \in Seq(CartRow \cup {NULL}) /\ Len(carts') = n
    BY <1>1, <1>3
  <1> QED
    BY <1>2, <1>4 DEF n

LEMMA BumpTypes ==
    ASSUME TypeOK, NEW t \in Task, carts' = BumpedRows(t)
    PROVE  /\ carts' \in Seq(CartRow \cup {NULL})
           /\ Len(carts') = Len(carts)
           /\ \A i \in 1..Len(carts) :
                 carts'[i] = IF i \in RowsOfProduct(who[t], what[t])
                             THEN [carts[i] EXCEPT !.qty = @ + 1]
                             ELSE carts[i]
  <1> DEFINE n == Len(carts)
             Bumped(i) == [carts[i] EXCEPT !.qty = @ + 1]
             mine == RowsOfProduct(who[t], what[t])
  <1>1. n \in Nat /\ \A i \in 1..n : carts[i] \in CartRow \cup {NULL}
    BY DEF TypeOK
  <1>2. carts' = [i \in 1..n |-> IF i \in mine THEN Bumped(i) ELSE carts[i]]
    BY DEF BumpedRows
  <1>3. ASSUME NEW i \in mine PROVE Bumped(i) \in CartRow
    <2>1. carts[i] \in CartRow
      BY RowsAreRows DEF RowsOfProduct
    <2> QED
      BY <2>1 DEF CartRow
  <1> HIDE DEF n, Bumped, mine
  <1>4. carts' \in [1..n -> CartRow \cup {NULL}]
    BY <1>1, <1>2, <1>3
  <1>5. carts' \in Seq(CartRow \cup {NULL}) /\ Len(carts') = n
    BY <1>1, <1>4
  <1> QED
    BY <1>2, <1>5 DEF n, Bumped, mine

LEMMA InsertTypes ==
    ASSUME TypeOK, NEW row \in CartRow, carts' = Append(carts, row)
    PROVE  /\ carts' \in Seq(CartRow \cup {NULL})
           /\ Len(carts') = Len(carts) + 1
           /\ carts'[Len(carts) + 1] = row
           /\ \A i \in 1..Len(carts) : carts'[i] = carts[i]
  BY DEF TypeOK

LEMMA ReadTypes ==
    ASSUME TypeOK, NEW u \in User
    PROVE  /\ CartOf(u) \in Seq(CartRow \cup {NULL})
           /\ Len(CartOf(u)) = Len(carts)
           /\ Positions(CartOf(u)) = {i \in RowsOf(u) : carts[i].product \in Listed}
           /\ \A i \in Positions(CartOf(u)) : CartOf(u)[i] = carts[i]
  <1> DEFINE n == Len(carts)
             InCart(i) == i \in RowsOf(u) /\ carts[i].product \in Listed
  <1>1. n \in Nat /\ \A i \in 1..n : carts[i] \in CartRow \cup {NULL}
    BY DEF TypeOK
  <1>2. CartOf(u) = [i \in 1..n |-> IF InCart(i) THEN carts[i] ELSE NULL]
    BY DEF CartOf
  <1>3. \A i \in RowsOf(u) : i \in 1..n /\ carts[i] # NULL
    BY DEF RowsOf
  <1> HIDE DEF n, InCart
  <1>4. CartOf(u) \in [1..n -> CartRow \cup {NULL}]
    BY <1>1, <1>2
  <1>5. CartOf(u) \in Seq(CartRow \cup {NULL}) /\ Len(CartOf(u)) = n
    BY <1>1, <1>4
  <1>6. \A i \in 1..n : CartOf(u)[i] # NULL <=> InCart(i)
    BY <1>2, <1>3 DEF InCart
  <1>7. Positions(CartOf(u)) = {i \in 1..n : InCart(i)}
    BY <1>5, <1>6 DEF Positions
  <1>8. {i \in 1..n : InCart(i)} = {i \in RowsOf(u) : carts[i].product \in Listed}
    BY <1>3 DEF InCart
  <1> QED
    BY <1>2, <1>5, <1>7, <1>8 DEF n, InCart

-----------------------------------------------------------------------------
(* Every step keeps ReplyInv.                                              *)

\* AskOne counts a unit of a product that the tap names.
LEMMA AskTypes ==
    ASSUME TypeOK, NEW t \in Task, AskOne(t), who[t] \in User, what[t] \in Product
    PROVE  /\ asked' \in [User -> [Product -> Nat]]
           /\ \A u \in User, p \in Product :
                 asked'[u][p] = IF u = who[t] /\ p = what[t] THEN asked[u][p] + 1 ELSE asked[u][p]
  BY DEF TypeOK, AskOne

LEMMA HandleKeepsReplies ==
    ASSUME ReplyInv, NEW t \in Task, Handle(t)
    PROVE  ReplyInv'
  <1>1. TypeOK /\ Tapped
    BY DEF ReplyInv
  <1>2. pc[t] # "idle" /\ who[t] \in User
    <2>1. pc[t] # "idle"
      BY DEF Handle, AddSelect, AddUpdate, AddInsert, BuyLookup, BuyInsert, CheckoutRead,
             CheckoutInsert, CheckoutClear, CheckoutReply, GoTo
    <2> QED
      BY <1>1, <2>1, TapIsAUsers
  <1>3. /\ carts \in Seq(CartRow \cup {NULL})
        /\ items \in [Task -> Seq(CartRow \cup {NULL})]
        /\ asked \in [User -> [Product -> Nat]]
        /\ hit \in [User -> BOOLEAN]
        /\ pc \in [Task -> Label]
    BY <1>1 DEF TypeOK
  <1>4. CASE AddSelect(t)
    <2>1. PICK label \in {"add_update", "add_insert"} : GoTo(t, "add_select", label)
      BY <1>4 DEF AddSelect
    <2>2. Tapped'
      BY <1>1, <1>3, <1>4, <2>1 DEF AddSelect, GoTo, Tapped
    <2>3. label \in Label /\ label # "idle"
      BY DEF Label
    <2> QED
      BY <1>2, <1>3, <1>4, <2>1, <2>2, <2>3, MoveKeepsReplies DEF AddSelect, GoTo
  <1>5. CASE AddUpdate(t)
    <2>1. what[t] \in Product
      BY <1>1, <1>5 DEF AddUpdate, Tapped
    <2> QED
      BY <1>1, <1>2, <1>3, <1>5, <2>1, AskTypes, BumpTypes, SameOrders, FinishKeepsReplies
         DEF AddUpdate
  <1>6. CASE AddInsert(t)
    <2>1. what[t] \in Product
      BY <1>1, <1>6 DEF AddInsert, Tapped
    <2>2. [user |-> who[t], product |-> what[t], qty |-> 1] \in CartRow
      BY <1>2, <2>1 DEF CartRow
    <2> QED
      BY <1>1, <1>2, <1>3, <1>6, <2>1, <2>2, AskTypes, InsertTypes, SameOrders,
         FinishKeepsReplies DEF AddInsert
  <1>7. CASE BuyLookup(t)
    <2>1. CASE what[t] \in Listed
      <3>1. Tapped'
        BY <1>1, <1>3, <1>7, <2>1 DEF BuyLookup, GoTo, Tapped
      <3>2. "buy_insert" \in Label
        BY DEF Label
      <3> QED
        BY <1>2, <1>3, <1>7, <2>1, <3>1, <3>2, MoveKeepsReplies DEF BuyLookup, GoTo
    <2>2. CASE what[t] \notin Listed
      BY <1>1, <1>3, <1>7, <2>2, SameOrders, FinishKeepsReplies DEF BuyLookup
    <2> QED
      BY <2>1, <2>2
  <1>8. CASE BuyInsert(t)
    <2>1. what[t] \in Listed /\ what[t] \in Product /\ Price[what[t]] \in Nat
      BY <1>1, <1>8, CatalogAssumption DEF BuyInsert, Tapped
    <2>2. NewOrder(who[t], what[t], Price[what[t]]) \in Order
      BY <1>2, <2>1 DEF NewOrder, Order
    <2> QED
      BY <1>1, <1>2, <1>3, <1>8, <2>1, <2>2, AskTypes, OneMoreOrder, FinishKeepsReplies
         DEF BuyInsert
  <1>9. CASE CheckoutRead(t)
    <2>1. CASE Positions(CartOf(who[t])) = {}
      BY <1>1, <1>3, <1>9, <2>1, SameOrders, FinishKeepsReplies DEF CheckoutRead
    <2>2. CASE Positions(CartOf(who[t])) # {}
      <3>1. PICK rows : rows = CartOf(who[t])
        OBVIOUS
      <3>2. rows \in Seq(CartRow \cup {NULL})
        BY <1>1, <1>2, <3>1, ReadTypes
      <3>3. \A i \in Positions(rows) : rows[i].product \in Listed /\ rows[i].user = who[t]
        BY <1>1, <1>2, <3>1, ReadTypes, RowsAreRows
      <3>4. /\ pc' = [pc EXCEPT ![t] = "checkout_insert"]
            /\ items' = [items EXCEPT ![t] = rows]
            /\ UNCHANGED <<carts, orders, who, what, placed, total, taps, asked, hit>>
        BY <1>9, <2>2, <3>1 DEF CheckoutRead, GoTo
      <3>5. Tapped'
        BY <1>1, <1>3, <3>3, <3>4 DEF Tapped
      <3>6. "checkout_insert" \in Label
        BY DEF Label
      <3> QED
        BY <1>2, <1>3, <3>2, <3>4, <3>5, <3>6, MoveKeepsReplies
    <2> QED
      BY <2>1, <2>2
  <1>10. CASE CheckoutInsert(t)
    BY <1>10, InsertKeepsReplies
  <1>11. CASE CheckoutClear(t)
    <2>1. Tapped'
      BY <1>1, <1>3, <1>11 DEF CheckoutClear, GoTo, Tapped
    <2>2. "checkout_reply" \in Label
      BY DEF Label
    <2>3. carts' \in Seq(CartRow \cup {NULL})
      BY <1>1, <1>11, DeleteTypes DEF CheckoutClear
    <2> QED
      BY <1>2, <1>3, <1>11, <2>1, <2>2, <2>3, MoveKeepsReplies DEF CheckoutClear, GoTo
  <1>12. CASE CheckoutReply(t)
    BY <1>1, <1>3, <1>12, SameOrders, FinishKeepsReplies DEF CheckoutReply
  <1> QED
    BY <1>4, <1>5, <1>6, <1>7, <1>8, <1>9, <1>10, <1>11, <1>12 DEF Handle

\* The sequences that are added up.
UnitsIn(u, p) ==
    [i \in 1..Len(carts) |-> IF i \in RowsOfProduct(u, p) THEN carts[i].qty ELSE 0]
AmountsOf(u, p) ==
    [o \in 1..Len(orders) |-> IF IsOrder(o, u, p) THEN orders[o].amount ELSE 0]

LEMMA UnitsType ==
    ASSUME TypeOK, NEW u, NEW p
    PROVE  UnitsIn(u, p) \in Seq(Nat) /\ Len(UnitsIn(u, p)) = Len(carts) /\ Units(u, p) \in Nat
  <1>1. \A i \in RowsOfProduct(u, p) : carts[i].qty \in Nat
    BY RowsAreRows DEF RowsOfProduct, CartRow
  <1>2. Len(carts) \in Nat
    BY DEF TypeOK
  <1>3. UnitsIn(u, p) \in [1..Len(carts) -> Nat]
    BY <1>1 DEF UnitsIn
  <1>4. UnitsIn(u, p) \in Seq(Nat) /\ Len(UnitsIn(u, p)) = Len(carts)
    BY <1>2, <1>3
  <1>5. Units(u, p) = SumOf(UnitsIn(u, p))
    BY DEF Units, UnitsIn
  <1> QED
    BY <1>4, <1>5, SumType

LEMMA OrderedType ==
    ASSUME TypeOK, NEW u, NEW p
    PROVE  AmountsOf(u, p) \in Seq(Nat) /\ Len(AmountsOf(u, p)) = Len(orders)
           /\ Ordered(u, p) \in Nat
  <1>1. \A o \in 1..Len(orders) : orders[o].amount \in Nat
    <2>1. \A o \in 1..Len(orders) : orders[o] \in Order
      BY DEF TypeOK
    <2> QED
      BY <2>1 DEF Order
  <1>2. Len(orders) \in Nat
    BY DEF TypeOK
  <1>3. AmountsOf(u, p) \in [1..Len(orders) -> Nat]
    BY <1>1 DEF AmountsOf
  <1>4. AmountsOf(u, p) \in Seq(Nat) /\ Len(AmountsOf(u, p)) = Len(orders)
    BY <1>2, <1>3
  <1>5. Ordered(u, p) = SumOf(AmountsOf(u, p))
    BY DEF Ordered, AmountsOf
  <1> QED
    BY <1>4, <1>5, SumType

SumsTyped ==
    \A u, p :
        /\ UnitsIn(u, p) \in Seq(Nat) /\ Len(UnitsIn(u, p)) = Len(carts)
        /\ AmountsOf(u, p) \in Seq(Nat) /\ Len(AmountsOf(u, p)) = Len(orders)
        /\ Units(u, p) \in Nat /\ Ordered(u, p) \in Nat

LEMMA SumsTypedNext == TypeOK' => SumsTyped'
  <1>1. TypeOK => SumsTyped
    BY UnitsType, OrderedType DEF SumsTyped
  <1> QED
    BY <1>1, PTL

\* A product taken out of the cart: what is still wanted is what is ordered.
LEMMA RemoveAsks ==
    ASSUME TypeOK, NEW u \in User, NEW p \in Product, RemoveFromCart(u, p)
    PROVE  /\ asked' \in [User -> [Product -> Nat]]
           /\ \A v \in User, q \in Product :
                 asked'[v][q] = IF v = u /\ q = p
                                THEN IF p \in Listed /\ Price[p] > 0
                                     THEN Ordered(u, p) \div Price[p] ELSE 0
                                ELSE asked[v][q]
  <1> DEFINE left == IF p \in Listed /\ Price[p] > 0 THEN Ordered(u, p) \div Price[p] ELSE 0
  <1>1. left \in Nat
    <2>1. CASE p \in Listed /\ Price[p] > 0
      <3>1. Ordered(u, p) \in Nat /\ Price[p] \in Nat \ {0}
        BY <2>1, OrderedType, CatalogAssumption
      <3>2. \A m \in Nat, n \in Nat \ {0} : m \div n \in Nat
        OBVIOUS
      <3> QED
        BY <2>1, <3>1, <3>2
    <2>2. CASE ~ (p \in Listed /\ Price[p] > 0)
      BY <2>2
    <2> QED
      BY <2>1, <2>2
  <1>2. asked' = [asked EXCEPT ![u][p] = left]
    BY DEF RemoveFromCart
  <1> HIDE DEF left
  <1>3. /\ asked' \in [User -> [Product -> Nat]]
        /\ \A v \in User, q \in Product :
              asked'[v][q] = IF v = u /\ q = p THEN left ELSE asked[v][q]
    BY <1>1, <1>2 DEF TypeOK
  <1> QED
    BY <1>3 DEF left

LEMMA InitReplies == Init => ReplyInv
  <1> SUFFICES ASSUME Init PROVE ReplyInv
    OBVIOUS
  <1>1. <<>> \in Seq(CartRow \cup {NULL}) /\ <<>> \in Seq(Order) /\ <<>> \in Seq(1..Len(orders))
    OBVIOUS
  <1>2. TypeOK
    BY <1>1, BoundAssumption DEF Init, TypeOK, Label
  <1>3. Tapped
    <2>1. Positions(<<>>) = {}
      BY DEF Positions
    <2> QED
      BY <2>1 DEF Init, Tapped
  <1>4. PlacedAddsUp
    <2>1. ASSUME NEW t \in Task
          PROVE  /\ \A i \in 1..Len(placed[t]) : orders[placed[t][i]].user = who[t]
                 /\ IsInjective(placed[t])
                 /\ total[t] = SumOf(Amounts(t))
      <3>1. placed[t] = <<>> /\ total[t] = 0 /\ Len(<<>>) = 0 /\ 1..0 = {} /\ DOMAIN <<>> = {}
        BY DEF Init
      <3>2. Amounts(t) = <<>>
        BY <3>1 DEF Amounts
      <3>3. <<>> \in Seq(Nat) /\ \A i \in 1..Len(<<>>) : <<>>[i] = 0
        OBVIOUS
      <3>4. SumOf(<<>>) = 0
        BY <3>3, SumOfZeros
      <3> QED
        BY <3>1, <3>2, <3>4 DEF IsInjective
    <2> QED
      BY <2>1 DEF Init, PlacedAddsUp
  <1> QED
    BY <1>2, <1>3, <1>4 DEF ReplyInv

\* Every task forgets its tap.
LEMMA CrashKeepsReplies ==
    ASSUME ReplyInv, Crash
    PROVE  ReplyInv'
  <1>1. <<>> \in Seq(CartRow \cup {NULL}) /\ <<>> \in Seq(1..Len(orders))
    OBVIOUS
  <1>2. hit' \in [User -> BOOLEAN]
    BY DEF Crash
  <1>3. TypeOK'
    BY <1>1, <1>2 DEF Crash, ReplyInv, TypeOK, Label
  <1>4. Tapped'
    <2>1. Positions(<<>>) = {}
      BY DEF Positions
    <2> QED
      BY <2>1 DEF Crash, Tapped
  <1>5. PlacedAddsUp'
    BY NothingPlaced DEF Crash, PlacedAddsUp
  <1> QED
    BY <1>3, <1>4, <1>5 DEF ReplyInv

\* A step that does not touch orders, tasks and taps.
LEMMA RestKeepsReplies ==
    ASSUME ReplyInv, UNCHANGED <<orders, local, taps, hit>>,
           carts' \in Seq(CartRow \cup {NULL}),
           asked' \in [User -> [Product -> Nat]]
    PROVE  ReplyInv'
  <1>1. TypeOK'
    BY DEF ReplyInv, TypeOK, local
  <1>2. Tapped'
    BY DEF ReplyInv, Tapped, local, Positions
  <1>3. PlacedAddsUp'
    BY DEF ReplyInv, PlacedAddsUp, Amounts, local
  <1> QED
    BY <1>1, <1>2, <1>3 DEF ReplyInv

LEMMA StepKeepsReplies == ReplyInv /\ [Next]_vars => ReplyInv'
  <1> SUFFICES ASSUME ReplyInv, [Next]_vars PROVE ReplyInv'
    OBVIOUS
  <1>0. TypeOK
    BY DEF ReplyInv
  <1>1. ASSUME NEW t \in Task, NEW u \in User, NEW p \in Product,
               TapAddToCart(t, u, p) \/ TapBuy(t, u, p)
        PROVE  ReplyInv'
    BY <1>1, TapKeepsReplies DEF TapAddToCart, TapBuy
  <1>2. ASSUME NEW t \in Task, NEW u \in User, TapCheckout(t, u)
        PROVE  ReplyInv'
    BY <1>2, TapKeepsReplies DEF TapCheckout
  <1>3. ASSUME NEW t \in Task, Handle(t) PROVE ReplyInv'
    BY <1>3, HandleKeepsReplies
  <1>4. ASSUME NEW t \in Task, Fail(t) PROVE ReplyInv'
    <2>1. hit' \in [User -> BOOLEAN] /\ carts' = carts /\ asked' = asked
      BY <1>0, <1>4 DEF Fail, TypeOK
    <2>2. Finish(t) /\ OrdersKept
      BY <1>0, <1>4, SameOrders DEF Fail
    <2> QED
      BY <1>0, <2>1, <2>2, FinishKeepsReplies DEF TypeOK
  <1>5. CASE Crash
    BY <1>5, CrashKeepsReplies
  <1>6. ASSUME NEW u \in User, NEW p \in Product, RemoveFromCart(u, p)
        PROVE  ReplyInv'
    <2>1. carts' \in Seq(CartRow \cup {NULL})
      BY <1>0, <1>6, DeleteTypes DEF RemoveFromCart
    <2>2. asked' \in [User -> [Product -> Nat]]
      BY <1>0, <1>6, RemoveAsks
    <2> QED
      BY <1>6, <2>1, <2>2, RestKeepsReplies DEF RemoveFromCart
  <1>7. CASE UNCHANGED vars
    <2>1. carts' \in Seq(CartRow \cup {NULL}) /\ asked' \in [User -> [Product -> Nat]]
      BY <1>0, <1>7 DEF vars, TypeOK
    <2> QED
      BY <1>7, <2>1, RestKeepsReplies DEF vars
  <1> QED
    BY <1>1, <1>2, <1>3, <1>4, <1>5, <1>6, <1>7 DEF Next

LEMMA RepliesHold == Spec => []ReplyInv
  BY InitReplies, StepKeepsReplies, PTL DEF Spec

\* The variables have the types they are meant to have in every reachable state:
\* a checkout's local list has rows and its order ids are ids of orders.
THEOREM CheckoutTypeCorrect == Spec => []TypeOK
  <1>1. ReplyInv => TypeOK
    BY DEF ReplyInv
  <1> QED
    BY <1>1, RepliesHold, PTL

\* The message that ends a checkout names orders of the user, each once, and
\* their total is the sum of their amounts, however many taps are in flight.
THEOREM RepliesAddUp == Spec => []ReplyAddsUp
  <1>1. ReplyInv => ReplyAddsUp
    BY DEF ReplyInv, PlacedAddsUp, ReplyAddsUp, Amounts
  <1> QED
    BY <1>1, RepliesHold, PTL

-----------------------------------------------------------------------------
(* A step of one user leaves what the others have alone.                   *)

\* Rows of u's may change and go, and one may come.
RowsChange(u) ==
    /\ Len(carts') \in {Len(carts), Len(carts) + 1}
    /\ \A i \in 1..Len(carts) :
          IF i \in RowsOf(u)
          THEN carts'[i] # NULL => carts'[i].user = u
          ELSE carts'[i] = carts[i]
    /\ Len(carts') = Len(carts) + 1 => carts'[Len(carts')] # NULL /\ carts'[Len(carts')].user = u

\* An order of u's may come.
OrdersChange(u) ==
    \/ orders' = orders
    \/ \E o \in Order : o.user = u /\ orders' = Append(orders, o)

StepOf(u) ==
    /\ RowsChange(u)
    /\ OrdersChange(u)
    /\ \A v \in User : v # u => hit'[v] = hit[v] /\ asked'[v] = asked[v]
    /\ \A t \in Task : who[t] # u /\ who'[t] # u =>
          pc'[t] = pc[t] /\ who'[t] = who[t] /\ what'[t] = what[t] /\ items'[t] = items[t]
    /\ \A t \in Task : who[t] = u \/ who'[t] = u => who[t] \in {u, NULL} /\ who'[t] \in {u, NULL}

LEMMA OthersRows ==
    ASSUME TypeOK, TypeOK', NEW u \in User, NEW v \in User, u # v, RowsChange(u)
    PROVE  /\ RowsOf(v)' = RowsOf(v)
           /\ \A i \in RowsOf(v) : i \in 1..Len(carts') /\ carts'[i] = carts[i]
           /\ \A p : RowsOfProduct(v, p)' = RowsOfProduct(v, p)
  <1>1. PICK n \in Nat : n = Len(carts)
    BY DEF TypeOK
  <1>2. Len(carts') = n \/ Len(carts') = n + 1
    BY <1>1 DEF RowsChange
  <1>3. ASSUME NEW i \in 1..n
        PROVE  /\ i \in RowsOf(v)' <=> i \in RowsOf(v)
               /\ i \in RowsOf(v) => carts'[i] = carts[i]
    <2>1. CASE i \in RowsOf(u)
      BY <1>1, <1>2, <2>1 DEF RowsChange, RowsOf
    <2>2. CASE i \notin RowsOf(u)
      BY <1>1, <1>2, <2>2 DEF RowsChange, RowsOf
    <2> QED
      BY <2>1, <2>2
  <1>4. Len(carts') = n + 1 => n + 1 \notin RowsOf(v)'
    BY <1>1 DEF RowsChange, RowsOf
  <1>5. RowsOf(v)' \subseteq 1..Len(carts') /\ RowsOf(v) \subseteq 1..n
    BY <1>1 DEF RowsOf
  <1>6. ASSUME NEW i \in RowsOf(v)' PROVE i \in 1..n
    BY <1>2, <1>4, <1>5
  <1>7. RowsOf(v)' = RowsOf(v)
    BY <1>3, <1>5, <1>6
  <1>8. \A i \in RowsOf(v) : i \in 1..Len(carts') /\ carts'[i] = carts[i]
    BY <1>2, <1>3, <1>5
  <1>9. ASSUME NEW p PROVE RowsOfProduct(v, p)' = RowsOfProduct(v, p)
    BY <1>7, <1>8 DEF RowsOfProduct
  <1> QED
    BY <1>7, <1>8, <1>9

\* A sequence that one zero more at most is appended to has the same sum.
LEMMA SameSum ==
    ASSUME NEW s \in Seq(Nat), NEW r \in Seq(Nat),
           Len(r) = Len(s) \/ (Len(r) = Len(s) + 1 /\ r[Len(r)] = 0),
           \A i \in 1..Len(s) : r[i] = s[i]
    PROVE  SumOf(r) = SumOf(s)
  <1>1. CASE Len(r) = Len(s)
    <2>1. r = s
      BY <1>1, SeqEqual
    <2> QED
      BY <2>1
  <1>2. CASE Len(r) = Len(s) + 1 /\ r[Len(r)] = 0
    <2>1. PICK n \in Nat : n = Len(s)
      OBVIOUS
    <2>2. PICK e : e = Append(s, 0)
      OBVIOUS
    <2>3. e \in Seq(Nat) /\ Len(e) = n + 1 /\ e[n + 1] = 0 /\ \A i \in 1..n : e[i] = s[i]
      BY <2>1, <2>2
    <2>4. \A i \in 1..(n + 1) : r[i] = e[i]
      <3>1. ASSUME NEW i \in 1..n PROVE r[i] = e[i]
        BY <2>1, <2>3
      <3>2. r[n + 1] = e[n + 1]
        BY <1>2, <2>1, <2>3
      <3> QED
        BY <3>1, <3>2
    <2>5. r = e
      BY <1>2, <2>1, <2>3, <2>4, SeqEqual
    <2>6. SumOf(e) = SumOf(s) + 0
      BY <2>2, SumOfAppend
    <2>7. SumOf(s) \in Nat
      BY SumType
    <2> QED
      BY <2>5, <2>6, <2>7
  <1> QED
    BY <1>1, <1>2

LEMMA SameUnits ==
    ASSUME TypeOK, TypeOK', NEW u, NEW p,
           Len(carts') \in {Len(carts), Len(carts) + 1},
           RowsOfProduct(u, p)' = RowsOfProduct(u, p),
           \A i \in RowsOfProduct(u, p) : carts'[i].qty = carts[i].qty
    PROVE  Units(u, p)' = Units(u, p)
  <1>1. PICK n \in Nat : n = Len(carts)
    BY DEF TypeOK
  <1>2. PICK s : s = UnitsIn(u, p)
    OBVIOUS
  <1>3. PICK r : r = UnitsIn(u, p)'
    OBVIOUS
  <1>4. s \in Seq(Nat) /\ Len(s) = n
    BY <1>1, <1>2, UnitsType
  <1>5. UnitsIn(u, p)' \in Seq(Nat) /\ Len(UnitsIn(u, p)') = Len(carts')
    BY SumsTypedNext DEF SumsTyped
  <1>6. r \in Seq(Nat) /\ (Len(r) = n \/ Len(r) = n + 1)
    BY <1>1, <1>3, <1>5
  <1>7. RowsOfProduct(u, p) \subseteq 1..n
    BY <1>1 DEF RowsOfProduct, RowsOf
  <1>8. \A i \in 1..Len(carts') :
           r[i] = IF i \in RowsOfProduct(u, p) THEN carts'[i].qty ELSE 0
    BY <1>3 DEF UnitsIn
  <1>9. \A i \in 1..n : r[i] = s[i]
    <2>1. \A i \in 1..n : s[i] = IF i \in RowsOfProduct(u, p) THEN carts[i].qty ELSE 0
      BY <1>1, <1>2 DEF UnitsIn
    <2>2. \A i \in 1..n : i \in 1..Len(carts')
      BY <1>1
    <2> QED
      BY <2>1, <2>2, <1>8
  <1>10. Len(r) = n + 1 => r[n + 1] = 0
    BY <1>3, <1>5, <1>7, <1>8
  <1>11. SumOf(r) = SumOf(s)
    BY <1>4, <1>6, <1>9, <1>10, SameSum
  <1>12. Units(u, p) = SumOf(s)
    BY <1>2 DEF Units, UnitsIn
  <1>13. Units(u, p)' = SumOf(r)
    BY <1>3 DEF Units, UnitsIn
  <1> QED
    BY <1>11, <1>12, <1>13

\* An order more is its amount more for its user and product.
LEMMA OrderedGrows ==
    ASSUME TypeOK, TypeOK', NEW o \in Order, orders' = Append(orders, o), NEW u, NEW p
    PROVE  Ordered(u, p)' = Ordered(u, p) +
                                (IF o.user = u /\ o.product = p THEN o.amount ELSE 0)
  <1>1. PICK n \in Nat : n = Len(orders)
    BY DEF TypeOK
  <1>2. PICK a \in Nat : a = IF o.user = u /\ o.product = p THEN o.amount ELSE 0
    BY DEF Order
  <1>3. PICK s \in Seq(Nat) : s = AmountsOf(u, p) /\ Len(s) = n
    BY <1>1, OrderedType
  <1>4. PICK r : r = AmountsOf(u, p)'
    OBVIOUS
  <1>5. AmountsOf(u, p)' \in Seq(Nat) /\ Len(AmountsOf(u, p)') = Len(orders')
    BY SumsTypedNext DEF SumsTyped
  <1>6. /\ Len(orders') = n + 1
        /\ orders'[n + 1] = o
        /\ \A i \in 1..n : orders'[i] = orders[i]
    BY <1>1 DEF TypeOK
  <1>7. PICK e : e = Append(s, a)
    OBVIOUS
  <1>8. e \in Seq(Nat) /\ Len(e) = n + 1 /\ e[n + 1] = a /\ \A i \in 1..n : e[i] = s[i]
    BY <1>3, <1>7
  <1>9. \A i \in 1..(n + 1) :
           r[i] = IF orders'[i].user = u /\ orders'[i].product = p THEN orders'[i].amount ELSE 0
    BY <1>4, <1>6 DEF AmountsOf, IsOrder
  <1>10. \A i \in 1..n :
           s[i] = IF orders[i].user = u /\ orders[i].product = p THEN orders[i].amount ELSE 0
    BY <1>1, <1>3 DEF AmountsOf, IsOrder
  <1>11. \A i \in 1..(n + 1) : r[i] = e[i]
    <2>1. ASSUME NEW i \in 1..n PROVE r[i] = e[i]
      BY <1>6, <1>8, <1>9, <1>10
    <2>2. r[n + 1] = e[n + 1]
      BY <1>2, <1>6, <1>8, <1>9
    <2> QED
      BY <2>1, <2>2
  <1>12. r = e
    BY <1>4, <1>5, <1>6, <1>8, <1>11, SeqEqual
  <1>13. SumOf(r) = SumOf(s) + a
    BY <1>7, <1>12, SumOfAppend
  <1>14. Ordered(u, p) = SumOf(s) /\ Ordered(u, p)' = SumOf(r)
    BY <1>3, <1>4 DEF Ordered, AmountsOf
  <1> QED
    BY <1>2, <1>13, <1>14

LEMMA OthersOrders ==
    ASSUME TypeOK, TypeOK', NEW u \in User, NEW v \in User, u # v, OrdersChange(u), NEW p
    PROVE  Ordered(v, p)' = Ordered(v, p)
  <1>1. CASE orders' = orders
    BY <1>1 DEF Ordered, IsOrder
  <1>2. ASSUME NEW o \in Order, o.user = u, orders' = Append(orders, o)
        PROVE  Ordered(v, p)' = Ordered(v, p)
    <2>1. Ordered(v, p)' = Ordered(v, p) + 0
      BY <1>2, OrderedGrows
    <2>2. Ordered(v, p) \in Nat
      BY OrderedType
    <2> QED
      BY <2>1, <2>2
  <1> QED
    BY <1>1, <1>2 DEF OrdersChange

LEMMA OthersKeep ==
    ASSUME CartInv, ReplyInv', NEW u \in User, NEW v \in User, u # v, StepOf(u)
    PROVE  RowsInv(v)' /\ SumsInv(v)'
  <1>1. TypeOK /\ TypeOK' /\ Tapped /\ RowsInv(v) /\ SumsInv(v)
    BY DEF CartInv, ReplyInv
  <1>2. /\ RowsOf(v)' = RowsOf(v)
        /\ \A i \in RowsOf(v) : i \in 1..Len(carts') /\ carts'[i] = carts[i]
        /\ \A p : RowsOfProduct(v, p)' = RowsOfProduct(v, p)
    BY <1>1, OthersRows DEF StepOf
  <1>3. u # NULL /\ v # NULL
    BY NullAssumption
  <1>4. /\ InFlight(v)' = InFlight(v)
        /\ \A t \in InFlight(v) : /\ t \in Task /\ who[t] = v /\ who'[t] = v
                                  /\ pc'[t] = pc[t] /\ what'[t] = what[t]
                                  /\ items'[t] = items[t]
    BY <1>3 DEF InFlight, StepOf
  <1>5. ASSUME NEW t \in InFlight(v) PROVE SelectStands(t)' /\ ReadStands(t)'
    <2>1. SelectStands(t) /\ ReadStands(t)
      BY <1>1 DEF RowsInv
    <2>2. SelectStands(t)'
      BY <1>2, <1>4, <2>1 DEF SelectStands
    <2>3. Positions(items[t])' = Positions(items[t])
      BY <1>4 DEF Positions
    <2>4. ASSUME NEW i \in Positions(items[t]), AtCheckout(t)
          PROVE  i \in 1..Len(carts') /\ items'[t][i] = carts'[i]
      <3>1. i \in 1..Len(carts) /\ items[t][i] = carts[i]
        BY <2>1, <2>4 DEF ReadStands, AtCheckout
      <3>2. items[t][i].user = v /\ items[t][i] # NULL
        BY <1>1, <1>4 DEF Tapped, Positions
      <3>3. i \in RowsOf(v)
        BY <3>1, <3>2 DEF RowsOf
      <3> QED
        BY <3>1, <3>3, <1>2, <1>4
    <2>5. ReadStands(t)'
      BY <2>1, <2>3, <2>4, <1>4 DEF ReadStands, AtCheckout
    <2> QED
      BY <2>2, <2>5
  <1>6. RowsInv(v)'
    BY <1>1, <1>2, <1>4, <1>5 DEF RowsInv
  <1>7. ASSUME NEW p \in Listed
        PROVE  /\ Units(v, p)' = Units(v, p) /\ Ordered(v, p)' = Ordered(v, p)
               /\ Due(v, p)' = Due(v, p) /\ Worth(v, p)' = Worth(v, p)
    <2>1. RowsOfProduct(v, p) \subseteq RowsOf(v)
      BY DEF RowsOfProduct
    <2>2. Units(v, p)' = Units(v, p)
      BY <1>1, <1>2, <2>1, SameUnits DEF StepOf, RowsChange
    <2>3. Ordered(v, p)' = Ordered(v, p)
      BY <1>1, OthersOrders DEF StepOf
    <2>4. Due(v, p)' = Due(v, p)
      BY DEF StepOf, Due
    <2> QED
      BY <2>2, <2>3, <2>4 DEF Worth
  <1>8. Ordering(v)' <=> Ordering(v)
    BY <1>4 DEF Ordering
  <1>9. \A t \in InFlight(v) : AtCheckout(t)' <=> AtCheckout(t)
    BY <1>4 DEF AtCheckout
  <1>10. hit'[v] = hit[v]
    BY DEF StepOf
  <1>11. ASSUME NEW p \in Listed, NEW t \in InFlight(v), RestAddsUp(t, p)
         PROVE  RestAddsUp(t, p)'
    <2>1. Rest(t, p)' = Rest(t, p)
      BY <1>4 DEF Rest, RestIn, Positions
    <2> QED
      BY <2>1, <1>4, <1>7, <1>10, <1>11 DEF RestAddsUp
  <1>12. SumsInv(v)'
    BY <1>1, <1>4, <1>7, <1>8, <1>9, <1>10, <1>11 DEF SumsInv
  <1> QED
    BY <1>6, <1>12

-----------------------------------------------------------------------------
(* One tap at a time.                                                      *)

LEMMA OnlyTapOf ==
    ASSUME OneTap, TypeOK, NEW t \in Task, pc[t] # "idle"
    PROVE  who[t] \in User /\ InFlight(who[t]) = {t}
  <1>1. who[t] \in User
    BY TapIsAUsers
  <1> QED
    BY <1>1, NullAssumption DEF OneTap, InFlight

\* A user with a tap in flight makes no other.
LEMMA NothingInFlight ==
    ASSUME MaxInFlight = 1, OneTap, NEW u \in User, Cardinality(InFlight(u)) < MaxInFlight
    PROVE  InFlight(u) = {}
  <1> SUFFICES ASSUME NEW t \in InFlight(u) PROVE FALSE
    OBVIOUS
  <1>1. InFlight(u) = {t}
    BY NullAssumption DEF InFlight, OneTap
  <1>2. Cardinality({t}) = 1
    BY FS_Singleton
  <1> QED
    BY <1>1, <1>2

LEMMA FinishEnds ==
    ASSUME CartInv, NEW t \in Task, NEW u, u = who[t], pc[t] # "idle", Finish(t)
    PROVE  InFlight(u)' = {} /\ OneTap'
  <1>1. u \in User /\ InFlight(u) = {t}
    BY OnlyTapOf DEF CartInv, ReplyInv
  <1>2. \A s \in Task : who'[s] = IF s = t THEN NULL ELSE who[s]
    BY DEF Finish, CartInv, ReplyInv, TypeOK
  <1>3. \A s \in Task : who'[s] # u
    BY <1>1, <1>2, NullAssumption DEF InFlight
  <1>4. OneTap'
    BY <1>2 DEF CartInv, OneTap
  <1> QED
    BY <1>3, <1>4 DEF InFlight

\* A handler's task goes on: it is still its user's only one.
LEMMA MoveStays ==
    ASSUME CartInv, NEW t \in Task, NEW u, u = who[t], pc[t] # "idle", who' = who
    PROVE  u \in User /\ InFlight(u)' = {t} /\ who'[t] = u /\ OneTap'
  <1>1. u \in User /\ InFlight(u) = {t}
    BY OnlyTapOf DEF CartInv, ReplyInv
  <1> QED
    BY <1>1 DEF InFlight, CartInv, OneTap

-----------------------------------------------------------------------------
(* Every step is one user's, but for a crash.                              *)

LEMMA SameRows ==
    ASSUME TypeOK, NEW u, UNCHANGED carts
    PROVE  RowsChange(u)
  BY DEF TypeOK, RowsChange, RowsOf

LEMMA InsertedRows ==
    ASSUME TypeOK, NEW u, NEW row \in CartRow, row.user = u, carts' = Append(carts, row)
    PROVE  RowsChange(u)
  <1>1. row # NULL
    BY NullAssumption
  <1>2. /\ Len(carts') = Len(carts) + 1
        /\ carts'[Len(carts) + 1] = row
        /\ \A i \in 1..Len(carts) : carts'[i] = carts[i]
    BY InsertTypes
  <1> QED
    BY <1>1, <1>2 DEF RowsChange, RowsOf

LEMMA BumpedRowsOf ==
    ASSUME TypeOK, NEW t \in Task, carts' = BumpedRows(t), NEW u, u = who[t]
    PROVE  /\ RowsChange(u)
           /\ Len(carts') = Len(carts)
           /\ \A v, p : RowsOfProduct(v, p)' = RowsOfProduct(v, p)
           /\ \A i \in 1..Len(carts) :
                 /\ i \in RowsOfProduct(u, what[t]) => carts'[i].qty = carts[i].qty + 1
                 /\ i \notin RowsOfProduct(u, what[t]) => carts'[i] = carts[i]
  <1>1. /\ Len(carts') = Len(carts)
        /\ \A i \in 1..Len(carts) :
              carts'[i] = IF i \in RowsOfProduct(u, what[t])
                          THEN [carts[i] EXCEPT !.qty = @ + 1]
                          ELSE carts[i]
    BY BumpTypes
  <1>2. ASSUME NEW i \in RowsOfProduct(u, what[t])
        PROVE  /\ i \in 1..Len(carts) /\ i \in RowsOf(u) /\ carts[i] # NULL /\ carts'[i] # NULL
               /\ carts'[i].user = carts[i].user
               /\ carts'[i].product = carts[i].product
               /\ carts'[i].qty = carts[i].qty + 1
               /\ carts[i].user = u
    <2>1. i \in RowsOf(u) /\ i \in 1..Len(carts) /\ carts[i] \in CartRow /\ carts[i].user = u
      BY RowsAreRows DEF RowsOfProduct
    <2>2. carts'[i] = [carts[i] EXCEPT !.qty = @ + 1]
      BY <1>1, <2>1
    <2>3. /\ carts'[i] \in CartRow
          /\ carts'[i].user = carts[i].user
          /\ carts'[i].product = carts[i].product
          /\ carts'[i].qty = carts[i].qty + 1
      BY <2>1, <2>2 DEF CartRow
    <2> QED
      BY <2>1, <2>3, NullAssumption
  <1>3. ASSUME NEW i \in 1..Len(carts)
        PROVE  /\ (carts'[i] = NULL) <=> (carts[i] = NULL)
               /\ carts'[i].user = carts[i].user
               /\ carts'[i].product = carts[i].product
    BY <1>1, <1>2
  <1>4. RowsChange(u)
    <2>1. ASSUME NEW i \in 1..Len(carts), i \in RowsOf(u)
          PROVE  carts'[i] # NULL => carts'[i].user = u
      BY <1>3, <2>1 DEF RowsOf
    <2>2. ASSUME NEW i \in 1..Len(carts), i \notin RowsOf(u)
          PROVE  carts'[i] = carts[i]
      BY <1>1, <2>2 DEF RowsOfProduct
    <2>3. Len(carts) \in Nat
      BY DEF TypeOK
    <2> QED
      BY <1>1, <2>1, <2>2, <2>3 DEF RowsChange
  <1>5. ASSUME NEW v, NEW p PROVE RowsOfProduct(v, p)' = RowsOfProduct(v, p)
    <2>1. \A i \in 1..Len(carts) : i \in RowsOf(v)' <=> i \in RowsOf(v)
      BY <1>1, <1>3 DEF RowsOf
    <2>2. \A i \in RowsOf(v) : i \in 1..Len(carts) /\ carts'[i].product = carts[i].product
      BY <1>3 DEF RowsOf
    <2>3. RowsOf(v)' = RowsOf(v)
      BY <1>1, <2>1 DEF RowsOf
    <2> QED
      BY <2>2, <2>3 DEF RowsOfProduct
  <1> QED
    BY <1>1, <1>2, <1>4, <1>5

LEMMA DeletedRows ==
    ASSUME TypeOK, NEW ids, Delete(ids)
    PROVE  /\ Len(carts') = Len(carts)
           /\ \A u : RowsOf(u)' = RowsOf(u) \ ids
           /\ \A u, p : RowsOfProduct(u, p)' = RowsOfProduct(u, p) \ ids
           /\ \A i \in 1..Len(carts) : i \notin ids => carts'[i] = carts[i]
           /\ \A u : ids \subseteq RowsOf(u) => RowsChange(u)
  <1>1. /\ Len(carts') = Len(carts)
        /\ \A i \in 1..Len(carts) : carts'[i] = IF i \in ids THEN NULL ELSE carts[i]
    BY DeleteTypes
  <1>2. \A u : RowsOf(u)' = RowsOf(u) \ ids
    BY <1>1 DEF RowsOf
  <1>3. \A u, p : RowsOfProduct(u, p)' = RowsOfProduct(u, p) \ ids
    BY <1>1, <1>2 DEF RowsOfProduct, RowsOf
  <1>4. ASSUME NEW u, ids \subseteq RowsOf(u) PROVE RowsChange(u)
    BY <1>1, <1>4 DEF RowsChange, RowsOf, TypeOK
  <1> QED
    BY <1>1, <1>2, <1>3, <1>4

LEMMA FinishStepOf ==
    ASSUME CartInv, NEW t \in Task, NEW u, u = who[t], pc[t] # "idle", Finish(t),
           RowsChange(u), OrdersChange(u),
           \A v \in User : v # u => hit'[v] = hit[v] /\ asked'[v] = asked[v]
    PROVE  StepOf(u)
  BY DEF StepOf, Finish, CartInv, ReplyInv, TypeOK

LEMMA MoveStepOf ==
    ASSUME CartInv, NEW t \in Task, NEW u, u = who[t], NEW label,
           pc' = [pc EXCEPT ![t] = label], UNCHANGED <<who, what, asked, hit>>,
           items' = items \/ \E rows : items' = [items EXCEPT ![t] = rows],
           RowsChange(u), OrdersChange(u)
    PROVE  StepOf(u)
  BY DEF StepOf, CartInv, ReplyInv, TypeOK

LEMMA SameTables ==
    ASSUME UNCHANGED <<carts, orders>>
    PROVE  \A u, p : /\ RowsOf(u)' = RowsOf(u)
                     /\ RowsOfProduct(u, p)' = RowsOfProduct(u, p)
                     /\ Units(u, p)' = Units(u, p)
                     /\ Ordered(u, p)' = Ordered(u, p)
  BY DEF RowsOf, RowsOfProduct, Units, Ordered, IsOrder

\* Outside a checkout a step that changes no number leaves the sums as they are.
LEMMA QuietSums ==
    ASSUME CartInv, NEW u \in User,
           \A p \in Listed : Units(u, p)' = Units(u, p) /\ Ordered(u, p)' = Ordered(u, p),
           asked'[u] = asked[u], hit'[u] = hit[u], ~ Ordering(u), ~ Ordering(u)'
    PROVE  SumsInv(u)'
  <1>1. \A p \in Listed : Worth(u, p)' = Worth(u, p) /\ Due(u, p)' = Due(u, p)
    BY DEF Worth, Due
  <1>2. \A t \in InFlight(u)' : ~ AtCheckout(t)'
    BY DEF Ordering, AtCheckout
  <1> QED
    BY <1>1, <1>2 DEF CartInv, SumsInv

LEMMA NotOrdering ==
    ASSUME CartInv, NEW t \in Task, NEW u, u = who[t], pc[t] # "idle",
           pc[t] \notin {"checkout_insert", "checkout_clear"}
    PROVE  ~ Ordering(u)
  BY OnlyTapOf DEF CartInv, ReplyInv, Ordering

\* A tap, an answer without a change, and an error.
LEMMA TapIsFine ==
    ASSUME MaxInFlight = 1, CartInv, NEW t \in Task, NEW u \in User, NEW p,
           NEW label \in {"add_select", "buy_lookup", "checkout_read"}, Tap(t, u, p, label)
    PROVE  OneTap' /\ StepOf(u) /\ RowsInv(u)' /\ SumsInv(u)'
  <1>1. InFlight(u) = {} /\ pc[t] = "idle" /\ who[t] = NULL /\ u # NULL
    BY NothingInFlight, NullAssumption DEF Tap, CartInv, ReplyInv, TypeOK
  <1>2. \A s \in Task : /\ who'[s] = IF s = t THEN u ELSE who[s]
                        /\ s # t => pc'[s] = pc[s] /\ what'[s] = what[s]
                        /\ items'[s] = items[s]
    BY DEF Tap, CartInv, ReplyInv, TypeOK
  <1>3. InFlight(u)' = {t} /\ pc'[t] = label
    BY <1>1, <1>2 DEF InFlight, Tap, CartInv, ReplyInv, TypeOK
  <1>4. OneTap'
    BY <1>1, <1>2 DEF CartInv, OneTap, InFlight
  <1>5. StepOf(u)
    <2>1. RowsChange(u) /\ OrdersChange(u)
      BY SameRows DEF Tap, OrdersChange, CartInv, ReplyInv
    <2> QED
      BY <2>1, <1>1, <1>2 DEF StepOf, Tap
  <1>6. RowsInv(u)'
    BY <1>3, SameTables DEF Tap, CartInv, RowsInv, SelectStands, ReadStands
  <1>7. SumsInv(u)'
    <2>1. ~ Ordering(u) /\ ~ Ordering(u)'
      BY <1>1, <1>3 DEF Ordering
    <2> QED
      BY <2>1, SameTables, QuietSums DEF Tap
  <1> QED
    BY <1>4, <1>5, <1>6, <1>7

LEMMA AddSelectIsFine ==
    ASSUME CartInv, NEW t \in Task, NEW u, u = who[t], AddSelect(t)
    PROVE  OneTap' /\ StepOf(u) /\ RowsInv(u)' /\ SumsInv(u)'
  <1>1. /\ pc[t] = "add_select"
        /\ UNCHANGED <<carts, orders, who, what, items, placed, total, taps, asked, hit>>
    BY DEF AddSelect, GoTo
  <1>2. PICK label : /\ pc' = [pc EXCEPT ![t] = label]
                     /\ \/ label = "add_update" /\ RowsOfProduct(u, what[t]) # {}
                        \/ label = "add_insert" /\ RowsOfProduct(u, what[t]) = {}
    BY DEF AddSelect, GoTo
  <1>3. u \in User /\ InFlight(u)' = {t} /\ who'[t] = u /\ OneTap' /\ pc'[t] = label
    BY <1>1, <1>2, MoveStays DEF CartInv, ReplyInv, TypeOK
  <1>4. StepOf(u)
    <2>1. RowsChange(u) /\ OrdersChange(u)
      BY <1>1, SameRows DEF OrdersChange, CartInv, ReplyInv
    <2> QED
      BY <2>1, <1>1, <1>2, MoveStepOf
  <1>5. RowsInv(u)'
    <2>1. SelectStands(t)' /\ ReadStands(t)'
      BY <1>1, <1>2, <1>3, SameTables DEF SelectStands, ReadStands
    <2> QED
      BY <2>1, <1>1, <1>3, SameTables DEF CartInv, RowsInv
  <1>6. SumsInv(u)'
    <2>1. ~ Ordering(u) /\ ~ Ordering(u)'
      BY <1>1, <1>2, <1>3, NotOrdering DEF Ordering
    <2> QED
      BY <2>1, <1>1, <1>3, SameTables, QuietSums
  <1> QED
    BY <1>3, <1>4, <1>5, <1>6

\* A handler that ends without a change to what is counted.
LEMMA EndIsFine ==
    ASSUME CartInv, NEW t \in Task, NEW u, u = who[t], Finish(t),
           pc[t] # "idle", pc[t] \notin {"checkout_insert", "checkout_clear"},
           UNCHANGED <<carts, orders, asked, hit>>
    PROVE  OneTap' /\ StepOf(u) /\ RowsInv(u)' /\ SumsInv(u)'
  <1>1. InFlight(u)' = {} /\ OneTap' /\ u \in User
    BY FinishEnds, OnlyTapOf DEF CartInv, ReplyInv
  <1>2. StepOf(u)
    <2>1. RowsChange(u) /\ OrdersChange(u)
      BY SameRows DEF OrdersChange, CartInv, ReplyInv
    <2> QED
      BY <2>1, FinishStepOf
  <1>3. RowsInv(u)'
    BY <1>1, SameTables DEF CartInv, RowsInv
  <1>4. SumsInv(u)'
    <2>1. ~ Ordering(u) /\ ~ Ordering(u)'
      BY <1>1, NotOrdering DEF Ordering
    <2> QED
      BY <2>1, <1>1, SameTables, QuietSums
  <1> QED
    BY <1>1, <1>2, <1>3, <1>4

\* One unit more of one product, in the cart or in an order, and one unit more
\* asked for.
LEMMA OneMoreAddsUp ==
    ASSUME CartInv, ReplyInv', NEW t \in Task, NEW u \in User, u = who[t], NEW x \in Product,
           InFlight(u)' = {}, ~ Ordering(u), hit'[u] = hit[u],
           \A p \in Product : asked'[u][p] = IF p = x THEN asked[u][p] + 1 ELSE asked[u][p],
           \A p \in Listed :
              \/ /\ Units(u, p)' = Units(u, p) + (IF p = x THEN 1 ELSE 0)
                 /\ Ordered(u, p)' = Ordered(u, p)
              \/ /\ Units(u, p)' = Units(u, p)
                 /\ Ordered(u, p)' = Ordered(u, p) + (IF p = x THEN Price[p] ELSE 0)
    PROVE  SumsInv(u)'
  <1>1. TypeOK /\ SumsInv(u)
    BY DEF CartInv, ReplyInv
  <1>2. ASSUME NEW p \in Listed
        PROVE  /\ Worth(u, p)' >= Due(u, p)'
               /\ hit'[u] = FALSE => Worth(u, p)' = Due(u, p)'
    <2>1. PICK k \in Nat : k = Units(u, p)
      BY <1>1, UnitsType
    <2>2. PICK m \in Nat : m = Ordered(u, p)
      BY <1>1, OrderedType
    <2>3. PICK c \in Nat : c = Price[p]
      BY CatalogAssumption
    <2>4. PICK a \in Nat : a = asked[u][p]
      BY <1>1, CatalogAssumption DEF TypeOK
    <2>5. Worth(u, p) = c * k + m /\ Due(u, p) = c * a
      BY <2>1, <2>2, <2>3, <2>4 DEF Worth, Due
    <2>6. c * k + m >= c * a /\ (hit[u] = FALSE => c * k + m = c * a)
      BY <1>1, <2>5 DEF SumsInv
    <2>7. p \in Product
      BY CatalogAssumption
    <2>8. CASE p = x
      <3>1. Due(u, p)' = c * (a + 1)
        BY <2>3, <2>4, <2>7, <2>8 DEF Due
      <3>2. Worth(u, p)' = c * (k + 1) + m \/ Worth(u, p)' = c * k + (m + c)
        BY <2>1, <2>2, <2>3, <2>8 DEF Worth
      <3>3. c * (k + 1) + m = (c * k + m) + c /\ c * k + (m + c) = (c * k + m) + c
            /\ c * (a + 1) = c * a + c
        OBVIOUS
      <3>4. c * k \in Nat /\ c * a \in Nat
        OBVIOUS
      <3> HIDE <2>1, <2>2, <2>3, <2>4
      <3> QED
        BY <3>1, <3>2, <3>3, <3>4, <2>6
    <2>9. CASE p # x
      <3>1. Due(u, p)' = c * a
        BY <2>3, <2>4, <2>7, <2>9 DEF Due
      <3>2. Worth(u, p)' = c * k + m
        BY <2>1, <2>2, <2>3, <2>9 DEF Worth
      <3> QED
        BY <3>1, <3>2, <2>6
    <2> QED
      BY <2>8, <2>9
  <1> QED
    BY <1>2 DEF SumsInv

\* A unit more of a product that has one row.
LEMMA UnitsBumped ==
    ASSUME TypeOK, TypeOK', NEW t \in Task, NEW u, u = who[t], carts' = BumpedRows(t),
           NEW p, NEW i \in RowsOfProduct(u, what[t]),
           \A j \in RowsOfProduct(u, what[t]) : j = i
    PROVE  Units(u, p)' = Units(u, p) + (IF p = what[t] THEN 1 ELSE 0)
  <1>1. /\ Len(carts') = Len(carts)
        /\ RowsOfProduct(u, p)' = RowsOfProduct(u, p)
        /\ carts'[i].qty = carts[i].qty + 1
        /\ i \in 1..Len(carts)
        /\ \A j \in 1..Len(carts) : j # i => carts'[j] = carts[j]
    <2>1. i \in 1..Len(carts)
      BY DEF RowsOfProduct, RowsOf
    <2>2. /\ Len(carts') = Len(carts)
          /\ \A v, q : RowsOfProduct(v, q)' = RowsOfProduct(v, q)
          /\ \A j \in 1..Len(carts) :
                /\ j \in RowsOfProduct(u, what[t]) => carts'[j].qty = carts[j].qty + 1
                /\ j \notin RowsOfProduct(u, what[t]) => carts'[j] = carts[j]
      BY BumpedRowsOf
    <2> QED
      BY <2>1, <2>2
  <1>2. CASE p # what[t]
    <2>1. i \notin RowsOfProduct(u, p)
      BY <1>2 DEF RowsOfProduct
    <2>2. \A j \in RowsOfProduct(u, p) : carts'[j].qty = carts[j].qty
      BY <1>1, <2>1 DEF RowsOfProduct, RowsOf
    <2>3. Units(u, p)' = Units(u, p) /\ Units(u, p) \in Nat
      BY <1>1, <2>2, SameUnits, UnitsType
    <2> QED
      BY <1>2, <2>3
  <1>3. CASE p = what[t]
    <2>1. PICK s \in Seq(Nat) : s = UnitsIn(u, p) /\ Len(s) = Len(carts)
      BY UnitsType
    <2>2. PICK r \in Seq(Nat) : r = UnitsIn(u, p)' /\ Len(r) = Len(carts)
      BY <1>1, SumsTypedNext DEF SumsTyped
    <2>3. /\ \A j \in 1..Len(carts) : j # i => r[j] = s[j]
          /\ r[i] = s[i] + 1
      BY <1>1, <1>3, <2>1, <2>2 DEF UnitsIn
    <2>4. SumOf(r) + s[i] = SumOf(s) + r[i]
      <3>1. Len(r) = Len(s) /\ i \in 1..Len(s) /\ \A j \in 1..Len(s) : j # i => r[j] = s[j]
        BY <1>1, <2>1, <2>2, <2>3
      <3> QED
        BY <3>1, SumOfChange
    <2>5. s[i] \in Nat /\ SumOf(s) \in Nat /\ SumOf(r) \in Nat
      BY <1>1, <2>1, SumType
    <2>6. SumOf(r) = SumOf(s) + 1
      BY <2>3, <2>4, <2>5
    <2> QED
      BY <1>3, <2>1, <2>2, <2>6 DEF Units, UnitsIn
  <1> QED
    BY <1>2, <1>3

LEMMA AddUpdateIsFine ==
    ASSUME CartInv, ReplyInv', NEW t \in Task, NEW u, u = who[t], AddUpdate(t)
    PROVE  OneTap' /\ StepOf(u) /\ RowsInv(u)' /\ SumsInv(u)'
  <1>1. /\ pc[t] = "add_update" /\ pc[t] # "idle" /\ Finish(t) /\ AskOne(t)
        /\ carts' = BumpedRows(t) /\ orders' = orders /\ hit' = hit
    BY DEF AddUpdate
  <1>2. TypeOK /\ TypeOK' /\ what[t] \in Product
    BY <1>1 DEF CartInv, ReplyInv, Tapped
  <1>3. InFlight(u)' = {} /\ OneTap' /\ u \in User /\ t \in InFlight(u)
    BY <1>1, FinishEnds, OnlyTapOf DEF CartInv, ReplyInv
  <1>4. \A v \in User, p \in Product :
           asked'[v][p] = IF v = u /\ p = what[t] THEN asked[v][p] + 1 ELSE asked[v][p]
    BY <1>1, <1>2, <1>3, AskTypes
  <1>5. StepOf(u)
    <2>1. RowsChange(u) /\ OrdersChange(u)
      BY <1>1, <1>2, BumpedRowsOf DEF OrdersChange
    <2>2. \A v \in User : v # u => asked'[v] = asked[v]
      BY <1>1 DEF AskOne, CartInv, ReplyInv, TypeOK
    <2> QED
      BY <2>1, <2>2, <1>1, FinishStepOf
  <1>6. RowsInv(u)'
    <2>1. \A p : RowsOfProduct(u, p)' = RowsOfProduct(u, p)
      BY <1>1, <1>2, BumpedRowsOf
    <2> QED
      BY <2>1, <1>3 DEF CartInv, RowsInv
  <1>7. SumsInv(u)'
    <2>1. PICK i : /\ i \in RowsOfProduct(u, what[t])
                   /\ \A j \in RowsOfProduct(u, what[t]) : j = i
      BY <1>1, <1>2, <1>3 DEF CartInv, RowsInv, SelectStands
    <2>2. \A p \in Listed : Units(u, p)' = Units(u, p) + (IF p = what[t] THEN 1 ELSE 0)
      BY <1>1, <1>2, <2>1, UnitsBumped
    <2>3. \A p \in Listed : Ordered(u, p)' = Ordered(u, p)
      BY <1>1 DEF Ordered, IsOrder
    <2>4. ~ Ordering(u) /\ hit'[u] = hit[u]
      BY <1>1, NotOrdering
    <2> QED
      BY <1>2, <1>3, <1>4, <2>2, <2>3, <2>4, OneMoreAddsUp
  <1> QED
    BY <1>3, <1>5, <1>6, <1>7

LEMMA RowsInserted ==
    ASSUME TypeOK, TypeOK', NEW row \in CartRow, carts' = Append(carts, row), NEW u, NEW p
    PROVE  /\ RowsOfProduct(u, p)' = RowsOfProduct(u, p) \cup
                 (IF row.user = u /\ row.product = p THEN {Len(carts) + 1} ELSE {})
           /\ Units(u, p)' = Units(u, p) +
                 (IF row.user = u /\ row.product = p THEN row.qty ELSE 0)
  <1>1. PICK n \in Nat : n = Len(carts)
    BY DEF TypeOK
  <1>2. /\ Len(carts') = n + 1
        /\ carts'[n + 1] = row
        /\ \A i \in 1..n : carts'[i] = carts[i]
        /\ row # NULL
    BY <1>1, InsertTypes, NullAssumption
  <1>3. \A i \in 1..n : i \in RowsOfProduct(u, p)' <=> i \in RowsOfProduct(u, p)
    BY <1>1, <1>2 DEF RowsOfProduct, RowsOf
  <1>4. n + 1 \in RowsOfProduct(u, p)' <=> row.user = u /\ row.product = p
    BY <1>1, <1>2 DEF RowsOfProduct, RowsOf
  <1>5. RowsOfProduct(u, p)' \subseteq 1..(n + 1) /\ RowsOfProduct(u, p) \subseteq 1..n
    BY <1>1, <1>2 DEF RowsOfProduct, RowsOf
  <1>6. RowsOfProduct(u, p)' = RowsOfProduct(u, p) \cup
           (IF row.user = u /\ row.product = p THEN {n + 1} ELSE {})
    BY <1>3, <1>4, <1>5
  <1>7. PICK a \in Nat : a = IF row.user = u /\ row.product = p THEN row.qty ELSE 0
    BY DEF CartRow
  <1>8. PICK s \in Seq(Nat) : s = UnitsIn(u, p) /\ Len(s) = n
    BY <1>1, UnitsType
  <1>9. PICK r \in Seq(Nat) : r = UnitsIn(u, p)' /\ Len(r) = n + 1
    BY <1>2, SumsTypedNext DEF SumsTyped
  <1>10. PICK e : e = Append(s, a)
    OBVIOUS
  <1>11. e \in Seq(Nat) /\ Len(e) = n + 1 /\ e[n + 1] = a /\ \A i \in 1..n : e[i] = s[i]
    BY <1>8, <1>10
  <1>12. \A i \in 1..(n + 1) : r[i] = e[i]
    <2>1. \A i \in 1..(n + 1) : r[i] = IF i \in RowsOfProduct(u, p)' THEN carts'[i].qty ELSE 0
      BY <1>2, <1>9 DEF UnitsIn
    <2>2. \A i \in 1..n : s[i] = IF i \in RowsOfProduct(u, p) THEN carts[i].qty ELSE 0
      BY <1>1, <1>8 DEF UnitsIn
    <2>3. ASSUME NEW i \in 1..n PROVE r[i] = e[i]
      <3>1. r[i] = IF i \in RowsOfProduct(u, p)' THEN carts'[i].qty ELSE 0
        <4>1. i \in 1..(n + 1)
          OBVIOUS
        <4> HIDE DEF RowsOfProduct
        <4> QED
          BY <2>1, <4>1
      <3>2. s[i] = IF i \in RowsOfProduct(u, p) THEN carts[i].qty ELSE 0
        BY <2>2
      <3>3. carts'[i] = carts[i] /\ (i \in RowsOfProduct(u, p)' <=> i \in RowsOfProduct(u, p))
        BY <1>2, <1>3
      <3> QED
        BY <3>1, <3>2, <3>3, <1>11
    <2>4. r[n + 1] = e[n + 1]
      BY <2>1, <1>2, <1>4, <1>7, <1>11
    <2> QED
      BY <2>3, <2>4
  <1>13. r = e
    BY <1>9, <1>11, <1>12, SeqEqual
  <1>14. SumOf(r) = SumOf(s) + a
    BY <1>10, <1>13, SumOfAppend
  <1>15. Units(u, p) = SumOf(s) /\ Units(u, p)' = SumOf(r)
    BY <1>8, <1>9 DEF Units, UnitsIn
  <1> QED
    BY <1>1, <1>6, <1>7, <1>14, <1>15

LEMMA AddInsertIsFine ==
    ASSUME CartInv, ReplyInv', NEW t \in Task, NEW u, u = who[t], AddInsert(t)
    PROVE  OneTap' /\ StepOf(u) /\ RowsInv(u)' /\ SumsInv(u)'
  <1>1. PICK row : row = [user |-> u, product |-> what[t], qty |-> 1]
    OBVIOUS
  <1>2. /\ pc[t] = "add_insert" /\ pc[t] # "idle" /\ Finish(t) /\ AskOne(t)
        /\ carts' = Append(carts, row) /\ orders' = orders /\ hit' = hit
    BY <1>1 DEF AddInsert
  <1>3. TypeOK /\ TypeOK' /\ what[t] \in Product
    BY <1>2 DEF CartInv, ReplyInv, Tapped
  <1>4. InFlight(u)' = {} /\ OneTap' /\ u \in User /\ t \in InFlight(u)
    BY <1>2, FinishEnds, OnlyTapOf DEF CartInv, ReplyInv
  <1>5. row \in CartRow /\ row.user = u /\ row.product = what[t] /\ row.qty = 1
    BY <1>1, <1>3, <1>4 DEF CartRow
  <1>6. \A v \in User, p \in Product :
           asked'[v][p] = IF v = u /\ p = what[t] THEN asked[v][p] + 1 ELSE asked[v][p]
    BY <1>2, <1>3, <1>4, AskTypes
  <1>7. StepOf(u)
    <2>1. RowsChange(u) /\ OrdersChange(u)
      BY <1>2, <1>3, <1>5, InsertedRows DEF OrdersChange
    <2>2. \A v \in User : v # u => asked'[v] = asked[v]
      BY <1>2 DEF AskOne, CartInv, ReplyInv, TypeOK
    <2> QED
      BY <2>1, <2>2, <1>2, FinishStepOf
  <1>8. RowsInv(u)'
    <2>1. RowsOfProduct(u, what[t]) = {}
      BY <1>2, <1>4 DEF CartInv, RowsInv, SelectStands
    <2>2. ASSUME NEW p \in Product PROVE \A i, j \in RowsOfProduct(u, p)' : i = j
      <3>1. RowsOfProduct(u, p)' = RowsOfProduct(u, p) \cup
               (IF what[t] = p THEN {Len(carts) + 1} ELSE {})
        BY <1>2, <1>3, <1>5, RowsInserted
      <3> QED
        BY <2>1, <3>1, <1>4 DEF CartInv, RowsInv
    <2> QED
      BY <2>2, <1>4 DEF RowsInv
  <1>9. SumsInv(u)'
    <2>1. \A p \in Listed : Units(u, p)' = Units(u, p) + (IF p = what[t] THEN 1 ELSE 0)
      BY <1>2, <1>3, <1>5, RowsInserted
    <2>2. \A p \in Listed : Ordered(u, p)' = Ordered(u, p)
      BY <1>2 DEF Ordered, IsOrder
    <2>3. ~ Ordering(u) /\ hit'[u] = hit[u]
      BY <1>2, NotOrdering
    <2> QED
      BY <1>3, <1>4, <1>6, <2>1, <2>2, <2>3, OneMoreAddsUp
  <1> QED
    BY <1>4, <1>7, <1>8, <1>9

LEMMA BuyLookupIsFine ==
    ASSUME CartInv, NEW t \in Task, NEW u, u = who[t], BuyLookup(t)
    PROVE  OneTap' /\ StepOf(u) /\ RowsInv(u)' /\ SumsInv(u)'
  <1>1. pc[t] = "buy_lookup" /\ pc[t] # "idle" /\ UNCHANGED <<carts, orders, asked, hit>>
    BY DEF BuyLookup
  <1>2. CASE what[t] \in Listed
    <2>1. pc' = [pc EXCEPT ![t] = "buy_insert"] /\ UNCHANGED <<who, what, items>>
      BY <1>2 DEF BuyLookup, GoTo
    <2>2. u \in User /\ InFlight(u)' = {t} /\ OneTap' /\ pc'[t] = "buy_insert"
      BY <1>1, <2>1, MoveStays DEF CartInv, ReplyInv, TypeOK
    <2>3. StepOf(u)
      <3>1. RowsChange(u) /\ OrdersChange(u)
        BY <1>1, SameRows DEF OrdersChange, CartInv, ReplyInv
      <3> QED
        BY <3>1, <1>1, <2>1, MoveStepOf
    <2>4. RowsInv(u)'
      <3>1. SelectStands(t)' /\ ReadStands(t)'
        BY <2>2 DEF SelectStands, ReadStands
      <3> QED
        BY <3>1, <1>1, <2>2, SameTables DEF CartInv, RowsInv
    <2>5. SumsInv(u)'
      <3>1. ~ Ordering(u) /\ ~ Ordering(u)'
        BY <1>1, <2>2, NotOrdering DEF Ordering
      <3> QED
        BY <3>1, <1>1, <2>2, SameTables, QuietSums
    <2> QED
      BY <2>2, <2>3, <2>4, <2>5
  <1>3. CASE what[t] \notin Listed
    BY <1>1, <1>3, EndIsFine DEF BuyLookup
  <1> QED
    BY <1>2, <1>3

LEMMA BuyInsertIsFine ==
    ASSUME CartInv, ReplyInv', NEW t \in Task, NEW u, u = who[t], BuyInsert(t)
    PROVE  OneTap' /\ StepOf(u) /\ RowsInv(u)' /\ SumsInv(u)'
  <1>1. PICK o : o = NewOrder(u, what[t], Price[what[t]])
    OBVIOUS
  <1>2. /\ pc[t] = "buy_insert" /\ pc[t] # "idle" /\ Finish(t) /\ AskOne(t)
        /\ orders' = Append(orders, o) /\ carts' = carts /\ hit' = hit
    BY <1>1 DEF BuyInsert
  <1>3. /\ TypeOK /\ TypeOK' /\ what[t] \in Listed /\ what[t] \in Product
        /\ Price[what[t]] \in Nat
    BY <1>2, CatalogAssumption DEF CartInv, ReplyInv, Tapped
  <1>4. InFlight(u)' = {} /\ OneTap' /\ u \in User
    BY <1>2, FinishEnds, OnlyTapOf DEF CartInv, ReplyInv
  <1>5. o \in Order /\ o.user = u /\ o.product = what[t] /\ o.amount = Price[what[t]]
    BY <1>1, <1>3, <1>4 DEF NewOrder, Order
  <1>6. \A v \in User, p \in Product :
           asked'[v][p] = IF v = u /\ p = what[t] THEN asked[v][p] + 1 ELSE asked[v][p]
    BY <1>2, <1>3, <1>4, AskTypes
  <1>7. StepOf(u)
    <2>1. RowsChange(u) /\ OrdersChange(u)
      BY <1>2, <1>3, <1>5, SameRows DEF OrdersChange
    <2>2. \A v \in User : v # u => asked'[v] = asked[v]
      BY <1>2 DEF AskOne, CartInv, ReplyInv, TypeOK
    <2> QED
      BY <2>1, <2>2, <1>2, FinishStepOf
  <1>8. RowsInv(u)'
    BY <1>2, <1>4 DEF CartInv, RowsInv, RowsOfProduct, RowsOf
  <1>9. SumsInv(u)'
    <2>1. \A p \in Listed : Units(u, p)' = Units(u, p)
      BY <1>2 DEF Units, RowsOfProduct, RowsOf
    <2>2. ASSUME NEW p \in Listed
          PROVE  Ordered(u, p)' = Ordered(u, p) + (IF p = what[t] THEN Price[p] ELSE 0)
      <3>1. Ordered(u, p)' = Ordered(u, p) +
               (IF o.user = u /\ o.product = p THEN o.amount ELSE 0)
        BY <1>2, <1>3, <1>5, OrderedGrows
      <3> QED
        BY <3>1, <1>5
    <2>3. ~ Ordering(u) /\ hit'[u] = hit[u]
      BY <1>2, NotOrdering
    <2> QED
      BY <1>3, <1>4, <1>6, <2>1, <2>2, <2>3, OneMoreAddsUp
  <1> QED
    BY <1>4, <1>7, <1>8, <1>9

LEMMA FailIsFine ==
    ASSUME CartInv, NEW t \in Task, NEW u, u = who[t], Fail(t)
    PROVE  OneTap' /\ StepOf(u) /\ RowsInv(u)' /\ SumsInv(u)'
  <1>1. /\ pc[t] # "idle" /\ Finish(t) /\ UNCHANGED <<carts, orders, asked>>
        /\ hit' = [hit EXCEPT ![u] = TRUE]
    BY DEF Fail
  <1>2. InFlight(u)' = {} /\ OneTap' /\ u \in User
    BY <1>1, FinishEnds, OnlyTapOf DEF CartInv, ReplyInv
  <1>3. hit'[u] = TRUE /\ \A v \in User : v # u => hit'[v] = hit[v]
    BY <1>1, <1>2 DEF CartInv, ReplyInv, TypeOK
  <1>4. StepOf(u)
    <2>1. RowsChange(u) /\ OrdersChange(u)
      BY <1>1, SameRows DEF OrdersChange, CartInv, ReplyInv
    <2> QED
      BY <2>1, <1>1, <1>3, FinishStepOf
  <1>5. RowsInv(u)'
    BY <1>1, <1>2, SameTables DEF CartInv, RowsInv
  <1>6. SumsInv(u)'
    <2>1. \A p \in Listed : Worth(u, p)' = Worth(u, p) /\ Due(u, p)' = Due(u, p)
      BY <1>1, SameTables DEF Worth, Due
    <2> QED
      BY <2>1, <1>2, <1>3 DEF CartInv, SumsInv
  <1> QED
    BY <1>2, <1>4, <1>5, <1>6

\* At any other time the cart and the orders are what is due.
LEMMA WorthIsDue ==
    ASSUME CartInv, NEW u \in User, NEW p \in Listed
    PROVE  /\ Worth(u, p) >= Due(u, p)
           /\ hit[u] = FALSE /\ ~ Ordering(u) => Worth(u, p) = Due(u, p)
  BY DEF CartInv, SumsInv

\* Of listed products a checkout reads all the units there are.
LEMMA ReadAddsUp ==
    ASSUME TypeOK, NEW u \in User, NEW p \in Listed, NEW rows, rows = CartOf(u)
    PROVE  SumOf([i \in 1..Len(rows) |->
                     IF i \in Positions(rows) /\ rows[i].product = p THEN rows[i].qty ELSE 0])
             = Units(u, p)
  <1>1. /\ Len(rows) = Len(carts)
        /\ Positions(rows) = {i \in RowsOf(u) : carts[i].product \in Listed}
        /\ \A i \in Positions(rows) : rows[i] = carts[i]
    BY ReadTypes
  <1>2. \A i : i \in Positions(rows) /\ rows[i].product = p <=> i \in RowsOfProduct(u, p)
    BY <1>1 DEF RowsOfProduct
  <1>3. \A i \in RowsOfProduct(u, p) : rows[i].qty = carts[i].qty
    BY <1>1, <1>2
  <1>4. [i \in 1..Len(rows) |->
           IF i \in Positions(rows) /\ rows[i].product = p THEN rows[i].qty ELSE 0]
          = [i \in 1..Len(carts) |-> IF i \in RowsOfProduct(u, p) THEN carts[i].qty ELSE 0]
    BY <1>1, <1>2, <1>3
  <1> QED
    BY <1>4 DEF Units

LEMMA ReadIsFine ==
    ASSUME CartInv, NEW t \in Task, NEW u, u = who[t], CheckoutRead(t)
    PROVE  OneTap' /\ StepOf(u) /\ RowsInv(u)' /\ SumsInv(u)'
  <1>1. pc[t] = "checkout_read" /\ pc[t] # "idle" /\ UNCHANGED <<carts, orders, asked, hit>>
    BY DEF CheckoutRead, GoTo
  <1>2. CASE Positions(CartOf(u)) = {}
    BY <1>1, <1>2, EndIsFine DEF CheckoutRead
  <1>3. CASE Positions(CartOf(u)) # {}
    <2>1. PICK rows : rows = CartOf(u)
      OBVIOUS
    <2>2. /\ pc' = [pc EXCEPT ![t] = "checkout_insert"]
          /\ items' = [items EXCEPT ![t] = rows]
          /\ UNCHANGED <<who, what>>
      BY <1>3, <2>1 DEF CheckoutRead, GoTo
    <2>3. /\ u \in User /\ InFlight(u)' = {t} /\ OneTap' /\ who'[t] = u
          /\ pc'[t] = "checkout_insert" /\ items'[t] = rows
      BY <1>1, <2>2, MoveStays DEF CartInv, ReplyInv, TypeOK
    <2>4. TypeOK
      BY DEF CartInv, ReplyInv
    <2>5. StepOf(u)
      <3>1. RowsChange(u) /\ OrdersChange(u)
        BY <1>1, SameRows DEF OrdersChange, CartInv, ReplyInv
      <3> QED
        BY <3>1, <1>1, <2>2, MoveStepOf
    <2>6. RowsInv(u)'
      <3>1. \A i \in Positions(rows) : i \in 1..Len(carts) /\ rows[i] = carts[i]
        BY <2>1, <2>3, <2>4, ReadTypes DEF RowsOf
      <3>2. Positions(items[t])' = Positions(rows)
        BY <2>3 DEF Positions
      <3>3. SelectStands(t)' /\ ReadStands(t)'
        BY <1>1, <2>3, <3>1, <3>2 DEF SelectStands, ReadStands
      <3> QED
        BY <3>3, <1>1, <2>3, SameTables DEF CartInv, RowsInv
    <2>7. SumsInv(u)'
      <3> SUFFICES ASSUME NEW p \in Listed
                   PROVE  /\ Worth(u, p)' >= Due(u, p)'
                          /\ hit'[u] = FALSE /\ ~ Ordering(u)' => Worth(u, p)' = Due(u, p)'
                          /\ RestAddsUp(t, p)'
        BY <2>3 DEF SumsInv
      <3>1. /\ Worth(u, p)' = Worth(u, p) /\ Due(u, p)' = Due(u, p)
            /\ Ordered(u, p)' = Ordered(u, p)
        BY <1>1, SameTables DEF Worth, Due
      <3>2. Ordering(u)' /\ ~ Ordering(u)
        BY <1>1, <2>3, NotOrdering DEF Ordering
      <3>3. Rest(t, p)' = Units(u, p)
        <4>1. RestIn(t, p)' = [i \in 1..Len(rows) |->
                 IF i \in Positions(rows) /\ rows[i].product = p THEN rows[i].qty ELSE 0]
          BY <2>3 DEF RestIn, Positions
        <4> QED
          BY <4>1, <2>1, <2>3, <2>4, ReadAddsUp DEF Rest
      <3>4. Worth(u, p) = Ordered(u, p) + Price[p] * Units(u, p)
        <4>1. Ordered(u, p) \in Nat /\ Units(u, p) \in Nat /\ Price[p] \in Nat
          BY <2>4, OrderedType, UnitsType, CatalogAssumption
        <4>2. \A a, b, c \in Nat : c * b + a = a + c * b
          OBVIOUS
        <4> QED
          BY <4>1, <4>2 DEF Worth
      <3>5. hit'[u] = hit[u]
        BY <1>1
      <3>6. RestAddsUp(t, p)'
        BY <2>3, <3>1, <3>2, <3>3, <3>4, <3>5, WorthIsDue DEF RestAddsUp
      <3> QED
        BY <2>3, <3>1, <3>2, <3>6, WorthIsDue
    <2> QED
      BY <2>3, <2>5, <2>6, <2>7
  <1> QED
    BY <1>2, <1>3

LEMMA NoUnits ==
    ASSUME TypeOK', NEW u, NEW p, RowsOfProduct(u, p)' = {}
    PROVE  Units(u, p)' = 0
  <1>1. PICK r \in Seq(Nat) : r = UnitsIn(u, p)'
    BY SumsTypedNext DEF SumsTyped
  <1>2. \A i \in 1..Len(r) : r[i] = 0
    BY <1>1, SumsTypedNext DEF SumsTyped, UnitsIn
  <1>3. SumOf(r) = 0
    BY <1>2, SumOfZeros
  <1> QED
    BY <1>1, <1>3 DEF Units, UnitsIn

LEMMA ClearIsFine ==
    ASSUME CartInv, ReplyInv', NEW t \in Task, NEW u, u = who[t], CheckoutClear(t)
    PROVE  OneTap' /\ StepOf(u) /\ RowsInv(u)' /\ SumsInv(u)'
  <1>1. /\ pc[t] = "checkout_clear" /\ pc[t] # "idle"
        /\ pc' = [pc EXCEPT ![t] = "checkout_reply"]
        /\ Delete(RowsOf(u))
        /\ UNCHANGED <<orders, who, what, items, asked, hit>>
    BY DEF CheckoutClear, GoTo
  <1>2. /\ u \in User /\ InFlight(u)' = {t} /\ InFlight(u) = {t} /\ OneTap' /\ who'[t] = u
        /\ pc'[t] = "checkout_reply"
    BY <1>1, MoveStays, OnlyTapOf DEF CartInv, ReplyInv, TypeOK
  <1>3. TypeOK /\ TypeOK'
    BY DEF CartInv, ReplyInv
  <1>4. RowsChange(u) /\ \A p : RowsOfProduct(u, p)' = {}
    BY <1>1, <1>3, DeletedRows DEF RowsOfProduct
  <1>5. StepOf(u)
    BY <1>1, <1>4, MoveStepOf DEF OrdersChange
  <1>6. RowsInv(u)'
    BY <1>2, <1>4 DEF RowsInv, SelectStands, ReadStands
  <1>7. SumsInv(u)'
    <2> SUFFICES ASSUME NEW p \in Listed
                 PROVE  /\ Worth(u, p)' >= Due(u, p)'
                        /\ hit'[u] = FALSE => Worth(u, p)' = Due(u, p)'
      BY <1>2 DEF SumsInv, AtCheckout
    <2>1. Units(u, p)' = 0
      BY <1>3, <1>4, NoUnits
    <2>2. Rest(t, p) = 0
      <3>1. Positions(items[t]) = {}
        BY <1>1, <1>2 DEF CartInv, RowsInv, ReadStands
      <3>2. RestIn(t, p) \in Seq(Nat) /\ \A i \in 1..Len(RestIn(t, p)) : RestIn(t, p)[i] = 0
        <4>1. RestIn(t, p) = [i \in 1..Len(items[t]) |-> 0]
          BY <3>1 DEF RestIn
        <4>2. Len(items[t]) \in Nat
          BY <1>3 DEF TypeOK
        <4> QED
          BY <4>1, <4>2
      <3> QED
        BY <3>2, SumOfZeros DEF Rest
    <2>3. Ordered(u, p)' = Ordered(u, p) /\ Due(u, p)' = Due(u, p)
      BY <1>1 DEF Ordered, IsOrder, Due
    <2>4. PICK c \in Nat, m \in Nat : c = Price[p] /\ m = Ordered(u, p)
      BY <1>3, OrderedType, CatalogAssumption
    <2>5. Worth(u, p)' = c * 0 + m
      BY <2>1, <2>3, <2>4 DEF Worth
    <2>6. RestAddsUp(t, p)
      BY <1>1, <1>2 DEF CartInv, SumsInv, AtCheckout
    <2>7. m + c * 0 >= Due(u, p) /\ (hit[u] = FALSE => m + c * 0 = Due(u, p))
      BY <2>2, <2>4, <2>6 DEF RestAddsUp
    <2>8. c * 0 + m = m /\ m + c * 0 = m
      OBVIOUS
    <2> QED
      BY <1>1, <2>3, <2>5, <2>7, <2>8
  <1> QED
    BY <1>2, <1>5, <1>6, <1>7

LEMMA RestType ==
    ASSUME TypeOK, NEW t \in Task, NEW p
    PROVE  RestIn(t, p) \in Seq(Nat) /\ Len(RestIn(t, p)) = Len(items[t]) /\ Rest(t, p) \in Nat
  <1>1. PICK n \in Nat : n = Len(items[t])
    BY DEF TypeOK
  <1>2. \A i \in Positions(items[t]) : items[t][i] \in CartRow
    BY DEF Positions, TypeOK
  <1>3. \A i \in Positions(items[t]) : items[t][i].qty \in Nat
    BY <1>2 DEF CartRow
  <1>4. RestIn(t, p) \in [1..n -> Nat]
    BY <1>1, <1>3 DEF RestIn
  <1>5. RestIn(t, p) \in Seq(Nat) /\ Len(RestIn(t, p)) = n
    BY <1>4
  <1> QED
    BY <1>1, <1>5, SumType DEF Rest

RestTyped ==
    \A t \in Task : \A p :
        RestIn(t, p) \in Seq(Nat) /\ Len(RestIn(t, p)) = Len(items[t])

LEMMA RestTypedNext == TypeOK' => RestTyped'
  <1>1. TypeOK => RestTyped
    BY RestType DEF RestTyped
  <1> QED
    BY <1>1, PTL

\* What one turn of checkout's loop leaves to be ordered.
LEMMA RestShrinks ==
    ASSUME TypeOK, TypeOK', NEW t \in Task, NEW i \in Positions(items[t]),
           items' = [items EXCEPT ![t][i] = NULL], NEW p
    PROVE  /\ Positions(items'[t]) = Positions(items[t]) \ {i}
           /\ \A j \in Positions(items'[t]) : items'[t][j] = items[t][j]
           /\ Rest(t, p)' + (IF items[t][i].product = p THEN items[t][i].qty ELSE 0) = Rest(t, p)
  <1>1. PICK n \in Nat : n = Len(items[t])
    BY DEF TypeOK
  <1>2. PICK new : new = items'[t]
    OBVIOUS
  <1>3. i \in 1..n /\ items[t][i] # NULL
    BY <1>1 DEF Positions
  <1>4. new = [items[t] EXCEPT ![i] = NULL] /\ items[t] \in Seq(CartRow \cup {NULL})
    BY <1>2 DEF TypeOK
  <1>5. /\ new \in Seq(CartRow \cup {NULL})
        /\ Len(new) = n
        /\ new[i] = NULL
        /\ \A j \in 1..n : j # i => new[j] = items[t][j]
    BY <1>1, <1>3, <1>4, ExceptSeq
  <1>6. Positions(new) = Positions(items[t]) \ {i}
    BY <1>1, <1>5 DEF Positions
  <1>7. \A j \in Positions(new) : new[j] = items[t][j]
    BY <1>5 DEF Positions
  <1>8. PICK s \in Seq(Nat) : s = RestIn(t, p) /\ Len(s) = n
    BY <1>1, RestType
  <1>9. PICK r \in Seq(Nat) : r = RestIn(t, p)' /\ Len(r) = n
    BY <1>2, <1>5, RestTypedNext DEF RestTyped
  <1>10. \A j \in 1..n :
            s[j] = IF j \in Positions(items[t]) /\ items[t][j].product = p
                   THEN items[t][j].qty ELSE 0
    BY <1>1, <1>8 DEF RestIn
  <1>11. \A j \in 1..n :
            r[j] = IF j \in Positions(new) /\ new[j].product = p THEN new[j].qty ELSE 0
    BY <1>2, <1>5, <1>9 DEF RestIn, Positions
  <1>12. r[i] = 0 /\ s[i] = IF items[t][i].product = p THEN items[t][i].qty ELSE 0
    BY <1>3, <1>6, <1>10, <1>11
  <1>13. ASSUME NEW j \in 1..n, j # i PROVE r[j] = s[j]
    <2>1. new[j] = items[t][j] /\ (j \in Positions(new) <=> j \in Positions(items[t]))
      BY <1>5, <1>6, <1>13
    <2> QED
      BY <2>1, <1>10, <1>11
  <1>14. SumOf(r) + s[i] = SumOf(s) + r[i]
    BY <1>3, <1>8, <1>9, <1>13, SumOfChange
  <1>15. SumOf(s) \in Nat
    BY SumType
  <1>16. SumOf(r) + s[i] = SumOf(s)
    BY <1>12, <1>14, <1>15
  <1>17. Rest(t, p) = SumOf(s) /\ Rest(t, p)' = SumOf(r)
    BY <1>8, <1>9 DEF Rest
  <1> QED
    BY <1>2, <1>6, <1>7, <1>12, <1>16, <1>17

LEMMA InsertIsFine ==
    ASSUME CartInv, ReplyInv', NEW t \in Task, NEW u, u = who[t], CheckoutInsert(t)
    PROVE  OneTap' /\ StepOf(u) /\ RowsInv(u)' /\ SumsInv(u)'
  <1>1. PICK i \in Positions(items[t]) :
           LET item == items[t][i]
               amount == Price[item.product] * item.qty IN
           /\ pc[t] = "checkout_insert"
           /\ orders' = Append(orders, NewOrder(who[t], item.product, amount))
           /\ placed' = [placed EXCEPT ![t] = Append(@, Len(orders) + 1)]
           /\ total' = [total EXCEPT ![t] = @ + amount]
           /\ items' = [items EXCEPT ![t][i] = NULL]
           /\ pc' = [pc EXCEPT ![t] = IF Positions(items[t]) = {i} THEN "checkout_clear" ELSE @]
           /\ UNCHANGED <<carts, who, what, taps, asked, hit>>
    BY DEF CheckoutInsert
  <1>2. PICK x, q, a : x = items[t][i].product /\ q = items[t][i].qty /\ a = Price[x] * q
    OBVIOUS
  <1>3. PICK o : o = NewOrder(u, x, a)
    OBVIOUS
  <1>4. PICK label : label = IF Positions(items[t]) = {i} THEN "checkout_clear" ELSE pc[t]
    OBVIOUS
  <1>5. /\ pc[t] = "checkout_insert" /\ pc[t] # "idle"
        /\ orders' = Append(orders, o)
        /\ items' = [items EXCEPT ![t][i] = NULL]
        /\ pc' = [pc EXCEPT ![t] = label]
        /\ UNCHANGED <<carts, who, what, asked, hit>>
    BY <1>1, <1>2, <1>3, <1>4
  <1>6. TypeOK /\ TypeOK' /\ ReplyInv
    BY DEF CartInv, ReplyInv
  <1>7. /\ u \in User /\ InFlight(u)' = {t} /\ InFlight(u) = {t} /\ OneTap' /\ who'[t] = u
        /\ pc'[t] = label /\ label \in {"checkout_insert", "checkout_clear"}
    BY <1>4, <1>5, <1>6, MoveStays, OnlyTapOf DEF CartInv, TypeOK
  <1>8. /\ x \in Listed /\ Price[x] \in Nat /\ q \in Nat \ {0} /\ a \in Nat
        /\ o \in Order /\ o.user = u /\ o.product = x /\ o.amount = a
    BY <1>2, <1>3, <1>5, <1>6, InsertFacts DEF NewOrder
  <1>9. StepOf(u)
    <2>1. RowsChange(u) /\ OrdersChange(u)
      BY <1>5, <1>6, <1>8, SameRows DEF OrdersChange
    <2>2. \E rows : items' = [items EXCEPT ![t] = rows]
      <3>1. items' = [items EXCEPT ![t] = [items[t] EXCEPT ![i] = NULL]]
        BY <1>5
      <3> QED
        BY <3>1
    <2> QED
      BY <2>1, <2>2, <1>5, MoveStepOf
  <1>10. /\ Positions(items'[t]) = Positions(items[t]) \ {i}
         /\ \A j \in Positions(items'[t]) : items'[t][j] = items[t][j]
    BY <1>5, <1>6, RestShrinks
  <1>11. RowsInv(u)'
    <2>1. \A j \in Positions(items[t]) : j \in 1..Len(carts) /\ items[t][j] = carts[j]
      BY <1>5, <1>7 DEF CartInv, RowsInv, ReadStands
    <2>2. Positions(items[t])' = Positions(items'[t])
      BY DEF Positions
    <2>3. label = "checkout_clear" => Positions(items'[t]) = {}
      BY <1>4, <1>5, <1>10
    <2>4. SelectStands(t)' /\ ReadStands(t)'
      BY <1>5, <1>7, <1>10, <2>1, <2>2, <2>3 DEF SelectStands, ReadStands
    <2>5. \A p : RowsOfProduct(u, p)' = RowsOfProduct(u, p)
      BY <1>5 DEF RowsOfProduct, RowsOf
    <2> QED
      BY <1>7, <2>4, <2>5 DEF CartInv, RowsInv
  <1>12. SumsInv(u)'
    <2> SUFFICES ASSUME NEW p \in Listed
                 PROVE  Worth(u, p)' >= Due(u, p)' /\ RestAddsUp(t, p)'
      BY <1>7 DEF SumsInv, Ordering
    <2>1. PICK c \in Nat, k \in Nat, m \in Nat, rest \in Nat :
             c = Price[p] /\ k = Units(u, p) /\ m = Ordered(u, p) /\ rest = Rest(t, p)
      BY <1>6, UnitsType, OrderedType, RestType, CatalogAssumption
    <2>2. Units(u, p)' = k /\ Due(u, p)' = Due(u, p)
      BY <1>5, <2>1 DEF Units, RowsOfProduct, RowsOf, Due
    <2>3. Ordered(u, p)' = m + (IF x = p THEN a ELSE 0)
      <3>1. Ordered(u, p)' = Ordered(u, p) +
               (IF o.user = u /\ o.product = p THEN o.amount ELSE 0)
        BY <1>5, <1>6, <1>8, OrderedGrows
      <3> QED
        BY <3>1, <1>8, <2>1
    <2>4. Rest(t, p)' + (IF x = p THEN q ELSE 0) = rest
      BY <1>2, <1>5, <1>6, <2>1, RestShrinks
    <2>5. PICK left \in Nat : left = Rest(t, p)'
      BY <1>6, RestTypedNext, SumType DEF RestTyped, Rest
    <2>6. c * k + m >= Due(u, p)
      BY <1>7, <2>1, WorthIsDue DEF Worth
    <2>7. /\ m + c * rest >= Due(u, p)
          /\ hit[u] = FALSE => m + c * rest = Due(u, p)
      BY <1>5, <1>7, <2>1 DEF CartInv, SumsInv, AtCheckout, RestAddsUp
    <2>8. Due(u, p) \in Nat
      <3>1. asked[u][p] \in Nat
        BY <1>6, <1>7, CatalogAssumption DEF TypeOK
      <3> QED
        BY <3>1, <2>1 DEF Due
    <2>9. Ordered(u, p)' + c * left = m + c * rest
      <3>1. CASE x = p
        <4>1. rest = left + q /\ Ordered(u, p)' = m + c * q
          BY <3>1, <1>2, <1>8, <2>1, <2>3, <2>4, <2>5
        <4>2. \A b \in Nat : c * (left + b) = c * left + c * b /\ c * b \in Nat
          OBVIOUS
        <4>3. c * left \in Nat /\ c * q \in Nat /\ c * rest = c * left + c * q
          BY <4>1, <4>2, <1>8
        <4> QED
          BY <4>1, <4>3
      <3>2. CASE x # p
        <4>1. left = rest
          BY <3>2, <2>1, <2>4, <2>5
        <4>2. Ordered(u, p)' = m
          BY <3>2, <2>1, <2>3
        <4> QED
          BY <4>1, <4>2
      <3> QED
        BY <3>1, <3>2
    <2>10. RestAddsUp(t, p)'
      BY <1>5, <1>7, <2>1, <2>2, <2>5, <2>7, <2>9 DEF RestAddsUp
    <2>11. Worth(u, p)' >= Due(u, p)'
      <3>1. PICK more \in Nat : more = IF x = p THEN a ELSE 0
        BY <1>8
      <3>2. Worth(u, p)' = c * k + (m + more)
        BY <3>1, <2>1, <2>2, <2>3 DEF Worth
      <3>3. c * k \in Nat
        OBVIOUS
      <3>4. c * k + (m + more) >= Due(u, p)
        BY <3>3, <2>6, <2>8
      <3> QED
        BY <3>2, <3>4, <2>2
    <2> QED
      BY <2>10, <2>11
  <1> QED
    BY <1>7, <1>9, <1>11, <1>12

LEMMA HandleIsFine ==
    ASSUME CartInv, ReplyInv', NEW t \in Task, NEW u, u = who[t], Handle(t)
    PROVE  OneTap' /\ StepOf(u) /\ RowsInv(u)' /\ SumsInv(u)'
  <1>1. ASSUME CheckoutReply(t) PROVE OneTap' /\ StepOf(u) /\ RowsInv(u)' /\ SumsInv(u)'
    BY <1>1, EndIsFine DEF CheckoutReply
  <1> QED
    BY <1>1, AddSelectIsFine, AddUpdateIsFine, AddInsertIsFine, BuyLookupIsFine,
       BuyInsertIsFine, ReadIsFine, InsertIsFine, ClearIsFine DEF Handle

\* Whole units at one price: what is worth a units and k of them are not ordered,
\* has a - k ordered.
LEMMA WholeUnits ==
    ASSUME NEW c \in Nat \ {0}, NEW m \in Nat
    PROVE  /\ m \div c \in Nat
           /\ c * (m \div c) <= m
           /\ \A k \in Nat, a \in Nat : c * k + m = c * a => c * (m \div c) = m
  <1>1. m \div c \in Nat /\ c * (m \div c) <= m
    OBVIOUS
  <1>2. ASSUME NEW k \in Nat, NEW a \in Nat, c * k + m = c * a
        PROVE  c * (m \div c) = m
    <2>1. k <= a
      BY <1>2
    <2>2. PICK b \in Nat : b = a - k
      BY <2>1
    <2>3. m = c * b
      BY <1>2, <2>2
    <2>4. (c * b) \div c = b
      OBVIOUS
    <2> QED
      BY <2>3, <2>4
  <1> QED
    BY <1>1, <1>2

\* The units that remove_from_cart leaves asked for are worth what was ordered,
\* free products included.
LEMMA OrderedUnits ==
    ASSUME NEW c \in Nat, NEW m \in Nat, NEW k \in Nat, NEW a \in Nat
    PROVE  LET b == IF c > 0 THEN m \div c ELSE 0 IN
           /\ b \in Nat
           /\ c * b <= m
           /\ c * k + m = c * a => c * b = m
  <1>1. CASE c = 0
    <2>1. \A n \in Nat : c * n = 0
      BY <1>1
    <2> QED
      BY <1>1, <2>1
  <1>2. CASE c \in Nat \ {0}
    <2>1. (IF c > 0 THEN m \div c ELSE 0) = m \div c
      BY <1>2
    <2> QED
      BY <2>1, <1>2, WholeUnits, Zenon
  <1> QED
    BY <1>1, <1>2

LEMMA RemoveIsFine ==
    ASSUME CartInv, ReplyInv', NEW u \in User, NEW x \in Product, RemoveFromCart(u, x)
    PROVE  OneTap' /\ StepOf(u) /\ RowsInv(u)' /\ SumsInv(u)'
  <1>1. /\ InFlight(u) = {} /\ Delete(RowsOfProduct(u, x))
        /\ UNCHANGED <<orders, pc, who, what, items, placed, total, taps, hit>>
    BY DEF RemoveFromCart, local
  <1>2. TypeOK /\ TypeOK'
    BY DEF CartInv, ReplyInv
  <1>3. /\ Len(carts') = Len(carts)
        /\ \A p : RowsOfProduct(u, p)' = RowsOfProduct(u, p) \ RowsOfProduct(u, x)
        /\ \A i \in 1..Len(carts) : i \notin RowsOfProduct(u, x) => carts'[i] = carts[i]
        /\ RowsChange(u)
    <2>1. RowsOfProduct(u, x) \subseteq RowsOf(u)
      BY DEF RowsOfProduct
    <2> QED
      BY <2>1, <1>1, <1>2, DeletedRows
  <1>4. \A p : RowsOfProduct(u, p)' = IF p = x THEN {} ELSE RowsOfProduct(u, p)
    BY <1>3 DEF RowsOfProduct
  <1>5. \A v \in User, p \in Product :
           asked'[v][p] = IF v = u /\ p = x
                          THEN IF x \in Listed /\ Price[x] > 0
                               THEN Ordered(u, x) \div Price[x] ELSE 0
                          ELSE asked[v][p]
    BY <1>2, RemoveAsks
  <1>6. InFlight(u)' = {} /\ OneTap'
    BY <1>1 DEF InFlight, CartInv, OneTap
  <1>7. StepOf(u)
    <2>1. \A v \in User : v # u => asked'[v] = asked[v]
      BY <1>2, <1>5 DEF TypeOK
    <2> QED
      BY <2>1, <1>1, <1>3 DEF StepOf, OrdersChange, InFlight
  <1>8. RowsInv(u)'
    BY <1>4, <1>6 DEF CartInv, RowsInv
  <1>9. ~ Ordering(u) /\ Ordered(u, x)' = Ordered(u, x)
    BY <1>1 DEF Ordering, Ordered, IsOrder
  <1>10. SumsInv(u)'
    <2> SUFFICES ASSUME NEW p \in Listed
                 PROVE  /\ Worth(u, p)' >= Due(u, p)'
                        /\ hit[u] = FALSE => Worth(u, p)' = Due(u, p)'
      BY <1>1, <1>6 DEF SumsInv
    <2>1. PICK c \in Nat, k \in Nat, m \in Nat, a \in Nat :
             c = Price[p] /\ k = Units(u, p) /\ m = Ordered(u, p) /\ a = asked[u][p]
      BY <1>2, UnitsType, OrderedType, CatalogAssumption DEF TypeOK
    <2>2. Ordered(u, p)' = m
      BY <1>1, <2>1 DEF Ordered, IsOrder
    <2>3. c * k + m >= c * a /\ (hit[u] = FALSE => c * k + m = c * a)
      BY <1>9, <2>1, WorthIsDue DEF Worth, Due
    <2>4. CASE p = x
      <3>1. Units(u, p)' = 0
        BY <2>4, <1>2, <1>4, NoUnits
      <3> DEFINE b == IF c > 0 THEN m \div c ELSE 0
      <3>2. c * b <= m /\ (c * k + m = c * a => c * b = m)
        BY OrderedUnits
      <3>3. Due(u, p)' = c * b
        BY <2>1, <2>4, <1>5 DEF Due
      <3> HIDE DEF b
      <3>4. Worth(u, p)' = c * 0 + m
        BY <3>1, <2>1, <2>2 DEF Worth
      <3>5. Worth(u, p)' = m
        BY <3>4
      <3>6. c * b <= m /\ (hit[u] = FALSE => c * b = m)
        <4>1. hit[u] = FALSE => c * k + m = c * a
          BY <2>3
        <4> QED
          BY <4>1, <3>2, Zenon
      <3> QED
        BY <3>3, <3>5, <3>6
    <2>5. CASE p # x
      <3>1. Units(u, p)' = Units(u, p)
        <4>1. \A i \in RowsOfProduct(u, p) : i \in 1..Len(carts) /\ i \notin RowsOfProduct(u, x)
          BY <2>5 DEF RowsOfProduct, RowsOf
        <4> QED
          BY <4>1, <2>5, <1>2, <1>3, <1>4, SameUnits
      <3>2. asked'[u][p] = a
        BY <2>1, <2>5, <1>5, CatalogAssumption
      <3>3. Worth(u, p)' = c * k + m /\ Due(u, p)' = c * a
        BY <3>1, <3>2, <2>1, <2>2 DEF Worth, Due
      <3> QED
        BY <3>3, <2>3
    <2> QED
      BY <2>4, <2>5
  <1> QED
    BY <1>6, <1>7, <1>8, <1>10

\* A crash leaves the tables alone and nothing in flight.
LEMMA CrashIsFine ==
    ASSUME CartInv, ReplyInv', Crash
    PROVE  CartInv'
  <1>1. /\ UNCHANGED <<carts, orders, asked>>
        /\ \A t \in Task : who'[t] = NULL
        /\ \A u \in User : hit'[u] = FALSE => hit[u] = FALSE /\ InFlight(u) = {}
    BY DEF Crash, CartInv, ReplyInv, TypeOK
  <1>2. \A u \in User : InFlight(u)' = {}
    BY <1>1, NullAssumption DEF InFlight
  <1>3. OneTap'
    BY <1>1 DEF OneTap
  <1>4. ASSUME NEW u \in User PROVE RowsInv(u)' /\ SumsInv(u)'
    <2>1. RowsInv(u)'
      BY <1>1, <1>2, SameTables DEF CartInv, RowsInv
    <2>2. \A p \in Listed : Worth(u, p)' = Worth(u, p) /\ Due(u, p)' = Due(u, p)
      BY <1>1, SameTables DEF Worth, Due
    <2>3. hit'[u] = FALSE => hit[u] = FALSE /\ ~ Ordering(u)
      BY <1>1 DEF Ordering
    <2>4. SumsInv(u)'
      BY <1>2, <2>2, <2>3, WorthIsDue DEF SumsInv
    <2> QED
      BY <2>1, <2>4
  <1> QED
    BY <1>3, <1>4 DEF CartInv

LEMMA StepKeepsCarts ==
    ASSUME MaxInFlight = 1, CartInv, [Next]_vars
    PROVE  CartInv'
  <1>1. ReplyInv'
    BY StepKeepsReplies DEF CartInv
  <1>2. ASSUME NEW u \in User, OneTap', StepOf(u), RowsInv(u)', SumsInv(u)'
        PROVE  CartInv'
    <2>1. \A v \in User : v # u => RowsInv(v)' /\ SumsInv(v)'
      BY <1>1, <1>2, OthersKeep
    <2> QED
      BY <1>1, <1>2, <2>1 DEF CartInv
  <1>3. ASSUME NEW t \in Task, NEW u \in User, NEW p \in Product,
               TapAddToCart(t, u, p) \/ TapBuy(t, u, p)
        PROVE  CartInv'
    BY <1>2, <1>3, TapIsFine DEF TapAddToCart, TapBuy
  <1>4. ASSUME NEW t \in Task, NEW u \in User, TapCheckout(t, u) PROVE CartInv'
    BY <1>2, <1>4, TapIsFine DEF TapCheckout
  <1>5. ASSUME NEW t \in Task, Handle(t) \/ Fail(t) PROVE CartInv'
    <2>1. PICK u : u = who[t]
      OBVIOUS
    <2>2. pc[t] # "idle"
      BY <1>5 DEF Handle, AddSelect, AddUpdate, AddInsert, BuyLookup, BuyInsert, CheckoutRead,
                  CheckoutInsert, CheckoutClear, CheckoutReply, Fail, GoTo
    <2>3. u \in User
      BY <2>1, <2>2, OnlyTapOf DEF CartInv, ReplyInv
    <2> QED
      BY <1>1, <1>2, <1>5, <2>1, <2>3, HandleIsFine, FailIsFine
  <1>6. CASE Crash
    BY <1>1, <1>6, CrashIsFine
  <1>7. ASSUME NEW u \in User, NEW p \in Product, RemoveFromCart(u, p) PROVE CartInv'
    BY <1>1, <1>2, <1>7, RemoveIsFine
  <1>8. CASE UNCHANGED vars
    <2>1. CartInv <=> CartInv'
      BY <1>8 DEF vars, local, CartInv, ReplyInv, TypeOK, Tapped, PlacedAddsUp, Amounts, OneTap,
                  RowsInv, SumsInv, SelectStands, ReadStands, RestAddsUp, Rest, RestIn, Due,
                  AtCheckout, Ordering, Worth, Units, Ordered, IsOrder, RowsOfProduct, RowsOf,
                  InFlight, Positions
    <2> QED
      BY <2>1
  <1> QED
    BY <1>3, <1>4, <1>5, <1>6, <1>7, <1>8 DEF Next

LEMMA InitCarts == Init => CartInv
  <1> SUFFICES ASSUME Init PROVE CartInv
    OBVIOUS
  <1>1. ReplyInv /\ TypeOK
    BY InitReplies DEF ReplyInv
  <1>2. OneTap /\ \A u \in User : InFlight(u) = {}
    BY NullAssumption DEF Init, OneTap, InFlight
  <1>3. ASSUME NEW u \in User PROVE RowsInv(u) /\ SumsInv(u)
    <2>1. \A p : RowsOfProduct(u, p) = {}
      BY DEF Init, RowsOfProduct, RowsOf
    <2>2. RowsInv(u)
      BY <1>2, <2>1 DEF RowsInv
    <2>3. ASSUME NEW p \in Listed PROVE Worth(u, p) = Due(u, p) /\ Due(u, p) = 0
      <3>1. UnitsIn(u, p) \in Seq(Nat) /\ Len(UnitsIn(u, p)) = 0
        BY <1>1, UnitsType DEF Init
      <3>2. Units(u, p) = 0
        BY <3>1, SumOfZeros DEF Units, UnitsIn
      <3>3. AmountsOf(u, p) \in Seq(Nat) /\ Len(AmountsOf(u, p)) = 0
        BY <1>1, OrderedType DEF Init
      <3>4. Ordered(u, p) = 0
        BY <3>3, SumOfZeros DEF Ordered, AmountsOf
      <3>5. asked[u][p] = 0 /\ Price[p] \in Nat
        BY CatalogAssumption DEF Init
      <3>6. Price[p] * 0 + 0 = 0 /\ Price[p] * 0 = 0
        BY <3>5
      <3> QED
        BY <3>2, <3>4, <3>5, <3>6 DEF Worth, Due
    <2>4. SumsInv(u)
      BY <1>2, <2>3 DEF SumsInv
    <2> QED
      BY <2>2, <2>4
  <1> QED
    BY <1>1, <1>2, <1>3 DEF CartInv

LEMMA CartsHold == ASSUME MaxInFlight = 1 PROVE Spec => []CartInv
  <1>1. CartInv /\ [Next]_vars => CartInv'
    BY StepKeepsCarts
  <1> QED
    BY <1>1, InitCarts, PTL DEF Spec

\* Of a product a user has one row in the cart: add_to_cart's SELECT and its INSERT
\* are two steps, but no other step of the user comes between them.
THEOREM OneRowEach == ASSUME MaxInFlight = 1 PROVE Spec => []OneRowPerProduct
  <1>1. CartInv => OneRowPerProduct
    BY DEF CartInv, RowsInv, OneRowPerProduct
  <1> QED
    BY <1>1, CartsHold, PTL

\* No unit that was put in the cart or bought is in neither cart nor orders, whatever
\* fails or is killed half-way: checkout deletes no row that it did not order.
THEOREM NothingIsLost == ASSUME MaxInFlight = 1 PROVE Spec => []NothingAskedIsLost
  <1>1. CartInv => NothingAskedIsLost
    BY DEF CartInv, SumsInv, NothingAskedIsLost, Due
  <1> QED
    BY <1>1, CartsHold, PTL

\* And none is in both, at its price, between the taps of a user none of whose taps
\* failed half-way.
THEOREM WorthIsAsked == ASSUME MaxInFlight = 1 PROVE Spec => []CartAndOrdersAddUp
  <1>1. CartInv => CartAndOrdersAddUp
    BY DEF CartInv, ReplyInv, TypeOK, SumsInv, CartAndOrdersAddUp, Due
  <1> QED
    BY <1>1, CartsHold, PTL
=============================================================================
