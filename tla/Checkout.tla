------------------------------ MODULE Checkout -------------------------------
(***************************************************************************)
(* The cart and what becomes of it: the callback handlers add_to_cart,     *)
(* buy_now and checkout of store/handlers.py over the cart operations of   *)
(* store/service.py.                                                       *)
(*                                                                         *)
(* Each tap on a button is handled by a task of its own, and the tasks     *)
(* interleave wherever a handler awaits.  A transaction with one INSERT,   *)
(* UPDATE or DELETE is one step: until it commits nobody sees it, and      *)
(* failing at its COMMIT is failing at its statement.  The SELECT that     *)
(* opens add_to_cart is a step before its transaction's: the driver begins *)
(* the transaction with the write, so the SELECT holds no lock.            *)
(***************************************************************************)
EXTENDS Integers, Sequences, FiniteSets, Functions

CONSTANTS
    User,
    Product,        \* product ids a button can name, on however old a card
    Listed,         \* those of them the products table has
    Price,          \* Price[p] for each listed product, free ones too
    Task,           \* update-handling tasks
    MaxInFlight,    \* bound: taps of one user handled at once; 1: the user
                    \*   waits for every answer before the next tap
    MaxTaps,        \* bound: taps in all
    NULL

ASSUME CatalogAssumption == Listed \subseteq Product /\ Price \in [Listed -> Nat]

CartRow == [user: User, product: Product, qty: Nat \ {0}]
Order == [user: User, product: Listed, amount: Nat]

ASSUME NullAssumption == NULL \notin User \cup Product \cup CartRow
ASSUME BoundAssumption == MaxInFlight \in Nat \ {0} /\ MaxTaps \in Nat

VARIABLES
    carts,      \* the rows of carts, a row's id its index; NULL once deleted
    orders,     \* the rows of orders, a row's id its index
    pc,         \* pc[t]: what task t is about to do
    who,        \* who[t]: the user whose tap it handles, or NULL
    what,       \* what[t]: the product the button names, or NULL
    items,      \* items[t]: in checkout, the cart rows still to be ordered, as
                \*   carts has them
    placed,     \* placed[t]: in checkout, the orders it has created
    total,      \* total[t]: in checkout, their total
    taps,       \* how many taps there were
    asked,      \* asked[u][p]: units u put in the cart or bought, and did not
                \*   take out of the cart again
    hit         \* hit[u]: a handler of u failed or was killed half-way

local == <<pc, who, what, items, placed, total>>
vars == <<carts, orders, local, taps, asked, hit>>

Label == {"idle", "add_select", "add_update", "add_insert", "buy_lookup", "buy_insert",
          "checkout_read", "checkout_insert", "checkout_clear", "checkout_reply"}

TypeOK ==
    /\ carts \in Seq(CartRow \cup {NULL})
    /\ orders \in Seq(Order)
    /\ pc \in [Task -> Label]
    /\ who \in [Task -> User \cup {NULL}]
    /\ what \in [Task -> Product \cup {NULL}]
    /\ items \in [Task -> Seq(CartRow \cup {NULL})]
    /\ placed \in [Task -> Seq(1..Len(orders))]
    /\ total \in [Task -> Nat]
    /\ taps \in 0..MaxTaps
    /\ asked \in [User -> [Product -> Nat]]
    /\ hit \in [User -> BOOLEAN]
    /\ \A t \in Task : pc[t] = "idle" <=> who[t] = NULL

Init ==
    /\ carts = <<>>
    /\ orders = <<>>
    /\ pc = [t \in Task |-> "idle"]
    /\ who = [t \in Task |-> NULL]
    /\ what = [t \in Task |-> NULL]
    /\ items = [t \in Task |-> <<>>]
    /\ placed = [t \in Task |-> <<>>]
    /\ total = [t \in Task |-> 0]
    /\ taps = 0
    /\ asked = [u \in User |-> [p \in Product |-> 0]]
    /\ hit = [u \in User |-> FALSE]

-----------------------------------------------------------------------------
InFlight(u) == {t \in Task : who[t] = u}

Tap(t, u, p, label) ==
    /\ pc[t] = "idle"
    /\ taps < MaxTaps
    /\ Cardinality(InFlight(u)) < MaxInFlight
    /\ taps' = taps + 1
    /\ pc' = [pc EXCEPT ![t] = label]
    /\ who' = [who EXCEPT ![t] = u]
    /\ what' = [what EXCEPT ![t] = p]
    /\ UNCHANGED <<carts, orders, items, placed, total, asked, hit>>

TapAddToCart(t, u, p) == Tap(t, u, p, "add_select")
TapBuy(t, u, p) == Tap(t, u, p, "buy_lookup")
TapCheckout(t, u) == Tap(t, u, NULL, "checkout_read")

GoTo(t, from, to) ==
    /\ pc[t] = from
    /\ pc' = [pc EXCEPT ![t] = to]

Finish(t) ==
    /\ pc' = [pc EXCEPT ![t] = "idle"]
    /\ who' = [who EXCEPT ![t] = NULL]
    /\ what' = [what EXCEPT ![t] = NULL]
    /\ items' = [items EXCEPT ![t] = <<>>]
    /\ placed' = [placed EXCEPT ![t] = <<>>]
    /\ total' = [total EXCEPT ![t] = 0]
    /\ UNCHANGED taps

AskOne(t) == asked' = [asked EXCEPT ![who[t]][what[t]] = @ + 1]

-----------------------------------------------------------------------------
(* The rows of a table, by their ids.                                      *)

RowsOf(u) == {i \in 1..Len(carts) : carts[i] # NULL /\ carts[i].user = u}

RowsOfProduct(u, p) == {i \in RowsOf(u) : carts[i].product = p}

Delete(ids) == carts' = [i \in 1..Len(carts) |-> IF i \in ids THEN NULL ELSE carts[i]]

\* A recursive function rather than a fold, to be reasoned about.
SumOf(s) ==
    LET upTo[n \in 0..Len(s)] == IF n = 0 THEN 0 ELSE upTo[n - 1] + s[n]
    IN  upTo[Len(s)]

Units(u, p) ==
    SumOf([i \in 1..Len(carts) |-> IF i \in RowsOfProduct(u, p) THEN carts[i].qty ELSE 0])

IsOrder(o, u, p) == orders[o].user = u /\ orders[o].product = p

Ordered(u, p) ==
    SumOf([o \in 1..Len(orders) |-> IF IsOrder(o, u, p) THEN orders[o].amount ELSE 0])

-----------------------------------------------------------------------------
(* add_to_cart.                                                            *)

\* Mutant: the row is not looked for.
AddWithoutSelect(t) ==
    /\ GoTo(t, "add_select", "add_insert")
    /\ UNCHANGED <<carts, orders, who, what, items, placed, total, taps, asked, hit>>

AddSelect(t) ==
    /\ \/ /\ RowsOfProduct(who[t], what[t]) # {}
          /\ GoTo(t, "add_select", "add_update")
       \/ /\ RowsOfProduct(who[t], what[t]) = {}
          /\ GoTo(t, "add_select", "add_insert")
    /\ UNCHANGED <<carts, orders, who, what, items, placed, total, taps, asked, hit>>

\* Every row of the user and product that is there by now, if any is.
BumpedRows(t) ==
    [i \in 1..Len(carts) |->
        IF i \in RowsOfProduct(who[t], what[t])
        THEN [carts[i] EXCEPT !.qty = @ + 1]
        ELSE carts[i]]

AddUpdate(t) ==
    /\ pc[t] = "add_update"
    /\ carts' = BumpedRows(t)
    /\ AskOne(t)
    /\ Finish(t)
    /\ UNCHANGED <<orders, hit>>

\* Mutant: the row starts at no units.
AddInsertNone(t) ==
    /\ pc[t] = "add_insert"
    /\ carts' = Append(carts, [user |-> who[t], product |-> what[t], qty |-> 0])
    /\ AskOne(t)
    /\ Finish(t)
    /\ UNCHANGED <<orders, hit>>

AddInsert(t) ==
    /\ pc[t] = "add_insert"
    /\ carts' = Append(carts, [user |-> who[t], product |-> what[t], qty |-> 1])
    /\ AskOne(t)
    /\ Finish(t)
    /\ UNCHANGED <<orders, hit>>

-----------------------------------------------------------------------------
(* buy_now.                                                                *)

BuyLookup(t) ==
    /\ pc[t] = "buy_lookup"
    /\ IF what[t] \in Listed
       THEN /\ GoTo(t, "buy_lookup", "buy_insert")
            /\ UNCHANGED <<who, what, items, placed, total, taps>>
       ELSE Finish(t)
    /\ UNCHANGED <<carts, orders, asked, hit>>

NewOrder(u, p, a) == [user |-> u, product |-> p, amount |-> a]

BuyInsert(t) ==
    /\ pc[t] = "buy_insert"
    /\ orders' = Append(orders, NewOrder(who[t], what[t], Price[what[t]]))
    /\ AskOne(t)
    /\ Finish(t)
    /\ UNCHANGED <<carts, hit>>

-----------------------------------------------------------------------------
(* checkout.                                                               *)

\* get_cart joins products: a row of a product no longer listed is not read.
CartOf(u) ==
    [i \in 1..Len(carts) |->
        IF i \in RowsOf(u) /\ carts[i].product \in Listed THEN carts[i] ELSE NULL]

Positions(rows) == {i \in 1..Len(rows) : rows[i] # NULL}

CheckoutRead(t) ==
    /\ pc[t] = "checkout_read"
    /\ IF Positions(CartOf(who[t])) = {}
       THEN Finish(t)
       ELSE /\ GoTo(t, "checkout_read", "checkout_insert")
            /\ items' = [items EXCEPT ![t] = CartOf(who[t])]
            /\ UNCHANGED <<who, what, placed, total, taps>>
    /\ UNCHANGED <<carts, orders, asked, hit>>

\* Mutant: the total forgets the quantity.
CheckoutInsertUnitTotal(t) == \E i \in Positions(items[t]) :
    LET item == items[t][i]
        amount == Price[item.product] * item.qty IN
    /\ pc[t] = "checkout_insert"
    /\ orders' = Append(orders, NewOrder(who[t], item.product, amount))
    /\ placed' = [placed EXCEPT ![t] = Append(@, Len(orders) + 1)]
    /\ total' = [total EXCEPT ![t] = @ + Price[item.product]]
    /\ items' = [items EXCEPT ![t][i] = NULL]
    /\ pc' = [pc EXCEPT ![t] = IF Positions(items[t]) = {i} THEN "checkout_clear" ELSE @]
    /\ UNCHANGED <<carts, who, what, taps, asked, hit>>

\* One turn of the loop: an order in a transaction of its own.  The SELECT says
\* nothing of the order of the rows.
CheckoutInsert(t) == \E i \in Positions(items[t]) :
    LET item == items[t][i]
        amount == Price[item.product] * item.qty IN
    /\ pc[t] = "checkout_insert"
    /\ orders' = Append(orders, NewOrder(who[t], item.product, amount))
    /\ placed' = [placed EXCEPT ![t] = Append(@, Len(orders) + 1)]
    /\ total' = [total EXCEPT ![t] = @ + amount]
    /\ items' = [items EXCEPT ![t][i] = NULL]
    /\ pc' = [pc EXCEPT ![t] = IF Positions(items[t]) = {i} THEN "checkout_clear" ELSE @]
    /\ UNCHANGED <<carts, who, what, taps, asked, hit>>

\* Mutants: the rows of every user are deleted; none are.
CheckoutClearAll(t) ==
    /\ GoTo(t, "checkout_clear", "checkout_reply")
    /\ Delete(1..Len(carts))
    /\ UNCHANGED <<orders, who, what, items, placed, total, taps, asked, hit>>
CheckoutClearNone(t) ==
    /\ GoTo(t, "checkout_clear", "checkout_reply")
    /\ UNCHANGED <<carts, orders, who, what, items, placed, total, taps, asked, hit>>

\* clear_cart deletes the user's rows as they are now, listed or not.
CheckoutClear(t) ==
    /\ GoTo(t, "checkout_clear", "checkout_reply")
    /\ Delete(RowsOf(who[t]))
    /\ UNCHANGED <<orders, who, what, items, placed, total, taps, asked, hit>>

CheckoutReply(t) ==
    /\ pc[t] = "checkout_reply"
    /\ Finish(t)
    /\ UNCHANGED <<carts, orders, asked, hit>>

-----------------------------------------------------------------------------
(* Failures, and what no handler calls.                                    *)

\* A statement or a Telegram call raises; what was committed stays.
Fail(t) ==
    /\ pc[t] # "idle"
    /\ hit' = [hit EXCEPT ![who[t]] = TRUE]
    /\ Finish(t)
    /\ UNCHANGED <<carts, orders, asked>>

\* The process is killed, and with it every task.
Crash ==
    /\ \E t \in Task : pc[t] # "idle"
    /\ hit' = [u \in User |-> hit[u] \/ InFlight(u) # {}]
    /\ pc' = [t \in Task |-> "idle"]
    /\ who' = [t \in Task |-> NULL]
    /\ what' = [t \in Task |-> NULL]
    /\ items' = [t \in Task |-> <<>>]
    /\ placed' = [t \in Task |-> <<>>]
    /\ total' = [t \in Task |-> 0]
    /\ UNCHANGED <<carts, orders, taps, asked>>

\* remove_from_cart has no caller in the bot yet; here a user with no tap in
\* flight takes a product out, and wants no more than what is ordered already.
RemoveFromCart(u, p) ==
    /\ InFlight(u) = {}
    /\ Units(u, p) > 0
    /\ Delete(RowsOfProduct(u, p))
    /\ asked' = [asked EXCEPT ![u][p] =
                    IF p \in Listed /\ Price[p] > 0 THEN Ordered(u, p) \div Price[p] ELSE 0]
    /\ UNCHANGED <<orders, local, taps, hit>>

-----------------------------------------------------------------------------
Handle(t) ==
    \/ AddSelect(t)
    \/ AddUpdate(t)
    \/ AddInsert(t)
    \/ BuyLookup(t)
    \/ BuyInsert(t)
    \/ CheckoutRead(t)
    \/ CheckoutInsert(t)
    \/ CheckoutClear(t)
    \/ CheckoutReply(t)

Next ==
    \/ \E t \in Task, u \in User :
        \/ \E p \in Product : TapAddToCart(t, u, p) \/ TapBuy(t, u, p)
        \/ TapCheckout(t, u)
    \/ \E t \in Task : Handle(t) \/ Fail(t)
    \/ Crash
    \/ \E u \in User, p \in Product : RemoveFromCart(u, p)

Spec == Init /\ [][Next]_vars

-----------------------------------------------------------------------------
(* Properties.  Those of cart and orders hold of a user who waits for each *)
(* answer (MaxInFlight = 1); nothing in the handlers makes a user wait.    *)

\* A product a user adds twice is one row of two in the cart, as add_to_cart
\* looks for the row before it inserts one.
OneRowPerProduct ==
    \A u \in User, p \in Product : \A i, j \in RowsOfProduct(u, p) : i = j

\* What the cart and the orders say u is to pay for p, at the price of today.
\* Units of a free product weigh nothing: of them the sums below say nothing.
Worth(u, p) == Price[p] * Units(u, p) + Ordered(u, p)

\* A unit a user was told is in the cart, or bought, is still in the cart or
\* in an order: checkout clears nothing from the cart that it did not order,
\* even when it failed half-way or was killed.
NothingAskedIsLost ==
    \A u \in User, p \in Listed : Worth(u, p) >= Price[p] * asked[u][p]

\* checkout's own loop has committed orders whose rows are still in the cart.
Ordering(u) ==
    \E t \in InFlight(u) : pc[t] \in {"checkout_insert", "checkout_clear"}

\* And it is in one of the two only, at its price: between the taps of a user
\* none of whose taps failed half-way, cart and orders are what was asked for.
CartAndOrdersAddUp ==
    \A u \in User, p \in Listed :
        ~ hit[u] /\ ~ Ordering(u) => Worth(u, p) = Price[p] * asked[u][p]

\* A checkout that did not fail places one order for each position of the cart:
\* the same units are not ordered again by another tap of the button.
NothingIsOrderedTwice ==
    \A u \in User, p \in Listed :
        ~ hit[u] /\ ~ Ordering(u) => Ordered(u, p) <= Price[p] * asked[u][p]

\* The message that ends a checkout names orders that exist, are the user's and
\* are no two the same, and their total is what the orders say: each amount the
\* user is asked to pay is an order's.  However many taps are in flight.
ReplyAddsUp ==
    \A t \in Task :
        pc[t] = "checkout_reply" =>
            /\ \A i \in 1..Len(placed[t]) : orders[placed[t][i]].user = who[t]
            /\ IsInjective(placed[t])
            /\ total[t] = SumOf([i \in 1..Len(placed[t]) |-> orders[placed[t][i]].amount])
=============================================================================
