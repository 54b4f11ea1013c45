----------------------------- MODULE MCCheckout ------------------------------
(* Instances of Checkout: tasks and users are alike, products differ in    *)
(* price and in whether they are still listed.                             *)
EXTENDS Checkout, MCCallbacks, TLC

CONSTANTS p1, p2, gone

MCPrice == [p \in Listed |-> IF p = p1 THEN 3 ELSE 5]

MCSymmetry == Permutations(Task) \cup Permutations(User)
=============================================================================
