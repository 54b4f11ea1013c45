--------------------------- MODULE MCStoreService ----------------------------
(* Instances of StoreService: workers, users and charge ids are alike.     *)
EXTENDS StoreService, TLC

MCSymmetry == Permutations(Worker) \cup Permutations(User) \cup Permutations(PaymentId)
=============================================================================
