--------------------------- MODULE MCAdminAccess ----------------------------
(* Instances of AdminAccess: a configured admin and a customer.            *)
EXTENDS AdminAccess, TLC

CONSTANTS boss, guest
=============================================================================
