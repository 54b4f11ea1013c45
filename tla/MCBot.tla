-------------------------------- MODULE MCBot --------------------------------
(* The instance of Bot that TLC checks. *)
EXTENDS Bot
=============================================================================
