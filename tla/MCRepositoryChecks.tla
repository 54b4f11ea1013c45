------------------------- MODULE MCRepositoryChecks --------------------------
(* The instance of RepositoryChecks that TLC checks. *)
EXTENDS RepositoryChecks
=============================================================================
