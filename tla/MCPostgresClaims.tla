------------------------- MODULE MCPostgresClaims -------------------------
(* The graphs of MCThreadRuns for PostgresClaims. *)
EXTENDS MCThreadRuns, PostgresClaims
=============================================================================
