--------------------------- MODULE MCInputConnect ---------------------------
(***************************************************************************)
(* One output channel, and as many attempts as overlap in the worst case.  *)
(***************************************************************************)
EXTENDS InputConnect
CONSTANTS o1
=============================================================================
