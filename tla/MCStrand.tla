------------------------------ MODULE MCStrand ------------------------------
(***************************************************************************)
(* The strand with three event loop threads, four handlers and a foreign   *)
(* function that is posted twice; "maxInARow" is 1 (from 0) or 2, so that  *)
(* run() is both reposted and left with an empty queue.                    *)
(***************************************************************************)
EXTENDS Strand
=============================================================================
