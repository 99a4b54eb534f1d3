--------------------------- MODULE MCRequestReply ---------------------------
(***************************************************************************)
(* One request of each kind, answered by slots on two threads.             *)
(***************************************************************************)
EXTENDS RequestReply
CONSTANTS a1, s1, t1, t2
=============================================================================
