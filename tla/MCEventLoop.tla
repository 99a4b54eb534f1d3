---------------------------- MODULE MCEventLoop ----------------------------
(***************************************************************************)
(* The event loop with two pool threads, each added, removed and joined    *)
(* while the loop may be stopped (and run again) at any moment.            *)
(***************************************************************************)
EXTENDS EventLoop
=============================================================================
