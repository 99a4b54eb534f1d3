--------------------------- MODULE SerialExecutor ---------------------------
(***************************************************************************)
(* What karabo::net::Strand promises to its users (Strand.hh): handlers    *)
(* are executed one at a time and in the order in which they were posted;  *)
(* when the strand goes away, either everything posted still runs          *)
(* ("guaranteeToRun") or everything that has not started is dropped.       *)
(*                                                                         *)
(* Handlers are numbered by their position in the order of posting, so     *)
(* "the next handler in order" is handler completed + 1.                   *)
(***************************************************************************)
EXTENDS Naturals

VARIABLES
    submitted,  \* how many handlers were accepted
    completed,  \* how many handlers have finished
    due,        \* handlers 1..due have run, are running or will run
    busy,       \* a handler is being executed
    open        \* the executor still accepts handlers

vars == <<submitted, completed, due, busy, open>>

Init ==
    /\ submitted = 0
    /\ completed = 0
    /\ due = 0
    /\ busy = FALSE
    /\ open = TRUE

Submit ==
    /\ open
    /\ submitted' = submitted + 1
    /\ due' = submitted + 1
    /\ UNCHANGED <<completed, busy, open>>

Begin ==
    /\ ~busy
    /\ completed < due
    /\ busy' = TRUE
    /\ UNCHANGED <<submitted, completed, due, open>>

Finish ==
    /\ busy
    /\ busy' = FALSE
    /\ completed' = completed + 1
    /\ UNCHANGED <<submitted, due, open>>

(* Closing keeps all that is due, or drops all that has not started.       *)
Close ==
    /\ open
    /\ ~busy
    /\ open' = FALSE
    /\ due' \in {due, completed}
    /\ UNCHANGED <<submitted, completed, busy>>

Next == Submit \/ Begin \/ Finish \/ Close

Spec == Init /\ [][Next]_vars
=============================================================================
