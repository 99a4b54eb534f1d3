----------------------- MODULE InstanceChangeThrottler -----------------------
(***************************************************************************)
(* karabo::core::InstanceChangeThrottler (core/InstanceChangeThrottler.cc) *)
(* collects the changes of the topology during a cycle and hands them over *)
(* in one message with three parts, "new", "update" and "gone"; the order  *)
(* in which the changes were submitted is not in the message.  The GUI     *)
(* client (pythonGui/karabogui/topology/system_topology.py) treats these   *)
(* parts in a fixed order.                                                 *)
(*                                                                         *)
(* Every operation holds m_instChangesMutex, so each one is one step.  The *)
(* timer of the cycle is "waiting", or it is "over"; a handler of it that  *)
(* is queued in the event loop cannot be cancelled any more, also if the   *)
(* timer is started again meanwhile.                                       *)
(***************************************************************************)
EXTENDS Integers, FiniteSets

CONSTANTS
    Instances,         \* instance ids
    Infos,             \* values of the instanceInfo
    None,              \* no entry
    MaxChangesPerCycle \* m_maxChangesPerCycle

ASSUME ThrottlerAssumption ==
    /\ MaxChangesPerCycle \in Nat \ {0}
    /\ None \notin Infos
    /\ IsFiniteSet(Instances)

VARIABLES
    instChanges, \* m_instChanges and m_totalChangesInCycle
    timer,       \* m_throttlerTimer
    queued,      \* number of its handlers that the event loop has to execute
    gui          \* the topology that the GUI client shows

throttler == <<instChanges, timer, queued, gui>>

MaybeInfo == Infos \cup {None}
NoEntry == [i \in Instances |-> None]

initCycleInstChanges ==
    [new |-> NoEntry, update |-> NoEntry, gone |-> {}, total |-> 0]

ThrottlerInit ==
    /\ instChanges = initCycleInstChanges
    /\ timer = "waiting" /\ queued = 0

(* The GUI client treats a message: gone, then new, then update.  It       *)
(* merges an info into the one it has.  Instances send their complete info *)
(* (updateInstanceInfo()), so the merged one is the one of the message;    *)
(* only keys that an instance has removed from its info would stay, which  *)
(* the values here do not tell.                                            *)
topology_update(changes, topology) ==
    [i \in Instances |->
        IF changes.update[i] # None THEN changes.update[i]
        ELSE IF changes.new[i] # None THEN changes.new[i]
        ELSE IF i \in changes.gone THEN None
        ELSE topology[i]]

(* flushThrottler(): an empty cycle sends no message.  Always the next     *)
(* cycle is started (mutant: only when a cycle ends, not when it is full)  *)
StartOnlyAtEnd == IF timer = "over" THEN "waiting" ELSE "over"

kickNextThrottlerCycleAsync == "waiting"

flushThrottler(changes) ==
    /\ gui' = IF changes.total > 0 THEN topology_update(changes, gui) ELSE gui
    /\ instChanges' = initCycleInstChanges
    /\ timer' = kickNextThrottlerCycleAsync

(* addChange() with the changes after it: the limit makes it flush, unless *)
(* the cycle has ended already                                             *)
flushIfFull(changes) ==
    IF changes.total >= MaxChangesPerCycle /\ timer = "waiting"
    THEN flushThrottler(changes) /\ UNCHANGED queued
    ELSE instChanges' = changes /\ UNCHANGED <<timer, queued, gui>>

(* addChange(): an entry that is there already is not overwritten          *)
withNew(changes, i, info) ==
    IF changes.new[i] # None THEN changes
    ELSE [changes EXCEPT !.new[i] = info, !.total = @ + 1]

withUpdate(changes, i, info) ==
    IF changes.update[i] # None THEN changes
    ELSE [changes EXCEPT !.update[i] = info, !.total = @ + 1]

withGone(changes, i) ==
    IF i \in changes.gone THEN changes
    ELSE [changes EXCEPT !.gone = @ \cup {i}, !.total = @ + 1]

(* Removal of a pending change that another one makes superfluous          *)
withoutNew(changes, i) ==
    IF changes.new[i] = None THEN changes
    ELSE [changes EXCEPT !.new[i] = None, !.total = @ - 1]

withoutUpdate(changes, i) ==
    IF changes.update[i] = None THEN changes
    ELSE [changes EXCEPT !.update[i] = None, !.total = @ - 1]

submitInstanceNew(i, info) ==
    flushIfFull(withNew(withoutUpdate(instChanges, i), i, info))

(* An update changes what is pending of its instance, if there is any      *)
submitInstanceUpdate(i, info) ==
    CASE instChanges.new[i] # None ->
            /\ instChanges' = [instChanges EXCEPT !.new[i] = info]
            /\ UNCHANGED <<timer, queued, gui>>
      [] instChanges.new[i] = None /\ instChanges.update[i] # None ->
            /\ instChanges' = [instChanges EXCEPT !.update[i] = info]
            /\ UNCHANGED <<timer, queued, gui>>
      [] OTHER -> flushIfFull(withUpdate(instChanges, i, info))

(* An instance that came in this cycle goes without a trace (mutant: it    *)
(* stays, and is shown after its end)                                      *)
KeepNew(i) == flushIfFull(withGone(withoutUpdate(instChanges, i), i))

submitInstanceGone(i) ==
    IF instChanges.new[i] # None
    THEN /\ instChanges' = withoutUpdate(withoutNew(instChanges, i), i)
         /\ UNCHANGED <<timer, queued, gui>>
    ELSE flushIfFull(withGone(withoutUpdate(instChanges, i), i))

(* The interval of the cycle is over                                       *)
throttlerTimerExpires ==
    /\ timer = "waiting"
    /\ timer' = "over" /\ queued' = queued + 1
    /\ UNCHANGED <<instChanges, gui>>

runThrottlerCycleAsync ==
    /\ queued > 0 /\ queued' = queued - 1
    /\ flushThrottler(instChanges)

flush == flushThrottler(instChanges) /\ UNCHANGED queued

(* createThrottler() and, when the new throttler replaces the one there is *)
(* so far, the destructor of the latter, which hands over what it has got. *)
(* Its handlers that are queued do nothing (bind_weak).                    *)
createThrottler == flushThrottler(instChanges) /\ queued' = 0

-----------------------------------------------------------------------------
ThrottlerTypeOK ==
    /\ instChanges \in [new : [Instances -> MaybeInfo], update : [Instances -> MaybeInfo],
                        gone : SUBSET Instances, total : Nat]
    /\ timer \in {"waiting", "over"} /\ queued \in Nat
    /\ gui \in [Instances -> MaybeInfo]
=============================================================================
