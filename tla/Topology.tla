------------------------------ MODULE Topology ------------------------------
(***************************************************************************)
(* How one instance follows which others are alive: the instance tracking  *)
(* of karabo::xms::SignalSlotable (xms/SignalSlotable.cc) and the cache of *)
(* the topology in karabo::core::DeviceClient (core/DeviceClient.cc).      *)
(*                                                                         *)
(* Messages are treated on strands: one for broadcasts, one for messages   *)
(* of the own instance to itself, one for each sender of direct messages.  *)
(* Each works on its messages in their order, but in parallel to the other *)
(* strands and to the timer of the tracking.  A slot is a mutex: the same  *)
(* slot does not run twice at a time.  The functions that are registered   *)
(* for a slot - that of SignalSlotable first, that of DeviceClient second  *)
(* - are split into steps where they release a mutex.  What is known of an *)
(* instance besides its being there (the instanceInfo, and devices that go *)
(* with their server) is left out: see SystemTopology.                     *)
(***************************************************************************)
EXTENDS Integers, Sequences, FiniteSets

CONSTANTS
    Instances, \* the other instances
    None,      \* no instance, no entry
    Countdown, \* ticks without a heartbeat until an instance is given up
    MaxEvents, \* bound: starts, updates and late heartbeats of instances
    MaxQueue   \* bound: messages that wait on a strand when another one is sent

ASSUME TopologyAssumption ==
    /\ None \notin Instances /\ Instances \cap {"bcast", "self"} = {}
    /\ Countdown \in Nat \ {0} /\ MaxEvents \in Nat /\ MaxQueue \in Nat \ {0}

VARIABLES
    alive,       \* the other instances that are up
    events,      \* number of starts, updates and late heartbeats
    discovering, \* slotDiscover is on its way to these instances
    tracked,     \* m_trackedInstances: the countdown
    listed,      \* m_runtimeSystemDescription
    queue, run,  \* messages of each strand, and what it does
    dead,        \* deadOnes that are still to be treated
    giveUp,      \* the one that is announced as gone, but still tracked
    raced        \* history: two treatments of one event have overlapped

others == <<alive, events>>
timing == <<dead, giveUp>>
vars == <<others, discovering, tracked, listed, queue, run, timing, raced>>

(* "bcast": m_broadcastEventStrand; "self": m_unicastEventStrands of the   *)
(* own id; an instance: m_unicastEventStrands of that instance             *)
Strands == {"bcast", "self"} \cup Instances

Message == [slot : {"new", "gone", "updated", "heartbeat", "answer"}, id : Instances]

Idle == [at |-> "idle", slot |-> "none", id |-> None]

(* Some instances are up, and known                                        *)
Init ==
    /\ alive \in SUBSET Instances
    /\ tracked = [i \in Instances |-> IF i \in alive THEN Countdown ELSE None]
    /\ listed = alive
    /\ events = 0 /\ discovering = {}
    /\ queue = [s \in Strands |-> <<>>]
    /\ run = [s \in Strands |-> Idle]
    /\ dead = {} /\ giveUp = None
    /\ raced = FALSE

Posted(q, s, slot, i) == [q EXCEPT ![s] = Append(@, [slot |-> slot, id |-> i])]

-----------------------------------------------------------------------------
(* The other instances                                                     *)

start(i) ==
    /\ i \notin alive /\ events < MaxEvents /\ Len(queue["bcast"]) < MaxQueue
    /\ alive' = alive \cup {i}
    /\ events' = events + 1
    /\ queue' = Posted(queue, "bcast", "new", i)
    /\ UNCHANGED <<discovering, tracked, listed, run, timing>>

(* ~SignalSlotable()                                                       *)
shutDown(i) ==
    /\ i \in alive /\ Len(queue["bcast"]) < MaxQueue
    /\ alive' = alive \ {i}
    /\ queue' = Posted(queue, "bcast", "gone", i)
    /\ discovering' = discovering \ {i}
    /\ UNCHANGED <<events, tracked, listed, run, timing>>

(* The process dies without a goodbye                                      *)
crash(i) ==
    /\ i \in alive
    /\ alive' = alive \ {i}
    /\ discovering' = discovering \ {i}
    /\ UNCHANGED <<events, tracked, listed, queue, run, timing>>

(* Bound: heartbeats and updates are sent when earlier broadcasts have     *)
(* been taken from the queue                                               *)
sendHeartbeat(i) ==
    /\ i \in alive /\ queue["bcast"] = <<>>
    /\ queue' = Posted(queue, "bcast", "heartbeat", i)
    /\ UNCHANGED <<others, discovering, tracked, listed, run, timing>>

updateInstanceInfo(i) ==
    /\ i \in alive /\ queue["bcast"] = <<>> /\ events < MaxEvents
    /\ queue' = Posted(queue, "bcast", "updated", i)
    /\ events' = events + 1
    /\ UNCHANGED <<alive, discovering, tracked, listed, run, timing>>

(* Bound: one answer of an instance is queued at a time                    *)
slotDiscover(i) ==
    /\ i \in discovering /\ queue[i] = <<>>
    /\ discovering' = discovering \ {i}
    /\ queue' = Posted(queue, i, "answer", i)
    /\ UNCHANGED <<others, tracked, listed, run, timing>>

-----------------------------------------------------------------------------
(* SignalSlotable: messages and tracking                                   *)

addTrackedInstance(i) == tracked' = [tracked EXCEPT ![i] = Countdown]

eraseTrackedInstance(i) == tracked' = [tracked EXCEPT ![i] = None]

At(s, step) == run[s].at = step
Goto(s, step) == run' = [run EXCEPT ![s].at = step]
Done(s) == run' = [run EXCEPT ![s] = Idle]

(* processSingleSlot(): the next message of a strand, once its slot is not *)
(* in use by another strand.  What the slot does first is part of the step *)
processSingleSlot(s, slots) ==
    /\ At(s, "idle") /\ queue[s] # <<>>
    /\ Head(queue[s]).slot \in slots
    /\ \A t \in Strands : run[t].slot # Head(queue[s]).slot

Taken(s) == [queue EXCEPT ![s] = Tail(@)]

GoesOn(s, step) ==
    run' = [run EXCEPT ![s] = [at |-> step, slot |-> Head(queue[s]).slot, id |-> Head(queue[s]).id]]

(* slotInstanceNew(), slotInstanceUpdated() and slotInstanceGone()         *)
slotInstanceNewOrUpdated(s) ==
    /\ processSingleSlot(s, {"new", "updated"})
    /\ addTrackedInstance(Head(queue[s]).id)
    /\ GoesOn(s, "deviceclient") /\ queue' = Taken(s)
    /\ UNCHANGED <<others, discovering, listed, timing>>

slotInstanceGone(s) ==
    /\ processSingleSlot(s, {"gone"})
    /\ eraseTrackedInstance(Head(queue[s]).id)
    /\ GoesOn(s, "deviceclient") /\ queue' = Taken(s)
    /\ UNCHANGED <<others, discovering, listed, timing>>

(* slotHeartbeat(): an instance that is not tracked is asked for its       *)
(* instanceInfo (mutant: it is not)                                        *)
AskNobody(i) == discovering

Asked(i) == discovering \cup ({i} \cap alive)

slotHeartbeat(s) ==
    /\ processSingleSlot(s, {"heartbeat"})
    /\ LET i == Head(queue[s]).id IN
       IF tracked[i] = None
       THEN discovering' = Asked(i) /\ UNCHANGED run
       ELSE GoesOn(s, "track") /\ UNCHANGED discovering
    /\ queue' = Taken(s)
    /\ UNCHANGED <<others, tracked, listed, timing>>

(* slotDiscoverAnswer(): unless it is tracked, it is as if it was new      *)
slotDiscoverAnswer(s) ==
    /\ processSingleSlot(s, {"answer"}) /\ Len(queue["self"]) < MaxQueue
    /\ LET i == Head(queue[s]).id IN
       IF tracked[i] = None
       THEN queue' = Posted(Taken(s), "self", "new", i) /\ GoesOn(s, "track new")
       ELSE queue' = Taken(s) /\ GoesOn(s, "track")
    /\ UNCHANGED <<others, discovering, tracked, listed, timing>>

(* Both slots end with addTrackedInstance()                                *)
trackAfterCheck(s) ==
    /\ run[s].at \in {"track", "track new"}
    /\ addTrackedInstance(run[s].id)
    /\ Done(s)
    /\ UNCHANGED <<others, discovering, listed, queue, timing>>

(* letInstanceSlowlyDieWithoutHeartbeat(): the countdown takes three times *)
(* the interval of the heartbeats, so that an instance is given up only if *)
(* it is dead or its heartbeats are late                                   *)
decreaseCountdown ==
    /\ dead = {} /\ giveUp = None
    /\ \E i \in Instances : tracked[i] # None
    /\ LET expired == {i \in Instances : tracked[i] = 1}
           delayed == expired \cap alive # {}
       IN /\ delayed => events < MaxEvents
          /\ events' = IF delayed THEN events + 1 ELSE events
          /\ dead' = expired
    /\ tracked' = [i \in Instances |-> IF tracked[i] = None THEN None ELSE tracked[i] - 1]
    /\ UNCHANGED <<alive, discovering, listed, queue, run, giveUp>>

(* For each of them slotInstanceGone is called, which is a message to the  *)
(* own instance, and then it is not tracked any more                       *)
Announced(i) == Posted(queue, "self", "gone", i)

announceGone(i) ==
    /\ i \in dead /\ giveUp = None
    /\ queue' = Announced(i)
    /\ dead' = dead \ {i} /\ giveUp' = i
    /\ UNCHANGED <<others, discovering, tracked, listed, run>>

eraseAnnounced ==
    /\ giveUp # None
    /\ eraseTrackedInstance(giveUp)
    /\ giveUp' = None
    /\ UNCHANGED <<others, discovering, listed, queue, run, dead>>

-----------------------------------------------------------------------------
(* DeviceClient: the topology                                              *)

(* _slotInstanceNew(): an instance that is listed is treated as gone first *)
(* (the mutex is released for that)                                        *)
_slotInstanceNew(s) ==
    /\ At(s, "deviceclient") /\ run[s].slot = "new"
    /\ IF run[s].id \in listed
       THEN Goto(s, "gone first") /\ UNCHANGED listed
       ELSE listed' = listed \cup {run[s].id} /\ Done(s)
    /\ UNCHANGED <<others, discovering, tracked, queue, timing>>

mergeNew(s) ==
    /\ At(s, "merge")
    /\ listed' = listed \cup {run[s].id}
    /\ Done(s)
    /\ UNCHANGED <<others, discovering, tracked, queue, timing>>

(* _slotInstanceUpdated(): an unknown instance is asked who it is, and not *)
(* tracked, so that its answer counts as new (mutant: it stays tracked)    *)
StillTracked(i) == tracked' = tracked

forgetUnlisted(i) == eraseTrackedInstance(i)

_slotInstanceUpdated(s) ==
    /\ At(s, "deviceclient") /\ run[s].slot = "updated"
    /\ IF run[s].id \in listed
       THEN UNCHANGED <<discovering, tracked>>
       ELSE forgetUnlisted(run[s].id) /\ discovering' = Asked(run[s].id)
    /\ Done(s)
    /\ UNCHANGED <<others, listed, queue, timing>>

(* _slotInstanceGone(), called as slot or by _slotInstanceNew()            *)
_slotInstanceGone(s) ==
    /\ \/ At(s, "gone first")
       \/ At(s, "deviceclient") /\ run[s].slot = "gone"
    /\ listed' = listed \ {run[s].id}
    /\ IF run[s].slot = "new" THEN Goto(s, "merge") ELSE Done(s)
    /\ UNCHANGED <<others, discovering, tracked, queue, timing>>

-----------------------------------------------------------------------------
strandStep(s) ==
    \/ slotInstanceNewOrUpdated(s) \/ slotInstanceGone(s) \/ slotHeartbeat(s)
    \/ slotDiscoverAnswer(s) \/ trackAfterCheck(s)
    \/ _slotInstanceNew(s) \/ mergeNew(s) \/ _slotInstanceUpdated(s)
    \/ _slotInstanceGone(s)

timerStep == decreaseCountdown \/ (\E i \in Instances : announceGone(i)) \/ eraseAnnounced

instanceStep(i) ==
    start(i) \/ shutDown(i) \/ crash(i) \/ sendHeartbeat(i) \/ updateInstanceInfo(i)
    \/ slotDiscover(i)

Treating(s) == run[s].slot \in {"new", "gone", "updated"}

(* No two calls of slotInstanceNew, -Gone and -Updated run at a time       *)
Serialised == \A s, t \in Strands : s # t => ~Treating(s) \/ ~Treating(t)

(* The tracking of an instance has ended between the check and the step    *)
(* that was meant to prolong it, or has begun again between the end of the *)
(* countdown and the step that was meant to end it                         *)
TrackingRaces ==
    \/ \E s \in Strands : At(s, "track") /\ tracked[run[s].id] = None
    \/ \E s, t \in Strands : At(s, "track new") /\ run[t].slot = "gone" /\ run[t].id = run[s].id
    \/ giveUp # None /\ tracked[giveUp] \notin {0, None}

Record == raced' = (raced \/ ~Serialised' \/ TrackingRaces')

Next ==
    /\ \/ \E i \in Instances : instanceStep(i)
       \/ \E s \in Strands : strandStep(s)
       \/ timerStep
    /\ Record

Spec == Init /\ [][Next]_vars

(* Strands and timer are served by the event loop; instances that are      *)
(* alive send heartbeats and answer                                        *)
FairSpec ==
    /\ Spec
    /\ \A s \in Strands : WF_vars(strandStep(s) /\ Record)
    /\ WF_vars(timerStep /\ Record)
    /\ \A i \in Instances : WF_vars(slotDiscover(i) /\ Record)
    /\ \A i \in Instances : SF_vars(sendHeartbeat(i) /\ Record)

-----------------------------------------------------------------------------
(* Types of all variables                                                  *)
TypeOK ==
    /\ alive \subseteq Instances /\ discovering \subseteq alive
    /\ events \in 0 .. MaxEvents
    /\ tracked \in [Instances -> 0 .. Countdown \cup {None}]
    /\ listed \subseteq Instances
    /\ queue \in [Strands -> Seq(Message)]
    /\ run \in [Strands -> [at : {"idle", "deviceclient", "track", "track new", "gone first", "merge"},
                            slot : {"none", "new", "gone", "updated", "heartbeat", "answer"},
                            id : Instances \cup {None}]]
    /\ dead \subseteq Instances /\ giveUp \in Instances \cup {None}
    /\ raced \in BOOLEAN

(* Nothing is left to be treated, but for the broadcast being treated      *)
QuietElsewhere ==
    /\ \A s \in Strands \ {"bcast"} : At(s, "idle") /\ queue[s] = <<>>
    /\ dead = {} /\ giveUp = None /\ discovering = {}

(* Unless treatments have overlapped, an instance that stays alive ends up *)
(* in the topology, and one that is dead is dropped from it, whatever the  *)
(* order of broadcasts, of answers to slotDiscover, of messages to oneself *)
(* and of the timer.                                                       *)
Converges ==
    [](~raced) =>
        \A i \in Instances :
            /\ <>[](i \in alive) => <>[](i \in listed)
            /\ <>[](i \notin alive) => <>[](i \notin listed)

(* Whatever has overlapped before: an update of an instance that is alive  *)
(* but not listed leads to its being listed, even if it is tracked (unless *)
(* its treatment overlaps again).                                          *)
UpdateRepairs ==
    \A i \in Instances :
        (/\ run["bcast"] = [at |-> "deviceclient", slot |-> "updated", id |-> i]
         /\ i \notin listed /\ QuietElsewhere)
            ~> (i \in listed \/ i \notin alive)
=============================================================================
