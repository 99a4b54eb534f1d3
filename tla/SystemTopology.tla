--------------------------- MODULE SystemTopology ---------------------------
(***************************************************************************)
(* The topology as karabo::core::DeviceClient keeps it and reports it to   *)
(* the GUI clients (core/DeviceClient.cc), with the throttler that it      *)
(* reports to.                                                             *)
(*                                                                         *)
(* The slots for new, updated and gone instances are called one after the  *)
(* other here, as they are for broadcasts (Topology shows what else can be *)
(* called), in any order and for any instances: a broadcast may be late,   *)
(* repeated or missing.  A slot changes the topology first and treats the  *)
(* changes afterwards, while cycles of the throttler may end; what else is *)
(* done about a change before it is submitted is in DeviceMonitoring.      *)
(***************************************************************************)
EXTENDS InstanceChangeThrottler, SequencesExt

CONSTANTS
    ServerOf, \* "serverId" of an instance, None if it is no device of a server
    Bare,     \* an entry without instanceInfo, see _slotChanged()
    Setups    \* whether there is a throttler, who monitors a device at first,
              \* and what may happen: numbers of slot calls and of other
              \* operations, and the instances and instanceInfos that slots are
              \* called for

ASSUME SystemAssumption ==
    /\ ServerOf \in [Instances -> Instances \cup {None}] /\ None \notin Instances
    /\ Bare \notin MaybeInfo
    /\ \A s \in Setups : /\ s.calls \in Nat /\ s.ops \in Nat /\ s.throttler \in BOOLEAN
                         /\ s.instances \subseteq Instances /\ s.infos \subseteq Infos

VARIABLES
    listed, \* m_runtimeSystemDescription
    todo,   \* changes that the running slot has still to treat
    calls,  \* number of slot calls
    setup   \* member of Setups

topology == <<listed, todo, calls>>

Change == [what : {"new", "update", "gone"}, id : Instances, info : MaybeInfo]

TopologyInit ==
    /\ setup \in Setups /\ ThrottlerInit
    /\ todo = <<>> /\ calls = 0

(* A slot is called                                                        *)
Called == todo = <<>> /\ calls < setup.calls /\ calls' = calls + 1

(* findAndEraseDevicesAsGone(): the devices of a server that are listed    *)
devicesOfServer(i) == {d \in Instances : ServerOf[d] = i /\ listed[d] \in Infos}

(* _slotInstanceGone(), if the instance is listed                          *)
Without(i) ==
    [j \in Instances |-> IF j \in {i} \cup devicesOfServer(i) THEN None ELSE listed[j]]

GoneChange(i) == [what |-> "gone", id |-> i, info |-> None]

(* The changes that treatInstanceAsGone() is called for, the devices of a  *)
(* server first, in any order                                              *)
GoneChanges(i) ==
    {[k \in DOMAIN s |-> GoneChange(s[k])] : s \in {Append(d, i) : d \in SetToSeqs(devicesOfServer(i))}}

_slotInstanceGone(i) ==
    /\ Called
    /\ IF listed[i] = None
       THEN UNCHANGED <<listed, todo>>
       ELSE listed' = Without(i) /\ todo' \in GoneChanges(i)

(* _slotInstanceNew(): an instance that is listed was killed and restarted *)
(* and is treated as gone first                                            *)
_slotInstanceNew(i, info) ==
    LET new == [what |-> "new", id |-> i, info |-> info] IN
    /\ Called
    /\ IF listed[i] = None
       THEN todo' = <<new>> /\ UNCHANGED listed
       ELSE /\ listed' = Without(i)
            /\ \E gone \in GoneChanges(i) : todo' = Append(gone, new)

(* Then it is listed                                                       *)
mergeEntry == listed' = [listed EXCEPT ![Head(todo).id] = Head(todo).info]

(* _slotInstanceUpdated(): the instance has to be listed                   *)
_slotInstanceUpdated(i, info) ==
    /\ Called
    /\ IF listed[i] = None
       THEN UNCHANGED <<listed, todo>>
       ELSE /\ listed' = [listed EXCEPT ![i] = info]
            /\ todo' = <<[what |-> "update", id |-> i, info |-> info]>>

(* The last step for a change: it is submitted to the throttler            *)
submit ==
    LET c == Head(todo) IN
    /\ todo' = Tail(todo)
    /\ CASE ~setup.throttler -> UNCHANGED throttler
         [] setup.throttler /\ c.what = "new" -> submitInstanceNew(c.id, c.info)
         [] setup.throttler /\ c.what = "update" -> submitInstanceUpdate(c.id, c.info)
         [] setup.throttler /\ c.what = "gone" -> submitInstanceGone(c.id)

-----------------------------------------------------------------------------
TopologyTypeOK ==
    /\ ThrottlerTypeOK
    /\ listed \in [Instances -> MaybeInfo \cup {Bare}] /\ todo \in Seq(Change)
    /\ setup \in Setups /\ calls \in 0 .. setup.calls

(* What getSystemTopology() is for the clients                             *)
Shown == [i \in Instances |-> IF listed[i] = Bare THEN None ELSE listed[i]]

(* What the GUI client shows, with the changes that the throttler still    *)
(* keeps, is what the DeviceClient knows, whenever no slot is running:     *)
(* merging and dropping changes within a cycle loses nothing, although the *)
(* message to the GUI has lost their order.                                *)
GuiAgrees ==
    setup.throttler /\ todo = <<>> => topology_update(instChanges, gui) = Shown

(* The GUI shows the topology in the end, when nothing changes any more:   *)
(* neither a cycle that was flushed early nor one without changes ends the *)
(* sequence of cycles.                                                     *)
GuiCatchesUp == <>[](setup.throttler => gui = Shown)
=============================================================================
