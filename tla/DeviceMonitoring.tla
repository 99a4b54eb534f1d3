-------------------------- MODULE DeviceMonitoring --------------------------
(***************************************************************************)
(* How karabo::core::DeviceClient (core/DeviceClient.cc) follows a device  *)
(* that somebody monitors: it connects to the signals of the device, keeps *)
(* its configuration in m_runtimeSystemDescription, and disconnects some   *)
(* time after the last interest in the device ("ageing"), unless there is  *)
(* a monitor, which makes the device "immortal".  An immortal that is gone *)
(* is a "zombie".                                                          *)
(*                                                                         *)
(* Several threads do so: the handlers of the GUI clients, the strand of   *)
(* the broadcast slots and timers.  What a thread has still to do is a     *)
(* sequence of steps, each of which is one critical section.  Connections  *)
(* are made and undone by the broker in the order in which that was asked  *)
(* for, and all succeed (AmqpClient shows how).  A configuration is either *)
(* cached or not; only complete ones are modelled, as they are requested   *)
(* after connecting.                                                       *)
(***************************************************************************)
EXTENDS SystemTopology

CONSTANTS
    Device,    \* the instance that can be monitored
    Clients,   \* the GUI clients, each with a thread
    Slots,     \* the thread of the broadcast slots
    KeepAlive  \* CONNECTION_KEEP_ALIVE

ASSUME MonitoringAssumption ==
    /\ Device \in Instances /\ Slots \notin Clients
    /\ KeepAlive \in Nat \ {0, 1}
    /\ \A s \in Setups : s.watching \subseteq Clients

VARIABLES
    work,       \* steps that each thread has to do
    mutex,      \* holder of GuiServerDevice::m_channelMutex, None if free
    usage,      \* entry of m_instanceUsage, None if there is none
    immortal,   \* whether the device is in m_immortals
    cached,     \* whether its configuration is cached
    changed,    \* whether it has an entry in m_signalsChanged
    requests,   \* subscriptions that the broker has to do or to undo
    registered, \* whether _slotChanged is in m_slotsForSignals of the device
    replies,    \* configurations on the way to _slotChanged()
    running,    \* whether the device runs
    announced,  \* whether it was announced as new since it runs
    early,      \* whether its configuration was last asked for unconnected
    fooled      \* whether ageing took a zombie for a connected device

monitoring == <<work, mutex, usage, immortal, cached, changed, requests,
                registered, replies, running, announced, early, fooled>>

Threads == Clients \cup {Slots}

(* Nobody monitors the device, which does not run, or it is monitored      *)
MonitoringInit(monitored) ==
    /\ work = [t \in Threads |-> <<>>] /\ mutex = None
    /\ usage = IF monitored THEN 0 ELSE None
    /\ immortal = monitored /\ cached = monitored /\ registered = monitored
    /\ running = monitored /\ announced = monitored
    /\ requests = <<>> /\ replies = 0
    /\ changed = FALSE /\ early = FALSE /\ fooled = FALSE

(* Thread t does step s next, and goes on with the others                  *)
Does(t, s) == work[t] # <<>> /\ Head(work[t]) = s
Then(t, steps) == work' = [work EXCEPT ![t] = steps \o Tail(@)]
Unlocked == mutex = None

(* requestNoWait() for slotGetConfiguration(), which nobody serves if the  *)
(* device does not run                                                     *)
slotGetConfiguration == replies' = IF running THEN replies + 1 ELSE replies

(* connectNeeded(): a new entry, or one of a zombie                        *)
Needed == usage = None \/ usage < 0 \/ usage >= KeepAlive

(* Somebody is about to ask for a connection                               *)
Connecting == \E t \in Threads : \E k \in DOMAIN work[t] : work[t][k][1] = "asyncConnect"

(* The connection is there, and nobody is about to end or to make it       *)
Reliable == registered /\ ~Connecting /\ "disconnect" \notin Range(requests)

(* stayConnected(), where the handler asks for the configuration           *)
(* (connectAndRequest(), getConfigurationNoWait()) or only for the schema  *)
(* (getDeviceSchemaNoWait())                                               *)
stayConnected(t, handler) ==
    /\ usage' = 0
    /\ IF Needed
       THEN Then(t, <<<<"asyncConnect", handler>>>>) /\ fooled' = FALSE
            /\ UNCHANGED <<replies, early>>
       ELSE Then(t, <<>>) /\ UNCHANGED fooled
            /\ IF handler = "configuration"
               THEN slotGetConfiguration /\ early' = ~Reliable
               ELSE UNCHANGED <<replies, early>>

connectAndRequest(t) ==
    /\ Does(t, <<"stayConnected", "configuration">>)
    /\ stayConnected(t, "configuration")
    /\ UNCHANGED <<mutex, immortal, cached, changed, requests, registered, running,
                   announced>>

getDeviceSchemaNoWait(t) ==
    /\ Does(t, <<"stayConnected", "schema">>)
    /\ stayConnected(t, "schema")
    /\ UNCHANGED <<mutex, immortal, cached, changed, requests, registered, running,
                   announced>>

(* asyncConnect(), or connect(): the connection is stored and the broker   *)
(* asked for it, for both slots of the device at once.  A disconnect()     *)
(* between these calls is taken as one before them: in either case         *)
(* m_instanceUsage has no connected device any more, and the next          *)
(* stayConnected() connects again.  What differs is that the connection is *)
(* not stored until then, so that reconnectSignals() leaves it out.        *)
asyncConnect(t) ==
    \E handler \in {"configuration", "schema"} :
        /\ Does(t, <<"asyncConnect", handler>>) /\ Then(t, <<>>)
        /\ requests' = Append(requests, handler)
        /\ UNCHANGED <<mutex, usage, immortal, cached, changed, registered,
                       replies, running, announced, early, fooled>>

(* m_signalSlotConnections: what was asked for last                        *)
Stored == IF requests = <<>> THEN registered ELSE Last(requests) # "disconnect"

(* reconnectSignals(), called for a new instance before _slotInstanceNew() *)
reconnectSignals == requests' = IF Stored THEN Append(requests, "reconnect") ELSE requests

(* immortalize(), after which the monitor's mutex is released              *)
immortalize(t) ==
    /\ Does(t, <<"immortalize">>) /\ Then(t, <<>>)
    /\ immortal' = TRUE /\ mutex' = None
    /\ UNCHANGED <<usage, cached, changed, requests, registered, replies,
                   running, announced, early, fooled>>

(* mortalize(): a zombie dies first                                        *)
buryZombie(t) ==
    /\ Does(t, <<"buryZombie">>) /\ Then(t, <<>>)
    /\ usage' = IF usage # None /\ usage < 0 THEN None ELSE usage
    /\ UNCHANGED <<mutex, immortal, cached, changed, requests, registered,
                   replies, running, announced, early, fooled>>

mortalize(t) ==
    /\ Does(t, <<"mortalize">>) /\ Then(t, <<>>)
    /\ immortal' = FALSE /\ mutex' = None
    /\ UNCHANGED <<usage, cached, changed, requests, registered, replies,
                   running, announced, early, fooled>>

(* treatInstanceAsGone(): also a zombie is disconnected (mutant: it keeps  *)
(* its age)                                                                *)
KeepAge == usage
UsageIfGone == IF immortal THEN -1 ELSE None

treatInstanceAsGone ==
    IF usage = None
    THEN UNCHANGED <<usage, requests, fooled>>
    ELSE /\ usage' = UsageIfGone /\ requests' = Append(requests, "disconnect")
         /\ fooled' = FALSE

(* A thread that has called connectAndRequest() calls immortalize() within *)
(* the CONNECTION_KEEP_ALIVE rounds of ageing, i.e. 15 seconds             *)
Prompt == \A t \in Threads : <<"immortalize">> \notin Range(work[t])

(* age()                                                                   *)
age ==
    /\ usage # None /\ ~immortal
    /\ usage + 1 >= KeepAlive => Prompt
    /\ IF usage + 1 >= KeepAlive
       THEN /\ usage' = None /\ requests' = Append(requests, "disconnect")
            /\ fooled' = FALSE
       ELSE /\ usage' = usage + 1 /\ UNCHANGED requests
            /\ fooled' = (fooled \/ usage < 0)
    /\ UNCHANGED <<work, mutex, immortal, cached, changed, registered, replies,
                   running, announced, early>>

(* The broker has done what is asked for first, and the handler is called: *)
(* the success handler of stayConnected(), or disconnectHandler()          *)
brokerAnswers ==
    /\ requests # <<>> /\ requests' = Tail(requests)
    /\ registered' = (Head(requests) # "disconnect")
    /\ IF Head(requests) = "configuration"
       THEN slotGetConfiguration /\ early' = FALSE
       ELSE UNCHANGED <<replies, early>>
    /\ cached' = (cached /\ Head(requests) # "disconnect")
    /\ UNCHANGED <<work, mutex, usage, immortal, changed, running, announced, fooled>>

(* _slotChanged(): an instance that is not listed becomes a bare entry     *)
_slotChanged ==
    /\ replies > 0 /\ replies' = replies - 1
    /\ cached' = TRUE /\ changed' = TRUE
    /\ listed' = IF listed[Device] = None THEN [listed EXCEPT ![Device] = Bare] ELSE listed
    /\ UNCHANGED <<work, mutex, usage, immortal, requests, registered, running,
                   announced, early, fooled>>

(* The device starts or ends                                               *)
deviceStarts ==
    /\ ~running /\ running' = TRUE /\ announced' = FALSE
    /\ UNCHANGED <<work, mutex, usage, immortal, cached, changed, requests, registered,
                   replies, early, fooled>>

deviceEnds ==
    /\ running /\ running' = FALSE
    /\ UNCHANGED <<work, mutex, usage, immortal, cached, changed, requests, registered,
                   replies, announced, early, fooled>>

-----------------------------------------------------------------------------
Step == {<<"stayConnected", "configuration">>, <<"stayConnected", "schema">>,
         <<"asyncConnect", "configuration">>, <<"asyncConnect", "schema">>,
         <<"immortalize">>, <<"buryZombie">>, <<"mortalize">>,
         <<"goneHandler">>, <<"newHandler">>, <<"submit">>, <<"getConfiguration">>,
         <<"answer">>}

MonitoringTypeOK ==
    /\ work \in [Threads -> Seq(Step)] /\ mutex \in Threads \cup {None}
    /\ usage \in {None} \cup -1 .. KeepAlive - 1
    /\ requests \in Seq({"configuration", "schema", "reconnect", "disconnect"})
    /\ replies \in Nat
    /\ {immortal, cached, changed, registered, running, announced, early, fooled}
         \subseteq BOOLEAN

(* What m_instanceUsage says is true (stayConnected(), DeviceClient.cc:    *)
(* 1727): a device that it counts as connected is connected, or will be    *)
(* when the broker has done what it was asked for, whichever way the       *)
(* threads that connect, disconnect and bury zombies meet.  The exception  *)
(* is a zombie that became mortal just when mortalize() had looked for     *)
(* zombies, and grew older.                                                *)
UsageIsTrue ==
    usage # None /\ usage # -1 /\ ~fooled =>
        Connecting \/ Stored
=============================================================================
