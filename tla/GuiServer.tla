----------------------------- MODULE GuiServer -----------------------------
(***************************************************************************)
(* karabo::devices::GuiServerDevice (devices/GuiServerDevice.cc) as far as *)
(* its clients see the topology and monitor a device, with the             *)
(* DeviceClient that it uses (DeviceMonitoring, SystemTopology).           *)
(*                                                                         *)
(* The messages of one client are treated one after the other, those of    *)
(* several clients in parallel.  m_channelMutex protects what the clients  *)
(* monitor; it is held while the DeviceClient is told about it.            *)
(***************************************************************************)
EXTENDS DeviceMonitoring

VARIABLES
    channels, \* clients in m_channels
    visible,  \* clients that have the device in visibleInstances
    got,      \* of these, the ones that were sent its configuration since
    ops       \* number of operations of clients and of the device

vars == <<throttler, topology, setup, monitoring, channels, visible, got, ops>>

(* Nothing is known yet, or the clients are logged in, know the topology,  *)
(* and some of them monitor the device, which runs                         *)
Init ==
    /\ TopologyInit /\ ops = 0
    /\ visible = setup.watching /\ got = visible /\ MonitoringInit(visible # {})
    /\ IF visible = {}
       THEN channels = {} /\ listed = NoEntry
       ELSE /\ channels = Clients
            /\ \E info \in setup.infos : listed = [NoEntry EXCEPT ![Device] = info]
    /\ gui = listed

-----------------------------------------------------------------------------
(* Broadcast slots of the DeviceClient.  With the entry of a device goes   *)
(* its configuration.                                                      *)
Forget == cached' = (cached /\ listed'[Device] # None)

slotCalled ==
    /\ \E i \in setup.instances, info \in setup.infos :
          \/ _slotInstanceGone(i) /\ UNCHANGED <<announced, requests>>
          \/ _slotInstanceUpdated(i, info) /\ UNCHANGED <<announced, requests>>
          \/ /\ _slotInstanceNew(i, info)
             /\ IF i = Device THEN announced' = running /\ reconnectSignals
                              ELSE UNCHANGED <<announced, requests>>
    /\ work[Slots] = <<>> /\ Forget
    /\ UNCHANGED <<throttler, setup, work, mutex, usage, immortal, changed, registered,
                   replies, running, early, fooled, channels, visible, got, ops>>

(* A zombie that gets alive again                                          *)
Resurrect == IF immortal THEN <<<<"stayConnected", "configuration">>>> ELSE <<>>

(* The first change is treated: only devices are monitored                 *)
treat ==
    LET c == Head(todo) IN
    /\ todo # <<>> /\ work[Slots] = <<>>
    /\ CASE c.id # Device \/ c.what = "update" ->
              work' = [work EXCEPT ![Slots] = <<<<"submit">>>>]
         [] c.id = Device /\ c.what = "gone" ->
              work' = [work EXCEPT ![Slots] = <<<<"goneHandler">>, <<"submit">>>>]
         [] c.id = Device /\ c.what = "new" ->
              work' = [work EXCEPT ![Slots] = Resurrect \o <<<<"newHandler">>, <<"submit">>>>]
    /\ IF c.what = "new" THEN mergeEntry ELSE UNCHANGED listed
    /\ IF c.what = "gone" /\ c.id = Device
       THEN treatInstanceAsGone ELSE UNCHANGED <<usage, requests, fooled>>
    /\ UNCHANGED <<throttler, todo, calls, setup, mutex, immortal, cached, changed,
                   registered, replies, running, announced, early, channels,
                   visible, got, ops>>

Register == <<<<"stayConnected", "configuration">>, <<"immortalize">>>>
Unregister == <<<<"buryZombie">>, <<"mortalize">>>>

(* instanceNewHandler()                                                    *)
instanceNewHandler ==
    /\ Does(Slots, <<"newHandler">>) /\ Unlocked
    /\ IF visible # {}
       THEN Then(Slots, Register) /\ mutex' = Slots
       ELSE Then(Slots, <<>>) /\ UNCHANGED mutex
    /\ UNCHANGED <<throttler, topology, setup, usage, immortal, cached, changed,
                   requests, registered, replies, running, announced, early,
                   fooled, channels, visible, got, ops>>

(* instanceGoneHandler(): the clients have to ask again                    *)
instanceGoneHandler ==
    /\ Does(Slots, <<"goneHandler">>) /\ Unlocked
    /\ IF visible # {}
       THEN Then(Slots, Unregister) /\ mutex' = Slots
       ELSE Then(Slots, <<>>) /\ UNCHANGED mutex
    /\ visible' = {} /\ got' = {}
    /\ UNCHANGED <<throttler, topology, setup, usage, immortal, cached, changed,
                   requests, registered, replies, running, announced, early,
                   fooled, channels, ops>>

submitChange ==
    /\ Does(Slots, <<"submit">>) /\ Then(Slots, <<>>) /\ submit
    /\ UNCHANGED <<listed, calls, setup, mutex, usage, immortal, cached, changed,
                   requests, registered, replies, running, announced, early,
                   fooled, channels, visible, got, ops>>

(* flushThrottledInstanceChanges() and another                             *)
(* registerInstanceChangeMonitor()                                         *)
throttlerCalled ==
    /\ setup.throttler
    /\ calls < setup.calls /\ calls' = calls + 1
    /\ flush \/ createThrottler
    /\ UNCHANGED <<listed, todo, setup, monitoring, channels, visible, got, ops>>

cycle ==
    /\ setup.throttler
    /\ throttlerTimerExpires \/ runThrottlerCycleAsync
    /\ UNCHANGED <<topology, setup, monitoring, channels, visible, got, ops>>

-----------------------------------------------------------------------------
(* Messages of a client that has nothing else to be treated.  They are     *)
(* read (onRead()) from registerConnect() on and until onError(), which    *)
(* only onRead() calls: meanwhile the client is in m_channels.             *)
Message(c) ==
    /\ work[c] = <<>>
    /\ ops < setup.ops /\ ops' = ops + 1
    /\ UNCHANGED <<throttler, topology, setup, usage, immortal, cached, changed,
                   requests, registered, replies, running, announced, early, fooled>>

(* registerConnect(), when it has logged in                                *)
registerConnect(c) ==
    /\ Message(c) /\ Unlocked
    /\ c \notin channels /\ channels' = channels \cup {c}
    /\ UNCHANGED <<work, mutex, visible, got>>

(* onStartMonitoringDevice(): the device is known if any client, also this *)
(* one, monitors it                                                        *)
onStartMonitoringDevice(c) ==
    /\ c \in channels /\ Message(c) /\ Unlocked
    /\ visible' = visible \cup {c} /\ got' = got \ {c}
    /\ IF visible # {}
       THEN work' = [work EXCEPT ![c] = <<<<"getConfiguration">>>>] /\ UNCHANGED mutex
       ELSE /\ work' = [work EXCEPT ![c] = Append(Register, <<"getConfiguration">>)]
            /\ mutex' = c
    /\ UNCHANGED channels

(* Nobody but c monitors the device (mutant: nobody else is looked for)    *)
ForgetOthers(c) == TRUE
OnlyOne(c) == visible \subseteq {c}

Leave(c, unregister) ==
    /\ visible' = visible \ {c} /\ got' = got \ {c}
    /\ IF unregister
       THEN work' = [work EXCEPT ![c] = Unregister] /\ mutex' = c
       ELSE UNCHANGED <<work, mutex>>

(* onStopMonitoringDevice()                                                *)
onStopMonitoringDevice(c) ==
    /\ c \in channels /\ Message(c) /\ Unlocked
    /\ Leave(c, OnlyOne(c))
    /\ UNCHANGED channels

(* onError(): the client is gone                                           *)
onError(c) ==
    /\ c \in channels /\ Message(c) /\ Unlocked
    /\ Leave(c, c \in visible /\ OnlyOne(c))
    /\ channels' = channels \ {c}

(* onGetDeviceSchema(), if the schema is not cached                        *)
onGetDeviceSchema(c) ==
    /\ c \in channels /\ Message(c)
    /\ work' = [work EXCEPT ![c] = <<<<"stayConnected", "schema">>>>]
    /\ UNCHANGED <<mutex, channels, visible, got>>

(* onGetDeviceConfiguration(): a direct answer, before which get() stays   *)
(* connected (without another request: both look into the cache at once),  *)
(* or a request                                                            *)
onGetDeviceConfiguration(c) ==
    /\ \/ /\ Does(c, <<"getConfiguration">>) /\ UNCHANGED got
          /\ IF cached
             THEN Then(c, <<<<"stayConnected", "schema">>, <<"answer">>>>)
             ELSE Then(c, <<<<"stayConnected", "configuration">>>>)
       \/ /\ Does(c, <<"answer">>) /\ Then(c, <<>>)
          /\ got' = got \cup ({c} \cap visible)
    /\ UNCHANGED <<throttler, topology, setup, mutex, usage, immortal, cached, changed,
                   requests, registered, replies, running, announced, early,
                   fooled, channels, visible, ops>>

(* sendSignalsChanged() and devicesChangedHandler()                        *)
sendSignalsChanged ==
    /\ changed /\ changed' = FALSE /\ Unlocked
    /\ got' = IF cached THEN visible ELSE got
    /\ UNCHANGED <<throttler, topology, setup, work, mutex, usage, immortal, cached,
                   requests, registered, replies, running, announced, early,
                   fooled, channels, visible, ops>>

-----------------------------------------------------------------------------
client == <<channels, visible, got, ops>>

(* The steps of DeviceMonitoring                                           *)
threadStep ==
    /\ \E t \in Threads : \/ connectAndRequest(t) \/ getDeviceSchemaNoWait(t)
                          \/ asyncConnect(t) \/ immortalize(t)
                          \/ buryZombie(t) \/ mortalize(t)
    /\ UNCHANGED <<throttler, topology, setup, client>>

ageing == age /\ UNCHANGED <<throttler, topology, setup, client>>

answer ==
    /\ brokerAnswers
    /\ UNCHANGED <<throttler, topology, setup, client>>

configuration == _slotChanged /\ UNCHANGED <<throttler, todo, calls, setup, client>>

deviceLife ==
    /\ ops < setup.ops /\ ops' = ops + 1
    /\ deviceStarts \/ deviceEnds
    /\ UNCHANGED <<throttler, topology, setup, channels, visible, got>>

Messages ==
    \E c \in Clients : \/ registerConnect(c) \/ onError(c) \/ onGetDeviceSchema(c)
                       \/ onStartMonitoringDevice(c) \/ onStopMonitoringDevice(c)

Thread == threadStep \/ \E c \in Clients : onGetDeviceConfiguration(c)

Slot == treat \/ instanceNewHandler \/ instanceGoneHandler \/ submitChange

Next ==
    \/ slotCalled \/ throttlerCalled \/ Messages \/ deviceLife
    \/ Slot \/ Thread \/ cycle \/ ageing \/ answer \/ configuration \/ sendSignalsChanged

Spec == Init /\ [][Next]_vars

(* Threads go on, timers expire and messages arrive                        *)
FairSpec ==
    /\ Spec /\ WF_vars(Slot) /\ WF_vars(cycle)
    /\ WF_vars(Thread) /\ WF_vars(ageing) /\ WF_vars(answer) /\ WF_vars(configuration)
    /\ WF_vars(sendSignalsChanged)

-----------------------------------------------------------------------------
TypeOK ==
    /\ TopologyTypeOK /\ MonitoringTypeOK
    /\ channels \subseteq Clients /\ visible \subseteq channels /\ got \subseteq visible
    /\ ops \in 0 .. setup.ops

(* A client that monitors a device (onStartMonitoringDevice()) gets its    *)
(* configuration in the end, and the server stays connected to the device  *)
(* as long as somebody monitors it: however logins, lost clients, restarts *)
(* of the device and ageing meet, DeviceClient and GuiServerDevice agree   *)
(* on who is interested.  Of course the device has to run and to be listed *)
(* and its start has to be announced.  Two races of the code are excluded: *)
(* stayConnected() calls its handler before a connection that was asked    *)
(* for is there ("slightly too early", DeviceClient.cc:1745), so that the  *)
(* configuration is cached when a disconnection is still to come or before *)
(* signals arrive; and a device that is gone between the two critical      *)
(* sections of mortalize() (DeviceClient.cc:2137) is a zombie that ages.   *)
WatchedIsServed ==
    <>[](running /\ announced /\ listed[Device] \in Infos /\ ~early /\ ~fooled =>
            visible \subseteq got /\ (visible # {} => registered /\ cached))
=============================================================================
