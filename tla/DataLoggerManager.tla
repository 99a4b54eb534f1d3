------------------------- MODULE DataLoggerManager -------------------------
(***************************************************************************)
(* The DataLoggerManager (devices/DataLoggerManager.cc), with the loggers, *)
(* their servers and the devices to be logged.  All that the manager does  *)
(* is posted to its strand m_strand, so each of its functions is one step. *)
(* What DeviceClient reports about instances is in order (news); answers   *)
(* and timeouts of requests come at any time.                              *)
(*                                                                         *)
(* Messages of the manager to a logger arrive in order, or are lost if the *)
(* logger is gone.  The class of the loggers is on the block list, so that *)
(* loggers do not log each other.  Readers are left out.                   *)
(***************************************************************************)
EXTENDS DataLogger, Sequences, FiniteSetsExt
CONSTANTS
    ServerList, \* m_serverList
    ClassOf,    \* the class of each device
    None,
    MaxAsked,   \* bound on the requests slotAddDevicesToBeLogged
    MaxFaults,  \* bound on the instances that go and on other events from outside
    MaxSlow     \* bound on the answers that come too late

(* "serverList" must not be empty.                                         *)
ASSUME ServerListAssumption ==
    /\ ServerList \in Seq(Servers) /\ ServerList # <<>>
    /\ Servers = {ServerList[i] : i \in 1..Len(ServerList)}
ASSUME InstancesAssumption == None \notin Servers /\ IsFiniteSet(Devices)

VARIABLES
    m_loggerData,   \* state, backlog, beingAdded and devices of each server
    m_loggerMap,    \* the server of each device (kept in a file)
    m_serverIndex,  \* the server to be taken next
    m_blocked,      \* devices and classes not to be logged (kept in a file)
    known,          \* m_knownClasses: devices reported as new and not as gone
    asked,          \* requests slotAddDevicesToBeLogged going on
    starts,         \* number of requests slotStartDevice going on, by server
    posted,         \* other functions posted to the strand
    check,          \* the topology check
    news,           \* instances reported as new or gone
    toLogger,       \* messages to the logger of each server
    serverUp,       \* the servers that are running
    starting,       \* the servers whose logger is being instantiated
    faults,         \* how many events from outside may still happen
    mishap          \* what is known to leave a device without logging

managerVars == <<m_loggerData, m_loggerMap, m_serverIndex, m_blocked, known, asked,
                 starts, posted, check>>
environment == <<news, toLogger, serverUp, starting, faults, mishap>>
vars == <<loggerVars, managerVars, environment>>

Classes == {ClassOf[d] : d \in Devices}

NoData == [state |-> "OFFLINE", backlog |-> {}, beingAdded |-> {}, devices |-> {}]

(* A check is posted, or waits for counted answers (a logger's or, for a   *)
(* logger, devices'), or its end is posted, or the timer for it is armed.  *)
NoCheck ==
    [timer      |-> FALSE, posted |-> FALSE, launch |-> 0,
     loggers    |-> 0,                           \* loggerCounter
     devices    |-> [s \in Servers |-> 0],       \* loggedDevCounter
     queries    |-> {},                          \* requests slotGetConfiguration
     empty      |-> [s \in Servers |-> {}],      \* emptyTimestamp of m_checkStatus
     emptyLast  |-> [s \in Servers |-> {}]]      \* emptyTimestampLast of m_checkStatus

(* The status OFFLINE, without devices, and the end of initialize().       *)
ManagerStarted == /\ m_loggerData = [s \in Servers |-> NoData]
                  /\ known = {} /\ asked = {} /\ posted = <<>>
                  /\ starts = [s \in Servers |-> 0]
                  /\ check = [NoCheck EXCEPT !.launch = 1]

Init ==
    /\ logger = [s \in Servers |-> Fresh]
    /\ loggerUp = {} /\ deviceUp = {} /\ serverUp = {} /\ starting = {}
    /\ slow = MaxSlow /\ faults = MaxFaults /\ mishap = {}
    /\ m_loggerMap = [d \in Devices |-> None]
    /\ m_serverIndex = 0
    /\ m_blocked = {}
    /\ ManagerStarted
    /\ news = <<>>
    /\ toLogger = [s \in Servers |-> <<>>]

(***************************************************************************)
(* What a function on the strand works on: the data of the manager and the *)
(* messages it sends.                                                      *)
(***************************************************************************)
Current == [data |-> m_loggerData, map |-> m_loggerMap, index |-> m_serverIndex,
            asked |-> asked, to |-> toLogger]

Becomes(w) ==
    /\ m_loggerData' = w.data
    /\ m_loggerMap' = w.map
    /\ m_serverIndex' = w.index
    /\ asked' = w.asked
    /\ toLogger' = w.to

Send(w, s, message) ==
    IF s \in loggerUp THEN [w EXCEPT !.to[s] = Append(@, message)] ELSE w

(* A number no request and no message bears.                               *)
Unused(w) ==
    (1..MaxAsked) \ ({a.id : a \in w.asked}
                     \cup {m.id : m \in UNION {{w.to[s][i] : i \in 1..Len(w.to[s])} : s \in Servers}})

(* A function adds each device to be logged at most once.                  *)
MayAsk == Cardinality(Unused(Current)) >= Cardinality(Devices)

(* loggerServerId(): the server of d according to the map.                 *)
loggerServerId(w, d) ==
    IF w.map[d] # None THEN w
    ELSE LET i == w.index % Len(ServerList)
         IN  [w EXCEPT !.map[d] = ServerList[i + 1], !.index = i + 1]

(* The backlog is sent to the logger.                                      *)
addDevicesToBeLogged(w, s) ==
    LET data == w.data[s]
        id   == Min(Unused(w))
        request == [id |-> id, server |-> s, devices |-> data.backlog, answered |-> FALSE]
    IN  IF data.backlog = {} THEN w
        ELSE Send([w EXCEPT !.data[s].beingAdded = @ \cup data.backlog,
                            !.data[s].backlog = {},
                            !.asked = @ \cup {request}],
                  s, [type |-> "add", id |-> id, devices |-> data.backlog])

newDeviceToLog(w, d) ==
    LET mapped == loggerServerId(w, d)
        s == mapped.map[d]
        noted == [mapped EXCEPT !.data[s].backlog = @ \cup {d}]
    IN  IF noted.data[s].state = "RUNNING" THEN addDevicesToBeLogged(noted, s) ELSE noted

Tag(d) == [type |-> "tag", id |-> 0, devices |-> {d}]

goneDeviceToLog(w, d) ==
    LET s == w.map[d]
        erased == [w EXCEPT !.data[s].backlog = @ \ {d}, !.data[s].beingAdded = @ \ {d},
                            !.data[s].devices = @ \ {d}]
    IN  IF s = None THEN w
        ELSE IF w.data[s].state = "RUNNING" THEN Send(erased, s, Tag(d)) ELSE erased

(* The device is removed and added anew (mutant: only added).              *)
ForceByAdding(w, d) == newDeviceToLog(w, d)

forceDeviceToBeLogged(w, d) == newDeviceToLog(goneDeviceToLog(w, d), d)

(* What is done for one of several devices, and for each of them.          *)
One(how, w, d) ==
    CASE how = "gone"  -> goneDeviceToLog(w, d)
      [] how = "new"   -> newDeviceToLog(w, d)
      [] how = "force" -> forceDeviceToBeLogged(w, d)

Each(how, w, devices) == FoldSet(LAMBDA d, v : One(how, v, d), w, devices)

newLogger(w, s) == addDevicesToBeLogged([w EXCEPT !.data[s].state = "RUNNING"], s)

(* Devices logged or being added are put to the backlog (mutant: those     *)
(* being added are not).                                                   *)
ForgetBeingAdded(data) ==
    [data EXCEPT !.backlog = data.backlog \cup data.devices, !.devices = {}, !.beingAdded = {}]

BackToBacklog(data) ==
    [data EXCEPT !.backlog = data.backlog \cup data.devices \cup data.beingAdded,
                 !.devices = {}, !.beingAdded = {}]

Blocked(blocked, d) == d \in blocked \/ ClassOf[d] \in blocked

(***************************************************************************)
(* The functions of the manager, on its strand.                            *)
(***************************************************************************)
Reported(kind, type, id) ==
    /\ news # <<>> /\ Head(news) = [kind |-> kind, type |-> type, id |-> id]
    /\ news' = Tail(news)

instanceNewDevice(d) ==
    /\ Reported("new", "device", d) /\ MayAsk
    /\ known' = known \cup {d}
    /\ Becomes(IF Blocked(m_blocked, d) THEN Current ELSE newDeviceToLog(Current, d))
    /\ UNCHANGED <<loggerVars, m_blocked, starts, posted, check, serverUp, starting, faults, mishap>>

instanceNewLogger(s) ==
    /\ Reported("new", "logger", s) /\ MayAsk
    /\ Becomes(newLogger(Current, s))
    /\ UNCHANGED <<loggerVars, m_blocked, known, starts, posted, check, serverUp, starting, faults, mishap>>

(* The logger is to be instantiated, whatever its state is believed to be. *)
instantiateLogger(s, data) ==
    /\ m_loggerData' = [m_loggerData EXCEPT ![s] = [data EXCEPT !.state = "INSTANTIATING"]]
    /\ starts' = IF s \in serverUp THEN [starts EXCEPT ![s] = @ + 1] ELSE starts

newLoggerServer(s) ==
    /\ Reported("new", "server", s)
    /\ instantiateLogger(s, m_loggerData[s])
    /\ UNCHANGED <<loggerVars, m_loggerMap, m_serverIndex, m_blocked, known, asked, posted,
                   check, toLogger, serverUp, starting, faults, mishap>>

instanceGoneDevice(d) ==
    /\ Reported("gone", "device", d)
    /\ known' = known \ {d}
    /\ Becomes(goneDeviceToLog(Current, d))
    /\ UNCHANGED <<loggerVars, m_blocked, starts, posted, check, serverUp, starting, faults, mishap>>

goneLogger(s) ==
    /\ Reported("gone", "logger", s)
    /\ IF m_loggerData[s].state = "OFFLINE" THEN UNCHANGED <<m_loggerData, starts>>
       ELSE instantiateLogger(s, BackToBacklog(m_loggerData[s]))
    /\ UNCHANGED <<loggerVars, m_loggerMap, m_serverIndex, m_blocked, known, asked, posted,
                   check, toLogger, serverUp, starting, faults, mishap>>

goneLoggerServer(s) ==
    /\ Reported("gone", "server", s)
    /\ m_loggerData' = [m_loggerData EXCEPT ![s] = [BackToBacklog(@) EXCEPT !.state = "OFFLINE"]]
    /\ UNCHANGED <<loggerVars, m_loggerMap, m_serverIndex, m_blocked, known, asked, starts,
                   posted, check, toLogger, serverUp, starting, faults, mishap>>

(* The logger confirms.  All devices of the request count as logged, also  *)
(* those that are gone or blocked meanwhile, and those that its successor  *)
(* has been asked for since it died.                                       *)
addDevicesDone(a) ==
    /\ a \in asked /\ a.answered
    /\ asked' = asked \ {a}
    /\ m_loggerData' = [m_loggerData EXCEPT
           ![a.server].beingAdded = @ \ a.devices, ![a.server].devices = @ \cup a.devices]
    /\ mishap' = IF \E b \in asked' : b.server = a.server /\ b.devices \cap a.devices # {}
                 THEN mishap \cup {"confirmed"} ELSE mishap
    /\ UNCHANGED <<loggerVars, m_loggerMap, m_serverIndex, m_blocked, known, starts, posted,
                   check, news, toLogger, serverUp, starting, faults>>

Answerable(s, id) == \E i \in 1..Len(toLogger[s]) : toLogger[s][i].id = id

(* Nobody answers (any more), or an answer comes too late.                 *)
TimesOut(answerable) ==
    \/ ~answerable /\ slow' = slow
    \/ answerable /\ slow > 0 /\ slow' = slow - 1

addDevicesFailed(a) ==
    LET again == a.devices \cap m_loggerData[a.server].beingAdded
        w == [Current EXCEPT !.asked = @ \ {a},
                             !.data[a.server].backlog = @ \cup again,
                             !.data[a.server].beingAdded = @ \ again]
    IN  /\ a \in asked /\ Unused(w) # {}
        /\ TimesOut(a.answered \/ Answerable(a.server, a.id))
        /\ Becomes(IF w.data[a.server].state = "RUNNING"
                   THEN addDevicesToBeLogged(w, a.server) ELSE w)
        /\ UNCHANGED <<logger, loggerUp, deviceUp, m_blocked, known, starts, posted, check, news,
                       serverUp, starting, faults, mishap>>

(* newLogger() as posted by loggerInstantiationHandler().                  *)
newLoggerPosted ==
    /\ posted # <<>> /\ Head(posted).task = "newLogger" /\ MayAsk
    /\ posted' = Tail(posted)
    /\ Becomes(newLogger(Current, Head(posted).server))
    /\ UNCHANGED <<loggerVars, m_blocked, known, starts, check, news, serverUp, starting, faults, mishap>>

(* The devices on a block list: by their ids, and by their classes as far  *)
(* as they are known.                                                      *)
OnList(list) == (list \cap Devices) \cup {d \in known : ClassOf[d] \in list}

evaluateBlockedOnStrand ==
    LET old == OnList(Head(posted).old)
        new == OnList(Head(posted).new)
    IN  /\ posted # <<>> /\ Head(posted).task = "evaluate" /\ MayAsk
        /\ posted' = Tail(posted)
        /\ Becomes(Each("new", Each("gone", Current, new \ old), old \ new))
        /\ UNCHANGED <<loggerVars, m_blocked, known, starts, check, news, serverUp, starting, faults, mishap>>

(* A device or class is put on the block list or removed from it.          *)
preReconfigure(x) ==
    LET new == IF x \in m_blocked THEN m_blocked \ {x} ELSE m_blocked \cup {x}
    IN  /\ faults > 0 /\ faults' = faults - 1
        /\ m_blocked' = new
        /\ posted' = Append(posted, [task |-> "evaluate", server |-> None,
                                     old |-> m_blocked, new |-> new])
        /\ UNCHANGED <<loggerVars, m_loggerData, m_loggerMap, m_serverIndex, known, asked, starts,
                       check, news, toLogger, serverUp, starting, mishap>>

(***************************************************************************)
(* The topology check: loggers are asked when they have logged last, and   *)
(* for devices where that is long ago the device is asked as well.         *)
(***************************************************************************)
NoStamps == [d \in Devices |-> "absent"]

Query(s, d, behind) ==
    [server |-> s, device |-> d, answered |-> FALSE, stamps |-> NoStamps, behind |-> behind]

Config == [type |-> "config", id |-> MaxAsked + 1, devices |-> {}]

(* Nothing is going on but attempts to connect to devices that are gone.   *)
Quiet ==
    /\ news = <<>> /\ posted = <<>> /\ asked = {}
    /\ \A s \in Servers :
          /\ starts[s] = 0 /\ s \notin starting
          /\ toLogger[s] = <<>> /\ logger[s].configs = {}
          /\ \A d \in deviceUp : /\ logger[s].chain[d] = "idle"
                                /\ \A k \in Steps : logger[s].outdated[d][k] = 0

(* The timer expires.  Regular checks are at least a minute apart: what    *)
(* the last one caused has settled (an assumption on the time it takes).   *)
topologyCheck ==
    /\ check.timer /\ Quiet
    /\ check' = [check EXCEPT !.timer = FALSE, !.posted = TRUE]
    /\ UNCHANGED <<loggerVars, m_loggerData, m_loggerMap, m_serverIndex, m_blocked, known, asked,
                   starts, posted, environment>>

(* Somebody asks for a check, at any time: if the timer can be cancelled,  *)
(* the check is started.                                                   *)
topologyCheck_slotForceCheck ==
    /\ check.timer /\ faults > 0 /\ faults' = faults - 1
    /\ check' = [check EXCEPT !.timer = FALSE, !.posted = TRUE]
    /\ UNCHANGED <<loggerVars, m_loggerData, m_loggerMap, m_serverIndex, m_blocked, known, asked,
                   starts, posted, news, toLogger, serverUp, starting, mishap>>

topologyCheckOnStrand ==
    LET running == {s \in Servers : m_loggerData[s].state = "RUNNING"}
    IN  /\ check.posted
        /\ check' = [check EXCEPT !.posted = FALSE,
                                  !.loggers = Cardinality(running),
                                  !.queries = {Query(s, None, FALSE) : s \in running},
                                  !.launch = IF running = {} THEN @ + 1 ELSE @]
        /\ toLogger' = [s \in Servers |-> IF s \in running \cap loggerUp
                                          THEN Append(toLogger[s], Config) ELSE toLogger[s]]
        /\ UNCHANGED <<loggerVars, m_loggerData, m_loggerMap, m_serverIndex, m_blocked, known, asked,
                       starts, posted, news, serverUp, starting, faults, mishap>>

(* One more logger is done with; the last one ends the check.              *)
LoggerDone(c) == [c EXCEPT !.loggers = @ - 1, !.launch = IF c.loggers = 1 THEN @ + 1 ELSE @]

(* One more device of s is done with; the last one is the last of s.       *)
DeviceDone(c, s) ==
    LET counted == [c EXCEPT !.devices[s] = @ - 1]
    IN  IF counted.devices[s] = 0 THEN LoggerDone(counted) ELSE counted

(* A logger has answered; the stamps of the devices "old" are long ago,    *)
(* and those "updated" of them have changed since.  A device without stamp *)
(* in two successive checks is added anew.                                 *)
checkLoggerConfig(q, old, updated) ==
    LET s      == q.server
        empty  == {d \in Devices : q.stamps[d] = "empty"}
        forced == empty \cap check.emptyLast[s]
        c      == [check EXCEPT !.queries = (@ \ {q}) \cup {Query(s, d, d \in updated) : d \in old},
                                !.devices[s] = Cardinality(old),
                                !.empty[s] = empty]
    IN  /\ q \in check.queries /\ q.device = None /\ q.answered /\ MayAsk
        /\ old \subseteq {d \in Devices : q.stamps[d] = "stamp"}
        /\ check' = IF old = {} THEN LoggerDone(c) ELSE c
        /\ Becomes(Each("force", Current, forced))
        /\ UNCHANGED <<loggerVars, m_blocked, known, starts, posted, news, serverUp, starting, faults, mishap>>

checkLoggerConfigFailed(q) ==
    /\ q \in check.queries /\ q.device = None
    /\ TimesOut(q.answered \/ Answerable(q.server, Config.id))
    /\ check' = LoggerDone([check EXCEPT !.queries = @ \ {q}])
    /\ UNCHANGED <<logger, loggerUp, deviceUp, m_loggerData, m_loggerMap, m_serverIndex, m_blocked,
                   known, asked, starts, posted, environment>>

(* A device has answered: it may have updates that its logger missed.      *)
checkDeviceConfig(q) ==
    /\ q \in check.queries /\ q.device # None /\ q.answered /\ MayAsk
    /\ check' = DeviceDone([check EXCEPT !.queries = @ \ {q}], q.server)
    /\ Becomes(IF q.behind THEN forceDeviceToBeLogged(Current, q.device) ELSE Current)
    /\ UNCHANGED <<loggerVars, m_blocked, known, starts, posted, news, serverUp, starting, faults, mishap>>

(* A device that does not answer and is not confirmed to be logged: the    *)
(* logger shall not try it any more - also if it is just being added.      *)
checkDeviceConfigFailed(q) ==
    LET data == m_loggerData[q.server]
    IN  /\ q \in check.queries /\ q.device # None
        /\ TimesOut(q.answered \/ q.device \in deviceUp)
        /\ check' = DeviceDone([check EXCEPT !.queries = @ \ {q}], q.server)
        /\ \/ /\ q.device \in data.devices
              /\ UNCHANGED <<toLogger, mishap>>
           \/ /\ q.device \notin data.devices
              /\ toLogger' = Send(Current, q.server, Tag(q.device)).to
              /\ mishap' = IF q.device \in data.beingAdded THEN mishap \cup {"stopped"} ELSE mishap
        /\ UNCHANGED <<logger, loggerUp, deviceUp, m_loggerData, m_loggerMap, m_serverIndex, m_blocked,
                       known, asked, starts, posted, news, serverUp, starting, faults>>

(* The results are published, the timer for the next check is armed.       *)
launchTopologyCheck ==
    /\ check.launch > 0
    /\ check' = [check EXCEPT !.launch = @ - 1, !.timer = TRUE,
                              !.emptyLast = check.empty, !.empty = NoCheck.empty]
    /\ UNCHANGED <<loggerVars, m_loggerData, m_loggerMap, m_serverIndex, m_blocked, known, asked,
                   starts, posted, environment>>

(***************************************************************************)
(* Loggers, servers and devices.                                           *)
(***************************************************************************)
(* A logger treats the next message.                                       *)
receive(s) ==
    LET message == Head(toLogger[s])
        L == logger[s]
    IN  /\ s \in loggerUp /\ toLogger[s] # <<>>
        /\ toLogger' = [toLogger EXCEPT ![s] = Tail(@)]
        /\ \/ /\ message.type = "tag"
              /\ \E d \in message.devices :
                    logger' = [logger EXCEPT ![s] = slotTagDeviceToBeDiscontinued(L, d)]
              /\ UNCHANGED <<asked, check>>
           \/ /\ message.type = "add"
              /\ logger' = [logger EXCEPT ![s] = slotAddDevicesToBeLogged(L, message.devices)]
              /\ asked' = {[a EXCEPT !.answered = @ \/ a.id = message.id] : a \in asked}
              /\ UNCHANGED check
           \/ /\ message.type = "config"
              /\ logger' = [logger EXCEPT ![s] = updateTableAndFlush(L)]
              /\ check' = [check EXCEPT !.queries =
                     {IF q.server = s /\ q.device = None
                      THEN [q EXCEPT !.answered = TRUE, !.stamps = logger'[s].stamps]
                      ELSE q : q \in check.queries}]
              /\ UNCHANGED asked
        /\ Bounded(logger'[s])
        /\ UNCHANGED <<loggerUp, deviceUp, slow, m_loggerData, m_loggerMap, m_serverIndex, m_blocked,
                       known, starts, posted, news, serverUp, starting, faults, mishap>>

(* A device answers the manager.  Its logger is behind if the device was   *)
(* updated since the stamp that the logger gave, and is not logged.        *)
answerQuery(q) ==
    /\ q \in check.queries /\ q.device \in deviceUp /\ ~q.answered
    /\ check' = [check EXCEPT !.queries = (@ \ {q}) \cup
           {[q EXCEPT !.answered = TRUE,
                      !.behind = @ /\ logger[q.server].level[q.device] # "COMPLETE"]}]
    /\ UNCHANGED <<loggerVars, m_loggerData, m_loggerMap, m_serverIndex, m_blocked, known, asked,
                   starts, posted, environment>>

Tell(kind, type, id) == [kind |-> kind, type |-> type, id |-> id]

(* What loggerInstantiationHandler() makes of a failure: the test for the  *)
(* two messages that mean that the logger is there already holds for any   *)
(* message.                                                                *)
loggerInstantiationHandler(s) ==
    Append(posted, [task |-> "newLogger", server |-> s, old |-> {}, new |-> {}])

(* A server treats slotStartDevice: the logger is there or starts already, *)
(* or begins to start.  An answer that comes too late is not treated.      *)
slotStartDevice(s) ==
    /\ starts[s] > 0 /\ starts' = [starts EXCEPT ![s] = @ - 1]
    /\ \/ /\ s \in loggerUp \cup starting
          /\ posted' = loggerInstantiationHandler(s)
          /\ UNCHANGED <<slow, starting, mishap>>
       \/ /\ s \in loggerUp \cup starting /\ slow > 0 /\ slow' = slow - 1
          /\ mishap' = mishap \cup {"notStarted"}
          /\ UNCHANGED <<posted, starting>>
       \/ /\ s \notin loggerUp \cup starting
          /\ starting' = starting \cup {s}
          /\ UNCHANGED <<slow, posted, mishap>>
    /\ UNCHANGED <<logger, loggerUp, deviceUp, m_loggerData, m_loggerMap, m_serverIndex, m_blocked,
                   known, asked, check, news, toLogger, serverUp, faults>>

(* The logger is up; the answer that it has started is only logged.        *)
loggerStarted(s) ==
    /\ s \in starting /\ starting' = starting \ {s}
    /\ loggerUp' = loggerUp \cup {s}
    /\ news' = Append(news, Tell("new", "logger", s))
    /\ UNCHANGED <<logger, deviceUp, slow, managerVars, toLogger, serverUp, faults, mishap>>

(* It cannot be started.  The answer may come too late, or be for a        *)
(* manager that has been restarted since.                                  *)
loggerNotStarted(s) ==
    /\ s \in starting /\ starting' = starting \ {s}
    /\ faults > 0 /\ faults' = faults - 1
    /\ posted' \in {posted, loggerInstantiationHandler(s)}
    /\ mishap' = mishap \cup {"notStarted"}
    /\ UNCHANGED <<loggerVars, m_loggerData, m_loggerMap, m_serverIndex, m_blocked, known, asked,
                   starts, check, news, toLogger, serverUp>>

startServer(s) ==
    /\ s \notin serverUp
    /\ serverUp' = serverUp \cup {s}
    /\ news' = Append(news, Tell("new", "server", s))
    /\ UNCHANGED <<loggerVars, managerVars, toLogger, starting, faults, mishap>>

LoggerLost(s) ==
    /\ loggerUp' = loggerUp \ {s}
    /\ logger' = [logger EXCEPT ![s] = Fresh]
    /\ toLogger' = [toLogger EXCEPT ![s] = <<>>]
    /\ faults > 0 /\ faults' = faults - 1
    /\ UNCHANGED <<deviceUp, slow, m_loggerData, m_loggerMap, m_serverIndex, m_blocked, known,
                   asked, posted, check, mishap>>

killLogger(s) ==
    /\ s \in loggerUp /\ LoggerLost(s)
    /\ news' = Append(news, Tell("gone", "logger", s))
    /\ UNCHANGED <<starts, serverUp, starting>>

(* The devices of a server are reported as gone before the server.         *)
killServer(s) ==
    /\ s \in serverUp /\ LoggerLost(s)
    /\ serverUp' = serverUp \ {s} /\ starting' = starting \ {s}
    /\ starts' = [starts EXCEPT ![s] = 0]
    /\ news' = news \o (IF s \in loggerUp THEN <<Tell("gone", "logger", s)>> ELSE <<>>)
                    \o <<Tell("gone", "server", s)>>

startDevice(d) ==
    /\ d \notin deviceUp
    /\ deviceUp' = deviceUp \cup {d}
    /\ news' = Append(news, Tell("new", "device", d))
    /\ UNCHANGED <<logger, loggerUp, slow, managerVars, toLogger, serverUp, starting, faults, mishap>>

(* A configuration that was requested may still be sent.                   *)
killDevice(d, sent) ==
    /\ d \in deviceUp /\ faults > 0 /\ faults' = faults - 1
    /\ deviceUp' = deviceUp \ {d}
    /\ logger' = [s \in Servers |-> IF sent THEN logger[s] ELSE [logger[s] EXCEPT !.configs = @ \ {d}]]
    /\ news' = Append(news, Tell("gone", "device", d))
    /\ UNCHANGED <<loggerUp, slow, managerVars, toLogger, serverUp, starting, mishap>>

Present == {Tell("new", "server", s) : s \in serverUp}
           \cup {Tell("new", "logger", s) : s \in loggerUp}
           \cup {Tell("new", "device", d) : d \in deviceUp}

(* The manager is started again, with the same list of servers as before,  *)
(* and finds all instances in any order.  The loggers it has asked for     *)
(* start, but the answers are not for the new manager.                     *)
restartManager ==
    /\ faults > 0 /\ faults' = faults - 1
    /\ m_loggerData' = [s \in Servers |-> NoData]
    /\ known' = {} /\ asked' = {} /\ posted' = <<>>
    /\ starts' = [s \in Servers |-> 0]
    /\ starting' = starting \cup {s \in Servers \ loggerUp : starts[s] > 0}
    /\ check' = [NoCheck EXCEPT !.launch = 1]
    /\ m_serverIndex' = 0
    /\ toLogger' = [s \in Servers |-> SelectSeq(toLogger[s], LAMBDA m : m.type # "config")]
    /\ news' \in {q \in [1..Cardinality(Present) -> Present] : \A t \in Present : \E i \in DOMAIN q : q[i] = t}
    /\ UNCHANGED <<loggerVars, m_loggerMap, m_blocked, serverUp, mishap>>

(***************************************************************************)
(* Everything together.                                                    *)
(***************************************************************************)
HandleNews ==
    \/ \E d \in Devices : instanceNewDevice(d) \/ instanceGoneDevice(d)
    \/ \E s \in Servers : \/ instanceNewLogger(s) \/ goneLogger(s)
                          \/ newLoggerServer(s) \/ goneLoggerServer(s)

HandlePosted == newLoggerPosted \/ evaluateBlockedOnStrand

HandleAnswer(id) == \E a \in asked : a.id = id /\ (addDevicesDone(a) \/ addDevicesFailed(a))

HandleQuery ==
    \E q \in check.queries :
        \/ \E old \in SUBSET Devices : \E updated \in SUBSET old : checkLoggerConfig(q, old, updated)
        \/ checkLoggerConfigFailed(q)
        \/ checkDeviceConfig(q)
        \/ checkDeviceConfigFailed(q)

(* All stamps of an answer are long ago, and all devices are updated since *)
HandleOldStamps ==
    \E q \in check.queries : LET stamped == {d \in Devices : q.stamps[d] = "stamp"}
                             IN  checkLoggerConfig(q, stamped, stamped)

RunCheck == topologyCheck \/ topologyCheckOnStrand \/ launchTopologyCheck

LoggersAndDevices ==
    \/ LoggerStep /\ UNCHANGED <<managerVars, environment>>
    \/ \E s \in Servers : receive(s) \/ slotStartDevice(s) \/ loggerStarted(s)
    \/ \E q \in check.queries : answerQuery(q)

Outside ==
    \/ restartManager
    \/ topologyCheck_slotForceCheck
    \/ \E s \in Servers : startServer(s) \/ killServer(s) \/ killLogger(s) \/ loggerNotStarted(s)
    \/ \E d \in Devices : startDevice(d) \/ \E sent \in BOOLEAN : killDevice(d, sent)
    \/ \E x \in Devices \cup Classes : preReconfigure(x)

Next ==
    \/ HandleNews \/ HandlePosted \/ HandleQuery \/ RunCheck
    \/ \E id \in 1..MaxAsked : HandleAnswer(id)
    \/ LoggersAndDevices
    \/ Outside

Spec == Init /\ [][Next]_vars

(* Functions posted are run, messages arrive at instances that are         *)
(* running, and requests are answered or time out.  A stamp that is not    *)
(* renewed gets old, and a device has updates again and again.             *)
FairSpec ==
    /\ Spec
    /\ WF_vars(HandleNews \/ HandlePosted \/ RunCheck)
    /\ \A id \in 1..MaxAsked : WF_vars(HandleAnswer(id))
    /\ WF_vars(HandleQuery) /\ SF_vars(HandleOldStamps)
    /\ \A s \in Servers :
          /\ WF_vars(receive(s)) /\ WF_vars(slotStartDevice(s) \/ loggerStarted(s))
          /\ \A d \in Devices :
                /\ WF_vars(ChainStep(s, d) /\ UNCHANGED <<managerVars, environment>>)
                /\ WF_vars(slotChanged(s, d) /\ UNCHANGED <<managerVars, environment>>)
    /\ WF_vars(\E q \in check.queries : answerQuery(q))

(***************************************************************************)
(* Properties.                                                             *)
(***************************************************************************)
TypeOK ==
    /\ LoggerTypeOK
    /\ m_loggerData \in [Servers -> [state : {"OFFLINE", "INSTANTIATING", "RUNNING"},
                                     backlog : SUBSET Devices, beingAdded : SUBSET Devices,
                                     devices : SUBSET Devices]]
    /\ m_loggerMap \in [Devices -> Servers \cup {None}]
    /\ m_serverIndex \in 0..Len(ServerList)
    /\ m_blocked \subseteq Devices \cup Classes
    /\ known \subseteq Devices
    /\ \A a \in asked : a.id \in 1..MaxAsked /\ a.server \in Servers /\ a.devices \subseteq Devices
    /\ starts \in [Servers -> Nat]
    /\ serverUp \subseteq Servers /\ starting \subseteq Servers

(* The manager never forgets a device that it knows of and shall log: it   *)
(* is waiting in the backlog, being added or logged - through restarts of  *)
(* loggers and servers, failing requests, answers for a logger that has    *)
(* died meanwhile and changes of the block list.                           *)
NobodyForgotten ==
    \A d \in known :
        ~Blocked(m_blocked, d) /\ (\A i \in 1..Len(posted) : posted[i].task # "evaluate") =>
            LET data == m_loggerData[m_loggerMap[d]]
            IN  d \in data.backlog \cup data.beingAdded \cup data.devices

Logged(d) == m_loggerMap[d] # None /\ logger[m_loggerMap[d]].level[d] = "COMPLETE"

(* A device that stays, with servers for the loggers that stay, and that   *)
(* has updates again and again (FairSpec) gets logged, whichever attempts  *)
(* to connect are outdated: it takes the topology checks to get there.     *)
(* Excepted is what follows one of the mishaps that no check repairs:      *)
(* "stopped", the logger was told not to log a device that was just being  *)
(* added (DataLoggerManager.cc:1061); "notStarted", a logger that was not  *)
(* started counts as running, or one that is running as not started (1366, *)
(* 1377); "confirmed", the answer of a logger that has died confirms what  *)
(* its successor was asked for (1287).                                     *)
ChecksRepair ==
    \A d \in Devices :
        <>[](d \in deviceUp /\ serverUp = Servers /\ ~Blocked(m_blocked, d) /\ mishap = {})
            => <>[]Logged(d)
=============================================================================
