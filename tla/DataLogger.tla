----------------------------- MODULE DataLogger -----------------------------
(***************************************************************************)
(* The data loggers (devices/DataLogger.cc), one on each of the servers    *)
(* that the DataLoggerManager is configured with.  For every device that   *)
(* it shall log, a logger keeps a DeviceData object and connects to the    *)
(* signals of the device in a chain of asynchronous steps.  A step that    *)
(* fails starts the chain again.                                           *)
(*                                                                         *)
(* The steps of a chain hold on to the DeviceData they were started with,  *)
(* but updates of the device are given to the object that m_perDeviceData  *)
(* has at that time.  So chains are told apart by whether their object is  *)
(* still there: at most one is (chain), the others are counted (outdated). *)
(***************************************************************************)
EXTENDS Integers, FiniteSets
CONSTANTS
    Servers,    \* the servers of the loggers
    Devices,    \* the devices to be logged
    MaxChains   \* bound on the outdated chains per device and step

VARIABLES
    logger,     \* the state of the logger on each server
    loggerUp,   \* the servers whose logger is running
    deviceUp,   \* the devices that are running
    slow        \* how often a device or a logger may answer too late

loggerVars == <<logger, loggerUp, deviceUp, slow>>

(* What initConnection() and the handlers it triggers wait for.            *)
Steps == {"connectSchema", "getSchema", "connectConfig"}

Levels == {"absent", "NONE", "STARTED", "CONNECTED", "COMPLETE"}

(* A logger as it is started by the manager, without devices.              *)
Fresh ==
    [level     |-> [d \in Devices |-> "absent"], \* m_initLevel of the entries of m_perDeviceData
     notLogged |-> {},                           \* "devicesNotLogged"
     chain     |-> [d \in Devices |-> "idle"],
     outdated  |-> [d \in Devices |-> [k \in Steps |-> 0]],
     configs   |-> {},                           \* full configurations requested for slotChanged
     stamps    |-> [d \in Devices |-> "absent"], \* "lastUpdatesUtc"
     updated   |-> {}]                           \* m_updatedLastTimestamp

Treated(L) == {d \in Devices : L.level[d] # "absent"}

LoggerTypeOK ==
    /\ logger \in [Servers ->
           [level     : [Devices -> Levels],
            notLogged : SUBSET Devices,
            chain     : [Devices -> Steps \cup {"idle"}],
            outdated  : [Devices -> [Steps -> 0..MaxChains]],
            configs   : SUBSET Devices,
            stamps    : [Devices -> {"absent", "empty", "stamp"}],
            updated   : SUBSET Devices]]
    /\ loggerUp \subseteq Servers
    /\ deviceUp \subseteq Devices
    /\ slow \in Nat

(***************************************************************************)
(* Changes of the data of one logger.                                      *)
(***************************************************************************)
(* The DeviceData of d is removed or replaced; its chain goes on.          *)
Outdate(L, d) ==
    IF L.chain[d] = "idle" THEN L
    ELSE [L EXCEPT !.outdated[d][L.chain[d]] = @ + 1, !.chain[d] = "idle"]

(* initConnection() for an object that m_perDeviceData does not have.      *)
InitOutdated(L, d) == [L EXCEPT !.outdated[d]["connectSchema"] = @ + 1]

(* The device is added to "devicesNotLogged" (mutant: it is not).          *)
NotListed(L, d) == L

ListedAsNotLogged(L, d) == [L EXCEPT !.notLogged = @ \cup {d}]

(* A new object takes the place of the old one, but initConnection() is    *)
(* called for the old one.                                                 *)
handleFailure(L, d) ==
    IF L.level[d] = "absent" THEN L
    ELSE LET replaced == [Outdate(ListedAsNotLogged(L, d), d) EXCEPT
                              !.level[d] = "NONE", !.updated = @ \ {d}]
         IN  InitOutdated(replaced, d)

slotTagDeviceToBeDiscontinued(L, d) ==
    IF L.level[d] = "absent" THEN L
    ELSE [Outdate(L, d) EXCEPT !.level[d] = "absent", !.updated = @ \ {d},
                               !.notLogged = @ \ {d}]

(* The devices that are listed as not logged are reported as already       *)
(* treated.  A device that is logged is not recognised: insert() leaves    *)
(* its object in place, and initConnection() is called for another one.    *)
slotAddDevicesToBeLogged(L, devices) ==
    LET added == devices \ L.notLogged
        fresh == added \ Treated(L)
    IN  [L EXCEPT
            !.notLogged = @ \cup added,
            !.level = [d \in Devices |-> IF d \in fresh THEN "STARTED" ELSE L.level[d]],
            !.chain = [d \in Devices |-> IF d \in fresh THEN "connectSchema" ELSE L.chain[d]],
            !.outdated = [d \in Devices |->
                IF d \in added \ fresh THEN [L.outdated[d] EXCEPT !["connectSchema"] = @ + 1]
                ELSE L.outdated[d]]]

(* An object has a time stamp once the first configuration is logged,      *)
(* which the strand of the object does soon after it is COMPLETE.          *)
updateTableAndFlush(L) ==
    LET size == Cardinality({d \in Devices : L.stamps[d] # "absent"})
    IN  IF L.updated # {} \/ Cardinality(Treated(L)) # size
        THEN [L EXCEPT !.updated = {},
                       !.stamps = [d \in Devices |->
                           CASE L.level[d] = "absent"   -> "absent"
                             [] L.level[d] = "COMPLETE" -> "stamp"
                             [] OTHER                   -> "empty"]]
        ELSE L

(***************************************************************************)
(* The steps of the chains - of the one for the object in m_perDeviceData  *)
(* (current) or of the outdated ones - and what the devices send.          *)
(***************************************************************************)
WithoutChain(L, d, k, current) ==
    IF current THEN [L EXCEPT !.chain[d] = "idle"]
    ELSE [L EXCEPT !.outdated[d][k] = @ - 1]

HasChain(L, d, k, current) ==
    IF current THEN L.chain[d] = k ELSE L.outdated[d][k] > 0

WithChain(L, d, k, current) ==
    IF current THEN [L EXCEPT !.chain[d] = k]
    ELSE [L EXCEPT !.outdated[d][k] = @ + 1]

Bounded(L) == \A d \in Devices, k \in Steps : L.outdated[d][k] <= MaxChains

(* signalSchemaUpdated is connected: ask for the schema.                   *)
handleSchemaConnected(s, d, current) ==
    LET L == logger[s]
    IN  /\ s \in loggerUp /\ d \in deviceUp /\ HasChain(L, d, "connectSchema", current)
        /\ logger' = [logger EXCEPT ![s] =
               WithChain(WithoutChain(L, d, "connectSchema", current), d, "getSchema", current)]
        /\ Bounded(logger'[s])
        /\ UNCHANGED <<loggerUp, deviceUp, slow>>

(* The schema has arrived: connect to signalChanged.                       *)
handleSchemaReceived(s, d, current) ==
    LET L == logger[s]
    IN  /\ s \in loggerUp /\ d \in deviceUp /\ HasChain(L, d, "getSchema", current)
        /\ logger' = [logger EXCEPT ![s] =
               WithChain(WithoutChain(L, d, "getSchema", current), d, "connectConfig", current)]
        /\ Bounded(logger'[s])
        /\ UNCHANGED <<loggerUp, deviceUp, slow>>

(* All is connected: ask for the configuration, to be sent to slotChanged. *)
handleConfigConnected(s, d, current) ==
    LET L == logger[s]
        connected == [WithoutChain(L, d, "connectConfig", current) EXCEPT !.configs = @ \cup {d}]
    IN  /\ s \in loggerUp /\ d \in deviceUp /\ HasChain(L, d, "connectConfig", current)
        /\ logger' = [logger EXCEPT ![s] =
               IF current THEN [connected EXCEPT !.level[d] = "CONNECTED"] ELSE connected]
        /\ UNCHANGED <<loggerUp, deviceUp, slow>>

(* A step is not answered in time, because the device is gone or slow.     *)
chainFails(s, d, k, current) ==
    LET L == logger[s]
    IN  /\ s \in loggerUp /\ HasChain(L, d, k, current)
        /\ \/ d \notin deviceUp /\ slow' = slow
           \/ d \in deviceUp /\ slow > 0 /\ slow' = slow - 1
        /\ logger' = [logger EXCEPT ![s] = handleFailure(WithoutChain(L, d, k, current), d)]
        /\ Bounded(logger'[s])
        /\ UNCHANGED <<loggerUp, deviceUp>>

(* The full configuration that was asked for arrives.                      *)
slotChanged(s, d) ==
    LET L == logger[s]
        received == [L EXCEPT !.configs = @ \ {d}]
    IN  /\ s \in loggerUp /\ d \in L.configs
        /\ logger' = [logger EXCEPT ![s] =
               CASE L.level[d] = "CONNECTED" ->
                        [received EXCEPT !.level[d] = "COMPLETE", !.notLogged = @ \ {d},
                                         !.updated = @ \cup {d}]
                 [] L.level[d] = "COMPLETE" -> [received EXCEPT !.updated = @ \cup {d}]
                 [] OTHER -> received]
        /\ UNCHANGED <<loggerUp, deviceUp, slow>>

(* The timer of the logger has it written its data.                        *)
flushActor(s) ==
    /\ s \in loggerUp
    /\ logger' = [logger EXCEPT ![s] = updateTableAndFlush(@)]
    /\ logger' # logger
    /\ UNCHANGED <<loggerUp, deviceUp, slow>>

ChainStep(s, d) ==
    \E current \in BOOLEAN :
        \/ handleSchemaConnected(s, d, current)
        \/ handleSchemaReceived(s, d, current)
        \/ handleConfigConnected(s, d, current)
        \/ \E k \in Steps : chainFails(s, d, k, current)

LoggerStep == \E s \in Servers : \/ \E d \in Devices : ChainStep(s, d) \/ slotChanged(s, d)
                                 \/ flushActor(s)

(* Whether a device is logged can be seen from outside as slotAddDevices-  *)
(* ToBeLogged() explains (DataLogger.cc:417): a device to be logged that   *)
(* is not among "devicesNotLogged" is logged, also after outdated attempts *)
(* to connect have failed.                                                 *)
NotLoggedIsListed ==
    \A s \in loggerUp : \A d \in Treated(logger[s]) :
        d \notin logger[s].notLogged => logger[s].level[d] = "COMPLETE"
=============================================================================
