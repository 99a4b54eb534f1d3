---------------------------- MODULE InputConnect ----------------------------
(***************************************************************************)
(* How an input channel gets and keeps its connections.  SignalSlotable    *)
(* (xms/SignalSlotable.cc) asks the instance of each output channel for    *)
(* the port of the channel, periodically for connections that are missing  *)
(* and whenever an instance says it is new.  With the answer,              *)
(* InputChannel::connect() (xms/InputChannel.cc) starts a TCP connection   *)
(* attempt, onConnect() gets its result and says "hello" to the            *)
(* OutputChannel (xms/OutputChannel.cc), which registers the input.        *)
(* Requests, attempts, disconnect(), lost connections and restarts of the  *)
(* other instance overlap.                                                 *)
(*                                                                         *)
(* What runs under m_outputChannelsMutex, or under m_registeredInputsMutex *)
(* of the output channel, is one action.  There is one input channel.  An  *)
(* attempt is a request and what follows from it: at most one call of      *)
(* connect() and one TCP channel, and the handler both have to call.  Its  *)
(* number is the random id of connect(), taken to be unique.               *)
(***************************************************************************)
EXTENDS Integers, FiniteSets

CONSTANTS
    Outputs,      \* the configured output channels, m_configuredOutputChannels
    MaxAttempts,  \* bound: attempts that exist at the same time
    MaxEvents     \* bound: disconnects, lost answers and connections, crashes

ASSUME AttemptsAssumption == MaxAttempts \in Nat /\ 0 \notin Outputs
ASSUME EventsAssumption == MaxEvents \in Nat

VARIABLES
    life,       \* the InputChannel is "used", "removed" or "dead"
    setup,      \* m_connectionsBeingSetup: the attempt per output, or 0
    open,       \* m_openConnections: the attempt that made it, or 0
    tracked,    \* the status last posted to m_connectionTracker
    attempt,    \* the attempts, see Attempt
    instance,   \* the other instance is "up", "bare" (no channel) or "down"
    port,       \* the port its output channel listens at, never the same again
    announced,  \* its slotInstanceNew broadcast is on its way
    registered, \* m_registered...Inputs of the output: the attempt, or 0
    events      \* number of disturbances so far

client == <<life, setup, open, tracked>>
server == <<instance, port, announced, registered>>
vars == <<client, attempt, server, events>>

Attempts == 1..MaxAttempts

Phases == {"free", "asked", "answered", "dialling", "connected", "open", "closed"}

Attempt ==
    [out    : Outputs,
     cycle  : BOOLEAN,                        \* by connectInputChannels()
     phase  : Phases,                         \* the side of the input
     port   : Nat,                            \* the answer, 0: no such channel
     peer   : {"none", "up", "closed"},       \* TCP channel of the output
     hello  : {"none", "sent", "read"},
     result : {"none", "ok", "failed", "cancelled"}, \* told to the handler
     posted : 0..2,                           \* calls of it in m_connectStrand
     calls  : 0..2]                           \* how often it was called

Unused == [out |-> CHOOSE o \in Outputs : TRUE, cycle |-> FALSE, phase |-> "free",
           port |-> 0, peer |-> "none", hello |-> "none",
           result |-> "none", posted |-> 0, calls |-> 0]

(* An attempt that nothing refers to any more is forgotten                 *)
Over(r) == r.phase = "closed" /\ r.peer # "up" /\ r.calls > 0 /\ r.posted = 0

Settled(f) == [a \in Attempts |-> IF Over(f[a]) THEN Unused ELSE f[a]]

Init ==
    /\ life = "used"
    /\ setup = [o \in Outputs |-> 0]
    /\ open = [o \in Outputs |-> 0]
    /\ tracked = [o \in Outputs |-> "DISCONNECTED"]
    /\ attempt = [a \in Attempts |-> Unused]
    /\ instance \in [Outputs -> {"up", "down"}]
    /\ port = [o \in Outputs |-> 1]
    /\ announced = [o \in Outputs |-> FALSE]
    /\ registered = [o \in Outputs |-> 0]
    /\ events = 0

-----------------------------------------------------------------------------
(* SignalSlotable: asking for the port                                     *)

(* InputChannel::getConnectionStatus().  An entry whose channel a failed   *)
(* write has closed is erased by it: as onTcpChannelError() does below.    *)
getConnectionStatus(o) ==
    IF open[o] # 0 THEN "CONNECTED"
    ELSE IF setup[o] # 0 THEN "CONNECTING"
    ELSE "DISCONNECTED"

(* connectInputToOutputChannel(): send the request, the handlers of the    *)
(* answer are connectInputChannelHandler() and failureHandler              *)
connectInputToOutputChannel(o, cycle) ==
    \E a \in Attempts :
        /\ attempt[a].phase = "free"
        /\ \A b \in 1..(a - 1) : attempt[b].phase # "free"
        /\ attempt' = [attempt EXCEPT ![a] =
              [Unused EXCEPT !.out = o, !.cycle = cycle, !.phase = "asked"]]

(* connectInputChannels(), each 6 s for what is disconnected: the request  *)
(* of the cycle before had a timeout of 3 s, so it has an answer           *)
connectInputChannels(o) ==
    /\ life = "used"
    /\ getConnectionStatus(o) = "DISCONNECTED"
    /\ \A a \in Attempts : ~ ( attempt[a].out = o /\ attempt[a].cycle
                               /\ attempt[a].phase \in {"asked", "answered"} )
    /\ connectInputToOutputChannel(o, TRUE)
    /\ UNCHANGED <<client, server, events>>

(* slotInstanceNew(): reconnectInputChannels(), whatever the status        *)
slotInstanceNew(o) ==
    /\ announced[o]
    /\ announced' = [announced EXCEPT ![o] = FALSE]
    /\ IF life = "used" THEN connectInputToOutputChannel(o, FALSE)
                        ELSE UNCHANGED attempt
    /\ UNCHANGED <<client, instance, port, registered, events>>

(* slotGetOutputChannelInformation() of the other instance                 *)
slotGetOutputChannelInformation(a) ==
    LET o == attempt[a].out IN
    /\ attempt[a].phase = "asked" /\ instance[o] # "down"
    /\ attempt' = [attempt EXCEPT ![a].phase = "answered",
                                  ![a].port = IF instance[o] = "up" THEN port[o] ELSE 0]
    /\ UNCHANGED <<client, server, events>>

(* failureHandler: nobody answers, or it takes too long.  The handler is   *)
(* called directly, and an answer that comes later is ignored.             *)
requestFailed(a) ==
    /\ attempt[a].phase \in {"asked", "answered"}
    /\ attempt' = Settled([attempt EXCEPT ![a].phase = "closed", ![a].result = "failed",
                                  ![a].calls = @ + 1])
    /\ IF attempt[a].phase = "asked" /\ instance[attempt[a].out] = "down"
         THEN UNCHANGED events
         ELSE events < MaxEvents /\ events' = events + 1
    /\ UNCHANGED <<client, server>>

-----------------------------------------------------------------------------
(* InputChannel                                                            *)

postConnectionTracker(o, status) == [tracked EXCEPT ![o] = status]

(* Is a connection process to the output under way?                        *)
InProgress(o) == setup[o] # 0

(* connect(): an open connection is erased - the last pointer to the TCP   *)
(* channel, whose destructor closes it -, and a new one is attempted.  The *)
(* outputs are configured ones, and what slotGetOutputChannelInformation() *)
(* tells is complete: of the failures detected here one remains.           *)
connect(a) ==
    LET o == attempt[a].out
        erased == [b \in Attempts |->
                      IF b = open[o] THEN [attempt[b] EXCEPT !.phase = "closed"]
                      ELSE attempt[b]]
    IN  /\ open' = [open EXCEPT ![o] = 0]
        /\ IF InProgress(o)
             THEN /\ tracked' = IF open[o] = 0 THEN tracked
                                ELSE postConnectionTracker(o, "DISCONNECTED")
                  /\ attempt' = Settled([erased EXCEPT ![a].phase = "closed",
                                     ![a].result = "failed", ![a].posted = @ + 1])
                  /\ UNCHANGED setup
             ELSE /\ setup' = [setup EXCEPT ![o] = a]
                  /\ tracked' = postConnectionTracker(o, "CONNECTING")
                  /\ attempt' = Settled([erased EXCEPT ![a].phase = "dialling"])

(* SignalSlotable::connectInputChannelHandler(): the answer.  The port is  *)
(* stored and used at once.                                                *)
connectInputChannelHandler(a) ==
    /\ attempt[a].phase = "answered"
    /\ IF attempt[a].port # 0
         THEN connect(a)
         ELSE /\ attempt' = Settled([attempt EXCEPT ![a].phase = "closed",
                                 ![a].result = "failed", ![a].calls = @ + 1])
              /\ UNCHANGED <<setup, open, tracked>>
    /\ UNCHANGED <<life, server, events>>

(* TcpConnection::startClient() reaches the port, where onTcpConnect() of  *)
(* the output channel accepts the connection                               *)
onTcpConnect(a) ==
    LET o == attempt[a].out IN
    /\ attempt[a].phase = "dialling" /\ instance[o] = "up"
    /\ attempt[a].port = port[o]
    /\ attempt' = [attempt EXCEPT ![a].phase = "connected", ![a].peer = "up"]
    /\ UNCHANGED <<client, server, events>>

(* onConnectWrap() gets an error: nobody listens at the port any more, or  *)
(* the connection fails between two instances that are fine                *)
Refused(a) ==
    LET o == attempt[a].out IN
    /\ attempt[a].phase = "dialling"
    /\ IF instance[o] = "up" /\ attempt[a].port = port[o]
         THEN events < MaxEvents /\ events' = events + 1
         ELSE UNCHANGED events

(* Writing "hello" throws if the connection is known to be broken          *)
Broken(a) == attempt[a].peer = "closed"

(* Was the attempt given up, by disconnect()? (mutant: only the existence  *)
(* of an entry is checked, not its id)                                     *)
GivenUpIfNone(a) == setup[attempt[a].out] = 0

GivenUp(a) == setup[attempt[a].out] # a

(* onConnect() with its error code, after "hello" was written or failed.   *)
(* An attempt that was given up is dropped, with its TCP channel: its      *)
(* handler was called by disconnectImpl().                                 *)
onConnect(a, ec, hello) ==
    LET o == attempt[a].out IN
    IF GivenUp(a)
      THEN /\ attempt' = Settled([attempt EXCEPT ![a].phase = "closed", ![a].hello = hello])
           /\ UNCHANGED <<setup, open, tracked>>
      ELSE /\ setup' = [setup EXCEPT ![o] = 0]
           /\ open' = IF ec THEN open ELSE [open EXCEPT ![o] = a]
           /\ tracked' = postConnectionTracker(o, IF ec THEN "DISCONNECTED" ELSE "CONNECTED")
           /\ attempt' = Settled([attempt EXCEPT ![a].phase = IF ec THEN "closed" ELSE "open",
                                         ![a].hello = hello,
                                         ![a].result = IF ec THEN "failed" ELSE "ok",
                                         ![a].posted = @ + 1])

(* The InputChannel is dead, its handler is called all the same            *)
onConnectTooLate(a) ==
    /\ attempt' = Settled([attempt EXCEPT ![a].phase = "closed", ![a].result = "cancelled",
                                  ![a].calls = @ + 1])
    /\ UNCHANGED <<setup, open, tracked>>

onConnectWrap(a) ==
    /\ \/ /\ Refused(a)
          /\ IF life = "dead" THEN onConnectTooLate(a) ELSE onConnect(a, TRUE, "none")
       \/ /\ attempt[a].phase = "connected"
          /\ \/ life = "dead" /\ onConnectTooLate(a)
             \/ life # "dead" /\ onConnect(a, FALSE, "sent")
             \/ life # "dead" /\ Broken(a) /\ onConnect(a, TRUE, "none")
          /\ UNCHANGED events
    /\ UNCHANGED <<life, server>>

(* The handlers posted to m_connectStrand, which are guaranteed to run     *)
callHandler(a) ==
    /\ attempt[a].posted > 0
    /\ attempt' = Settled([attempt EXCEPT ![a].posted = @ - 1, ![a].calls = @ + 1])
    /\ UNCHANGED <<client, server, events>>

(* onTcpChannelError(): the read operation of an open connection ends - or *)
(* getConnectionStatus() finds its channel closed by a failed write before *)
onTcpChannelError(a) ==
    LET o == attempt[a].out IN
    /\ attempt[a].phase = "open" /\ Broken(a)
    /\ open' = [open EXCEPT ![o] = 0]
    /\ tracked' = postConnectionTracker(o, "DISCONNECTED")
    /\ attempt' = Settled([attempt EXCEPT ![a].phase = "closed"])
    /\ UNCHANGED <<life, setup, server, events>>

(* The handler of the attempt that disconnectImpl() gives up (mutant: it   *)
(* is forgotten)                                                           *)
ForgetHandler(a) == attempt

CancelHandler(a) ==
    [attempt EXCEPT ![a].result = "cancelled", ![a].posted = @ + 1]

(* disconnectImpl(): an attempt is given up; else an open connection is    *)
(* closed                                                                  *)
disconnectImpl(o) ==
    IF setup[o] # 0
      THEN /\ attempt' = CancelHandler(setup[o])
           /\ setup' = [setup EXCEPT ![o] = 0]
           /\ tracked' = postConnectionTracker(o, "DISCONNECTED")
           /\ UNCHANGED open
      ELSE /\ open[o] # 0
           /\ attempt' = Settled([attempt EXCEPT ![open[o]].phase = "closed"])
           /\ open' = [open EXCEPT ![o] = 0]
           /\ tracked' = postConnectionTracker(o, "DISCONNECTED")
           /\ UNCHANGED setup

disconnect(o) ==
    /\ life = "used" /\ events < MaxEvents
    /\ events' = events + 1
    /\ disconnectImpl(o)
    /\ UNCHANGED <<life, server>>

(* SignalSlotable::removeInputChannel()                                    *)
removeInputChannel ==
    /\ life = "used" /\ events < MaxEvents
    /\ events' = events + 1
    /\ life' = "removed"
    /\ UNCHANGED <<setup, open, tracked, attempt, server>>

(* ~InputChannel(), when no request holds a pointer any more:              *)
(* disconnectAll() closes what is open, attempts go on; their entries in   *)
(* m_connectionsBeingSetup are gone with the object                        *)
destruct ==
    /\ life = "removed"
    /\ \A a \in Attempts : attempt[a].phase \notin {"asked", "answered"}
    /\ life' = "dead"
    /\ LET gone == {open[o] : o \in Outputs}
       IN  attempt' = Settled([a \in Attempts |-> IF a \in gone
                          THEN [attempt[a] EXCEPT !.phase = "closed"] ELSE attempt[a]])
    /\ open' = [o \in Outputs |-> 0]
    /\ setup' = [o \in Outputs |-> 0]
    /\ tracked' = [o \in Outputs |->
                      IF open[o] = 0 THEN tracked[o] ELSE "DISCONNECTED"]
    /\ UNCHANGED <<server, events>>

-----------------------------------------------------------------------------
(* The output channel                                                      *)

(* onTcpChannelRead() of "hello", which may be read when the input has     *)
(* closed the connection already.  eraseOldChannel() closes the connection *)
(* registered before.                                                      *)
onTcpChannelRead(a) ==
    LET o == attempt[a].out IN
    /\ attempt[a].hello = "sent" /\ attempt[a].peer = "up"
    /\ attempt' = Settled([b \in Attempts |->
          IF b = a THEN [attempt[b] EXCEPT !.hello = "read"]
          ELSE IF b = registered[o] THEN [attempt[b] EXCEPT !.peer = "closed"]
          ELSE attempt[b]])
    /\ registered' = [registered EXCEPT ![o] = a]
    /\ UNCHANGED <<client, instance, port, announced, events>>

(* The registration that ends with a connection (mutant: that of the input *)
(* of the connection, without comparing the channels)                      *)
UnregisterAny(a) == [registered EXCEPT ![attempt[a].out] = 0]

Unregister(a) ==
    [o \in Outputs |-> IF registered[o] = a THEN 0 ELSE registered[o]]

(* onInputGone(), after the input closed its side, or (a disturbance) the  *)
(* connection broke                                                        *)
onInputGone(a) ==
    /\ attempt[a].peer = "up"
    /\ IF attempt[a].phase = "closed"
         THEN UNCHANGED events
         ELSE events < MaxEvents /\ events' = events + 1
    /\ attempt' = Settled([attempt EXCEPT ![a].peer = "closed"])
    /\ registered' = Unregister(a)
    /\ UNCHANGED <<client, instance, port, announced>>

(* All TCP channels of the output are closed with it                       *)
closeAll(o) ==
    /\ attempt' = Settled([a \in Attempts |->
          IF attempt[a].out = o /\ attempt[a].peer = "up"
            THEN [attempt[a] EXCEPT !.peer = "closed"] ELSE attempt[a]])
    /\ registered' = [registered EXCEPT ![o] = 0]

(* The other instance dies, or it removes its output channel               *)
lose(o) ==
    /\ events < MaxEvents
    /\ events' = events + 1
    /\ instance[o] = "up"
    /\ \E i \in {"down", "bare"} : instance' = [instance EXCEPT ![o] = i]
    /\ closeAll(o)
    /\ UNCHANGED <<client, port, announced>>

(* It is started again and says so, or it creates the channel again        *)
create(o) ==
    /\ instance[o] # "up"
    /\ instance' = [instance EXCEPT ![o] = "up"]
    /\ port' = [port EXCEPT ![o] = @ + 1]
    /\ announced' = [announced EXCEPT ![o] = @ \/ instance[o] = "down"]
    /\ UNCHANGED <<client, attempt, registered, events>>

-----------------------------------------------------------------------------
Step(a) ==
    \/ slotGetOutputChannelInformation(a)
    \/ requestFailed(a)
    \/ connectInputChannelHandler(a)
    \/ onTcpConnect(a)
    \/ onConnectWrap(a)
    \/ callHandler(a)
    \/ onTcpChannelError(a)
    \/ onTcpChannelRead(a)
    \/ onInputGone(a)

Next ==
    \/ \E o \in Outputs : \/ connectInputChannels(o)
                          \/ slotInstanceNew(o)
                          \/ disconnect(o)
                          \/ lose(o)
                          \/ create(o)
    \/ \E a \in Attempts : Step(a)
    \/ removeInputChannel
    \/ destruct

Spec == Init /\ [][Next]_vars

(* The event loops run what is posted and what the network reports, the    *)
(* timer of the cycle fires, and a request ends by its timeout.  Nothing   *)
(* obliges a lost instance to come back.                                   *)
FairSpec ==
    /\ Spec
    /\ \A o \in Outputs : WF_vars(connectInputChannels(o)) /\ WF_vars(slotInstanceNew(o))
    /\ \A a \in Attempts : WF_vars(Step(a))

-----------------------------------------------------------------------------
(* The variables have the types that the code gives them.                  *)
TypeOK ==
    /\ life \in {"used", "removed", "dead"}
    /\ setup \in [Outputs -> 0..MaxAttempts]
    /\ open \in [Outputs -> 0..MaxAttempts]
    /\ tracked \in [Outputs -> {"CONNECTED", "CONNECTING", "DISCONNECTED"}]
    /\ attempt \in [Attempts -> Attempt \cup {Unused}]
    /\ instance \in [Outputs -> {"up", "bare", "down"}]
    /\ port \in [Outputs -> Nat]
    /\ announced \in [Outputs -> BOOLEAN]
    /\ registered \in [Outputs -> 0..MaxAttempts]
    /\ events \in 0..MaxEvents

(* The handler given to connect() (InputChannel.cc:300) and the connection *)
(* agree: it is called at most once, with success only for an attempt that *)
(* became the open connection, and an attempt reported as cancelled by     *)
(* disconnect() or as failed never is entered in m_openConnections.  Only  *)
(* if the channel is destructed after a disconnect() that gave up the      *)
(* attempt, onConnectWrap() says "cancelled" a second time.  No TCP        *)
(* channel is open for the input but the entry of m_openConnections.  Also *)
(* m_connectionTracker (postConnectionTracker(), InputChannel.cc:962) was  *)
(* told last what getConnectionStatus() says, whichever way a connection   *)
(* got there.                                                              *)
HandlerTellsTruth ==
    /\ \A a \in Attempts :
          /\ attempt[a].posted + attempt[a].calls <=
                IF life = "dead" /\ attempt[a].result = "cancelled" THEN 2 ELSE 1
          /\ attempt[a].phase = "open" =>
                attempt[a].result = "ok" /\ open[attempt[a].out] = a
    /\ \A o \in Outputs : /\ setup[o] # 0 => attempt[setup[o]].result = "none"
                          /\ open[o] # 0 => attempt[open[o]].phase = "open"
                          /\ life # "dead" => tracked[o] = getConnectionStatus(o)

(* Each handler is called in the end (connect() is documented to call it,  *)
(* onConnectWrap() "do not forget to call handler").                       *)
HandlersCalled ==
    \A a \in Attempts : (attempt[a].phase # "free" /\ attempt[a].calls = 0)
                           ~> (attempt[a].calls > 0 \/ attempt[a].phase = "free")

(* Input and output know each other by the same connection                 *)
Linked(o) == open[o] # 0 /\ registered[o] = open[o]

(* When an output channel stays available and nothing disturbs any more,   *)
(* the input channel is connected to it for good: overlapping requests and *)
(* attempts, a late "hello" that makes the output close the good           *)
(* connection, an answer with an old port are all repaired by the cycle of *)
(* SignalSlotable::connectInputChannels().                                 *)
Reconnects ==
    \A o \in Outputs : <>[](instance[o] = "up" /\ life = "used") => <>[]Linked(o)
=============================================================================
