---------------------- MODULE DataLoggerManagerProofs ----------------------
(***************************************************************************)
(* Proofs about the data loggers and their manager for any number of       *)
(* servers, devices and classes: what a logger lists as not logged, and    *)
(* that the manager forgets no device.                                     *)
(***************************************************************************)
EXTENDS DataLoggerManager, TLAPS, FiniteSetTheorems

(***************************************************************************)
(* The loggers.  NotLoggedIsListed is inductive with one more fact: the    *)
(* attempt to connect that belongs to the object in m_perDeviceData (chain)*)
(* is only under way while that object is STARTED.  So what succeeds at    *)
(* its end has not been logged, and is listed, before.                     *)
(***************************************************************************)
(* A logger has the fields of Fresh.                                       *)
Fields(L) ==
    L = [level |-> L.level, notLogged |-> L.notLogged, chain |-> L.chain,
         outdated |-> L.outdated, configs |-> L.configs, stamps |-> L.stamps,
         updated |-> L.updated]

Connecting(L) == \A d \in Devices : L.chain[d] # "idle" => L.level[d] = "STARTED"

Listed(L) ==
    \A d \in Devices : L.level[d] \notin {"absent", "COMPLETE"} => d \in L.notLogged

LoggerInv(L) ==
    /\ Fields(L)
    /\ L.level \in [Devices -> Levels]
    /\ L.chain \in [Devices -> Steps \cup {"idle"}]
    /\ Connecting(L)
    /\ Listed(L)

(* A logger that is started has nothing to list.                           *)
LEMMA FreshInv == LoggerInv(Fresh)
  BY DEF Fresh, LoggerInv, Fields, Connecting, Listed, Levels, Steps

(* Losing its DeviceData ends the current attempt and nothing else.        *)
LEMMA OutdateFacts ==
    ASSUME NEW L, Fields(L), L.chain \in [Devices -> Steps \cup {"idle"}], NEW d
    PROVE  /\ Fields(Outdate(L, d))
           /\ Outdate(L, d).level = L.level
           /\ Outdate(L, d).notLogged = L.notLogged
           /\ Outdate(L, d).chain \in [Devices -> Steps \cup {"idle"}]
           /\ \A e \in Devices : Outdate(L, d).chain[e] = IF e = d THEN "idle" ELSE L.chain[e]
  BY DEF Fields, Outdate, Steps

(* A failed attempt leaves the device listed, and no current attempt.      *)
LEMMA FailureInv ==
    ASSUME NEW L, LoggerInv(L), NEW d \in Devices
    PROVE  LoggerInv(handleFailure(L, d))
<1>1. CASE L.level[d] = "absent"
  BY <1>1 DEF handleFailure
<1>2. CASE L.level[d] # "absent"
  <2> DEFINE M == ListedAsNotLogged(L, d)
             O == Outdate(M, d)
             R == [O EXCEPT !.level[d] = "NONE", !.updated = @ \ {d}]
  <2>1. /\ Fields(M) /\ M.level = L.level /\ M.chain = L.chain
        /\ M.notLogged = L.notLogged \cup {d}
    BY DEF ListedAsNotLogged, LoggerInv, Fields
  <2>2. M.chain \in [Devices -> Steps \cup {"idle"}]
    BY <2>1 DEF LoggerInv
  <2> HIDE DEF M
  <2>3. /\ Fields(O) /\ O.level = L.level /\ O.notLogged = L.notLogged \cup {d}
        /\ O.chain \in [Devices -> Steps \cup {"idle"}]
        /\ \A e \in Devices : O.chain[e] = IF e = d THEN "idle" ELSE L.chain[e]
    BY <2>1, <2>2, OutdateFacts
  <2> HIDE DEF O
  <2>4. /\ Fields(R) /\ R.level = [L.level EXCEPT ![d] = "NONE"] /\ R.chain = O.chain
        /\ R.notLogged = O.notLogged
    <3>1. R = [O EXCEPT !.level[d] = "NONE", !.updated = @ \ {d}]
      OBVIOUS
    <3> HIDE DEF R
    <3>2. /\ Fields(R) /\ R.level = [O.level EXCEPT ![d] = "NONE"]
          /\ R.chain = O.chain /\ R.notLogged = O.notLogged
      BY <2>3, <3>1 DEF Fields
    <3> QED BY <2>3, <3>2
  <2> HIDE DEF R
  <2>5. /\ Fields(InitOutdated(R, d)) /\ InitOutdated(R, d).level = R.level
        /\ InitOutdated(R, d).chain = R.chain /\ InitOutdated(R, d).notLogged = R.notLogged
    BY <2>4 DEF Fields, InitOutdated
  <2>6. LoggerInv(InitOutdated(R, d))
    BY <2>3, <2>4, <2>5 DEF LoggerInv, Levels, Connecting, Listed
  <2>7. handleFailure(L, d) = InitOutdated(R, d)
    BY <1>2 DEF handleFailure, R, O, M
  <2> QED BY <2>6, <2>7
<1> QED BY <1>1, <1>2

(* A device that is discontinued is not listed, and not tried, any more.   *)
LEMMA DiscontinuedInv ==
    ASSUME NEW L, LoggerInv(L), NEW d
    PROVE  LoggerInv(slotTagDeviceToBeDiscontinued(L, d))
<1>1. CASE L.level[d] = "absent"
  BY <1>1 DEF slotTagDeviceToBeDiscontinued
<1>2. CASE L.level[d] # "absent"
  <2> DEFINE O == Outdate(L, d)
             R == slotTagDeviceToBeDiscontinued(L, d)
  <2>1. /\ Fields(O) /\ O.level = L.level /\ O.notLogged = L.notLogged
        /\ O.chain \in [Devices -> Steps \cup {"idle"}]
        /\ \A e \in Devices : O.chain[e] = IF e = d THEN "idle" ELSE L.chain[e]
    BY OutdateFacts DEF LoggerInv
  <2>2. R = [O EXCEPT !.level[d] = "absent", !.updated = @ \ {d}, !.notLogged = @ \ {d}]
    BY <1>2 DEF slotTagDeviceToBeDiscontinued
  <2> HIDE DEF O, R
  <2>3. /\ Fields(R) /\ R.level = [L.level EXCEPT ![d] = "absent"] /\ R.chain = O.chain
        /\ R.notLogged = L.notLogged \ {d}
    BY <2>1, <2>2 DEF Fields
  <2>4. R.level \in [Devices -> Levels]
    BY <2>3 DEF LoggerInv, Levels
  <2>5. \A e \in Devices : e # d => R.level[e] = L.level[e]
    BY <2>3 DEF LoggerInv
  <2>6. d \in Devices => R.level[d] = "absent"
    BY <2>3 DEF LoggerInv
  <2>7. LoggerInv(R)
    BY <2>1, <2>3, <2>4, <2>5, <2>6 DEF LoggerInv, Connecting, Listed
  <2> QED BY <2>7 DEF R
<1> QED BY <1>1, <1>2

(* Devices that are added are listed until they are logged; what is logged *)
(* already is listed again.                                                *)
LEMMA AddedInv ==
    ASSUME NEW L, LoggerInv(L), NEW devices
    PROVE  LoggerInv(slotAddDevicesToBeLogged(L, devices))
<1> DEFINE R == slotAddDevicesToBeLogged(L, devices)
           added == devices \ L.notLogged
           fresh == added \ Treated(L)
<1>1. /\ Fields(R)
      /\ R.notLogged = L.notLogged \cup added
      /\ R.level = [d \in Devices |-> IF d \in fresh THEN "STARTED" ELSE L.level[d]]
      /\ R.chain = [d \in Devices |-> IF d \in fresh THEN "connectSchema" ELSE L.chain[d]]
  <2>1. L = [level |-> L.level, notLogged |-> L.notLogged, chain |-> L.chain,
             outdated |-> L.outdated, configs |-> L.configs, stamps |-> L.stamps,
             updated |-> L.updated]
    BY DEF LoggerInv, Fields
  <2> DEFINE level == [d \in Devices |-> IF d \in fresh THEN "STARTED" ELSE L.level[d]]
             chain == [d \in Devices |-> IF d \in fresh THEN "connectSchema" ELSE L.chain[d]]
             outdated == [d \in Devices |->
                 IF d \in added \ fresh THEN [L.outdated[d] EXCEPT !["connectSchema"] = @ + 1]
                 ELSE L.outdated[d]]
  <2>2. R = [L EXCEPT !.notLogged = L.notLogged \cup added, !.level = level, !.chain = chain,
                      !.outdated = outdated]
    BY DEF slotAddDevicesToBeLogged
  <2> HIDE DEF R, fresh, added, level, chain, outdated
  <2>3. R = [level |-> level, notLogged |-> L.notLogged \cup added, chain |-> chain,
             outdated |-> outdated, configs |-> L.configs, stamps |-> L.stamps,
             updated |-> L.updated]
    BY <2>1, <2>2
  <2> QED BY <2>3 DEF Fields, level, chain
<1> HIDE DEF R, fresh, added
<1>2. fresh \subseteq added
  BY DEF fresh
<1>3. /\ R.level \in [Devices -> Levels]
      /\ R.chain \in [Devices -> Steps \cup {"idle"}]
  BY <1>1 DEF LoggerInv, Levels, Steps
<1>4. Connecting(R)
  BY <1>1 DEF LoggerInv, Connecting
<1>5. Listed(R)
  BY <1>1, <1>2 DEF LoggerInv, Listed
<1> QED BY <1>1, <1>3, <1>4, <1>5 DEF LoggerInv, R

(* Writing the table of time stamps changes nothing else.                  *)
LEMMA FlushedInv ==
    ASSUME NEW L, LoggerInv(L)
    PROVE  LoggerInv(updateTableAndFlush(L))
<1> DEFINE R == updateTableAndFlush(L)
<1>1. Fields(R) /\ R.level = L.level /\ R.chain = L.chain /\ R.notLogged = L.notLogged
  BY DEF updateTableAndFlush, LoggerInv, Fields
<1> HIDE DEF R
<1>2. LoggerInv(R)
  BY <1>1 DEF LoggerInv, Connecting, Listed
<1> QED BY <1>2 DEF R

(* Taking an attempt away, and having one that belongs to no DeviceData.   *)
LEMMA WithoutChainFacts ==
    ASSUME NEW L, LoggerInv(L), NEW d \in Devices, NEW k \in Steps, NEW current \in BOOLEAN
    PROVE  /\ LoggerInv(WithoutChain(L, d, k, current))
           /\ WithoutChain(L, d, k, current).level = L.level
           /\ WithoutChain(L, d, k, current).notLogged = L.notLogged
<1> DEFINE R == WithoutChain(L, d, k, current)
<1>1. /\ Fields(R) /\ R.level = L.level /\ R.notLogged = L.notLogged
      /\ R.chain = IF current THEN [L.chain EXCEPT ![d] = "idle"] ELSE L.chain
  BY DEF WithoutChain, LoggerInv, Fields
<1> HIDE DEF R
<1>2. LoggerInv(R)
  BY <1>1 DEF LoggerInv, Connecting, Listed, Steps
<1> QED BY <1>1, <1>2 DEF R

(* An attempt goes on with its next step.                                  *)
LEMMA NextStepInv ==
    ASSUME NEW L, LoggerInv(L), NEW d \in Devices, NEW k \in Steps, NEW next \in Steps,
           NEW current \in BOOLEAN, HasChain(L, d, k, current)
    PROVE  LoggerInv(WithChain(WithoutChain(L, d, k, current), d, next, current))
<1> DEFINE M == WithoutChain(L, d, k, current)
           R == WithChain(M, d, next, current)
<1>1. LoggerInv(M) /\ M.level = L.level /\ M.notLogged = L.notLogged
  BY WithoutChainFacts
<1>2. current => L.level[d] = "STARTED"
  BY DEF HasChain, LoggerInv, Connecting, Steps
<1> HIDE DEF M
<1>3. /\ Fields(R) /\ R.level = M.level /\ R.notLogged = M.notLogged
      /\ R.chain = IF current THEN [M.chain EXCEPT ![d] = next] ELSE M.chain
  BY <1>1 DEF WithChain, LoggerInv, Fields
<1> HIDE DEF R
<1>4. R.chain \in [Devices -> Steps \cup {"idle"}]
  BY <1>1, <1>3 DEF LoggerInv
<1>5. Connecting(R)
  BY <1>1, <1>2, <1>3 DEF LoggerInv, Connecting
<1>6. LoggerInv(R)
  BY <1>1, <1>3, <1>4, <1>5 DEF LoggerInv, Listed
<1> QED BY <1>6 DEF R, M


LoggersInv ==
    /\ loggerUp \subseteq Servers
    /\ logger = [s \in Servers |-> logger[s]]
    /\ \A s \in Servers : LoggerInv(logger[s])

(* One logger changes, and keeps its invariant.                            *)
LEMMA LoggerChanged ==
    ASSUME LoggersInv, NEW s \in Servers, NEW R, LoggerInv(R),
           logger' = [logger EXCEPT ![s] = R], loggerUp' \subseteq Servers
    PROVE  LoggersInv'
<1>1. \A t \in Servers : logger'[t] = IF t = s THEN R ELSE logger[t]
  BY DEF LoggersInv
<1>2. logger' = [t \in Servers |-> logger'[t]]
  BY DEF LoggersInv
<1>3. \A t \in Servers : LoggerInv(logger[t])
  BY DEF LoggersInv
<1>4. \A t \in Servers : LoggerInv(logger'[t])
  BY <1>1, <1>3
<1> QED BY <1>2, <1>4 DEF LoggersInv, LoggerInv, Fields, Connecting, Listed

(* No logger changes.                                                      *)
LEMMA LoggersSame ==
    ASSUME LoggersInv, logger' = logger, loggerUp' \subseteq Servers
    PROVE  LoggersInv'
  BY DEF LoggersInv, LoggerInv, Fields, Connecting, Listed

(* The attempts to connect: each step, of the current attempt as well as   *)
(* of outdated ones.                                                       *)
LEMMA ChainStepInv ==
    ASSUME LoggersInv, NEW s \in Servers, NEW d \in Devices, ChainStep(s, d)
    PROVE  LoggersInv'
<1> DEFINE L == logger[s]
<1>1. LoggerInv(L)
  BY DEF LoggersInv
<1>2. PICK current \in BOOLEAN :
        \/ handleSchemaConnected(s, d, current)
        \/ handleSchemaReceived(s, d, current)
        \/ handleConfigConnected(s, d, current)
        \/ \E k \in Steps : chainFails(s, d, k, current)
  BY DEF ChainStep
<1>3. CASE handleSchemaConnected(s, d, current)
  <2> DEFINE R == WithChain(WithoutChain(L, d, "connectSchema", current), d, "getSchema", current)
  <2>1. "connectSchema" \in Steps /\ "getSchema" \in Steps
    BY DEF Steps
  <2>2. /\ HasChain(L, d, "connectSchema", current) /\ logger' = [logger EXCEPT ![s] = R]
        /\ loggerUp' = loggerUp
    BY <1>3 DEF handleSchemaConnected
  <2>3. LoggerInv(R)
    BY <1>1, <2>1, <2>2, NextStepInv
  <2> QED BY <2>2, <2>3, LoggerChanged DEF LoggersInv
<1>4. CASE handleSchemaReceived(s, d, current)
  <2> DEFINE R == WithChain(WithoutChain(L, d, "getSchema", current), d, "connectConfig", current)
  <2>1. "getSchema" \in Steps /\ "connectConfig" \in Steps
    BY DEF Steps
  <2>2. /\ HasChain(L, d, "getSchema", current) /\ logger' = [logger EXCEPT ![s] = R]
        /\ loggerUp' = loggerUp
    BY <1>4 DEF handleSchemaReceived
  <2>3. LoggerInv(R)
    BY <1>1, <2>1, <2>2, NextStepInv
  <2> QED BY <2>2, <2>3, LoggerChanged DEF LoggersInv
<1>5. CASE handleConfigConnected(s, d, current)
  <2> DEFINE M == WithoutChain(L, d, "connectConfig", current)
             C == [M EXCEPT !.configs = @ \cup {d}]
             R == IF current THEN [C EXCEPT !.level[d] = "CONNECTED"] ELSE C
  <2>1. "connectConfig" \in Steps
    BY DEF Steps
  <2>2. /\ HasChain(L, d, "connectConfig", current) /\ logger' = [logger EXCEPT ![s] = R]
        /\ loggerUp' = loggerUp
    BY <1>5 DEF handleConfigConnected
  <2>3. LoggerInv(M) /\ M.level = L.level /\ M.notLogged = L.notLogged
    BY <1>1, <2>1, WithoutChainFacts
  <2>4. current => L.level[d] = "STARTED" /\ M.chain[d] = "idle"
    BY <1>1, <2>2, <2>1 DEF HasChain, LoggerInv, Connecting, Steps, WithoutChain, Fields
  <2>5. PICK N : N = M
    OBVIOUS
  <2>6. PICK c : c = C
    OBVIOUS
  <2>7. PICK r : r = R
    OBVIOUS
  <2>8. c = [N EXCEPT !.configs = @ \cup {d}]
    BY <2>5, <2>6
  <2>9. r = IF current THEN [c EXCEPT !.level[d] = "CONNECTED"] ELSE c
    BY <2>6, <2>7
  <2>10. LoggerInv(N) /\ N.level = L.level /\ (current => L.level[d] = "STARTED" /\ N.chain[d] = "idle")
    BY <2>3, <2>4, <2>5
  <2> HIDE DEF M, C, R
  <2>11. /\ Fields(c) /\ c.level = N.level /\ c.chain = N.chain /\ c.notLogged = N.notLogged
    BY <2>8, <2>10 DEF LoggerInv, Fields
  <2>12. /\ Fields(r) /\ r.chain = N.chain /\ r.notLogged = N.notLogged
         /\ r.level = IF current THEN [N.level EXCEPT ![d] = "CONNECTED"] ELSE N.level
    BY <2>9, <2>11 DEF Fields
  <2>13. r.level \in [Devices -> Levels]
    BY <2>10, <2>12 DEF LoggerInv, Levels
  <2>14. \A e \in Devices : r.level[e] = IF current /\ e = d THEN "CONNECTED" ELSE N.level[e]
    BY <2>10, <2>12 DEF LoggerInv
  <2>15. LoggerInv(r)
    BY <2>10, <2>12, <2>13, <2>14 DEF LoggerInv, Connecting, Listed
  <2> QED BY <2>2, <2>7, <2>15, LoggerChanged DEF LoggersInv
<1>6. ASSUME NEW k \in Steps, chainFails(s, d, k, current)
      PROVE  LoggersInv'
  <2> DEFINE M == WithoutChain(L, d, k, current)
             R == handleFailure(M, d)
  <2>1. logger' = [logger EXCEPT ![s] = R] /\ loggerUp' = loggerUp
    BY <1>6 DEF chainFails
  <2>2. LoggerInv(M)
    BY <1>1, WithoutChainFacts
  <2>3. LoggerInv(R)
    BY <2>2, FailureInv
  <2> QED BY <2>1, <2>3, LoggerChanged DEF LoggersInv
<1> QED BY <1>2, <1>3, <1>4, <1>5, <1>6

(* The configuration that a logger asked for completes the device.         *)
LEMMA ChangedInv ==
    ASSUME LoggersInv, NEW s \in Servers, NEW d \in Devices, slotChanged(s, d)
    PROVE  LoggersInv'
<1> DEFINE L == logger[s]
<1>1. PICK l : l = L
  OBVIOUS
<1>2. PICK c : c = [l EXCEPT !.configs = @ \ {d}]
  OBVIOUS
<1>3. PICK r : r = CASE l.level[d] = "CONNECTED" ->
                         [c EXCEPT !.level[d] = "COMPLETE", !.notLogged = @ \ {d},
                                   !.updated = @ \cup {d}]
                    [] l.level[d] = "COMPLETE" -> [c EXCEPT !.updated = @ \cup {d}]
                    [] OTHER -> c
  OBVIOUS
<1>4. logger' = [logger EXCEPT ![s] = r] /\ loggerUp' = loggerUp
  BY <1>1, <1>2, <1>3 DEF slotChanged
<1>5. LoggerInv(l)
  BY <1>1 DEF LoggersInv
<1>6. Fields(c) /\ c.level = l.level /\ c.chain = l.chain /\ c.notLogged = l.notLogged
  BY <1>2, <1>5 DEF LoggerInv, Fields
<1>7. l.level[d] = "CONNECTED" => LoggerInv(r)
  <2> HAVE l.level[d] = "CONNECTED"
  <2>1. r = [c EXCEPT !.level[d] = "COMPLETE", !.notLogged = @ \ {d}, !.updated = @ \cup {d}]
    BY <1>3
  <2>2. /\ Fields(r) /\ r.chain = l.chain /\ r.notLogged = l.notLogged \ {d}
        /\ r.level = [l.level EXCEPT ![d] = "COMPLETE"]
    BY <1>6, <2>1 DEF Fields
  <2>3. r.level \in [Devices -> Levels]
    BY <1>5, <2>2 DEF LoggerInv, Levels
  <2>4. \A e \in Devices : r.level[e] = IF e = d THEN "COMPLETE" ELSE l.level[e]
    BY <1>5, <2>2 DEF LoggerInv
  <2> QED BY <1>5, <2>2, <2>3, <2>4 DEF LoggerInv, Connecting, Listed
<1>8. l.level[d] # "CONNECTED" => LoggerInv(r)
  <2> HAVE l.level[d] # "CONNECTED"
  <2>1. r = [c EXCEPT !.updated = @ \cup {d}] \/ r = c
    BY <1>3
  <2>2. Fields(r) /\ r.chain = l.chain /\ r.notLogged = l.notLogged /\ r.level = l.level
    BY <1>6, <2>1 DEF Fields
  <2> QED BY <1>5, <2>2 DEF LoggerInv, Connecting, Listed
<1>9. LoggerInv(r)
  BY <1>7, <1>8
<1> QED BY <1>4, <1>9, LoggerChanged DEF LoggersInv

(* A message of the manager is treated.                                    *)
LEMMA ReceiveInv ==
    ASSUME LoggersInv, NEW s \in Servers, receive(s)
    PROVE  LoggersInv'
<1> DEFINE L == logger[s]
           message == Head(toLogger[s])
<1>1. LoggerInv(L)
  BY DEF LoggersInv
<1>2. loggerUp' = loggerUp
  BY DEF receive
<1>3. \/ \E d \in message.devices : logger' = [logger EXCEPT ![s] = slotTagDeviceToBeDiscontinued(L, d)]
      \/ logger' = [logger EXCEPT ![s] = slotAddDevicesToBeLogged(L, message.devices)]
      \/ logger' = [logger EXCEPT ![s] = updateTableAndFlush(L)]
  BY DEF receive
<1>4. PICK R : LoggerInv(R) /\ logger' = [logger EXCEPT ![s] = R]
  BY <1>1, <1>3, DiscontinuedInv, AddedInv, FlushedInv
<1> QED BY <1>2, <1>4, LoggerChanged DEF LoggersInv

(* What a logger does by itself.                                           *)
LEMMA LoggerStepInv ==
    ASSUME LoggersInv, LoggerStep
    PROVE  LoggersInv'
<1>1. PICK s \in Servers : (\E d \in Devices : ChainStep(s, d) \/ slotChanged(s, d)) \/ flushActor(s)
  BY DEF LoggerStep
<1>2. CASE \E d \in Devices : ChainStep(s, d) \/ slotChanged(s, d)
  BY <1>2, ChainStepInv, ChangedInv
<1>3. CASE flushActor(s)
  <2>1. loggerUp' = loggerUp /\ logger' = [logger EXCEPT ![s] = updateTableAndFlush(logger[s])]
    BY <1>3 DEF flushActor
  <2>2. LoggerInv(updateTableAndFlush(logger[s]))
    BY FlushedInv DEF LoggersInv
  <2> QED BY <2>1, <2>2, LoggerChanged DEF LoggersInv
<1> QED BY <1>1, <1>2, <1>3

(* Loggers, servers and devices come and go.                               *)
LEMMA OutsideInv ==
    ASSUME LoggersInv, Outside
    PROVE  LoggersInv'
<1>1. CASE \E s \in Servers : killLogger(s) \/ killServer(s)
  <2>1. PICK s \in Servers : LoggerLost(s)
    BY <1>1 DEF killLogger, killServer
  <2>2. logger' = [logger EXCEPT ![s] = Fresh] /\ loggerUp' = loggerUp \ {s}
    BY <2>1 DEF LoggerLost
  <2> QED BY <2>2, FreshInv, LoggerChanged DEF LoggersInv
<1>2. ASSUME NEW d \in Devices, NEW sent \in BOOLEAN, killDevice(d, sent)
      PROVE  LoggersInv'
  <2>1. /\ loggerUp' = loggerUp
        /\ logger' = [s \in Servers |-> IF sent THEN logger[s]
                                        ELSE [logger[s] EXCEPT !.configs = @ \ {d}]]
    BY <1>2 DEF killDevice
  <2>2. \A s \in Servers : LoggerInv(logger'[s])
    <3> SUFFICES ASSUME NEW s \in Servers PROVE LoggerInv(logger'[s])
      OBVIOUS
    <3>1. PICK l : l = logger[s]
      OBVIOUS
    <3>2. PICK r : r = logger'[s]
      OBVIOUS
    <3>3. LoggerInv(l) /\ (r = l \/ r = [l EXCEPT !.configs = @ \ {d}])
      BY <2>1, <3>1, <3>2 DEF LoggersInv
    <3>4. Fields(r) /\ r.level = l.level /\ r.chain = l.chain /\ r.notLogged = l.notLogged
      BY <3>3 DEF LoggerInv, Fields
    <3>5. LoggerInv(r)
      BY <3>3, <3>4 DEF LoggerInv, Connecting, Listed
    <3> QED BY <3>2, <3>5
  <2> QED BY <2>1, <2>2 DEF LoggersInv, LoggerInv, Fields, Connecting, Listed
<1>3. CASE restartManager
  BY <1>3, LoggersSame DEF restartManager, loggerVars, LoggersInv
<1>4. CASE topologyCheck_slotForceCheck
  BY <1>4, LoggersSame DEF topologyCheck_slotForceCheck, loggerVars, LoggersInv
<1>5. CASE \E s \in Servers : startServer(s) \/ loggerNotStarted(s)
  BY <1>5, LoggersSame DEF startServer, loggerNotStarted, loggerVars, LoggersInv
<1>6. CASE \E d \in Devices : startDevice(d)
  BY <1>6, LoggersSame DEF startDevice, LoggersInv
<1>7. CASE \E x \in Devices \cup Classes : preReconfigure(x)
  BY <1>7, LoggersSame DEF preReconfigure, loggerVars, LoggersInv
<1> QED BY <1>1, <1>2, <1>3, <1>4, <1>5, <1>6, <1>7 DEF Outside

(* No function of the manager touches a logger.                            *)
LEMMA ManagerLeavesLoggers ==
    ASSUME HandleNews \/ HandlePosted \/ HandleQuery \/ RunCheck
              \/ \E id \in 1..MaxAsked : HandleAnswer(id)
    PROVE  logger' = logger /\ loggerUp' = loggerUp
<1>1. CASE HandleNews
  BY <1>1 DEF HandleNews, instanceNewDevice, instanceGoneDevice, instanceNewLogger, goneLogger,
              newLoggerServer, goneLoggerServer, loggerVars
<1>2. CASE HandlePosted
  BY <1>2 DEF HandlePosted, newLoggerPosted, evaluateBlockedOnStrand, loggerVars
<1>3. CASE HandleQuery
  <2>1. ASSUME NEW q, NEW old, NEW updated, checkLoggerConfig(q, old, updated)
        PROVE  logger' = logger /\ loggerUp' = loggerUp
    BY <2>1 DEF checkLoggerConfig, loggerVars
  <2>2. ASSUME NEW q, checkLoggerConfigFailed(q) \/ checkDeviceConfig(q) \/ checkDeviceConfigFailed(q)
        PROVE  logger' = logger /\ loggerUp' = loggerUp
    BY <2>2 DEF checkLoggerConfigFailed, checkDeviceConfig, checkDeviceConfigFailed, loggerVars
  <2> QED BY <1>3, <2>1, <2>2 DEF HandleQuery
<1>4. CASE RunCheck
  BY <1>4 DEF RunCheck, topologyCheck, topologyCheckOnStrand, launchTopologyCheck, loggerVars
<1>5. CASE \E id \in 1..MaxAsked : HandleAnswer(id)
  BY <1>5 DEF HandleAnswer, addDevicesDone, addDevicesFailed, loggerVars
<1> QED BY <1>1, <1>2, <1>3, <1>4, <1>5

(* Every step of the loggers, the manager and their surroundings keeps what*)
(* is said of the loggers.                                                 *)
LEMMA LoggersStep ==
    ASSUME LoggersInv, [Next]_vars
    PROVE  LoggersInv'
<1>1. CASE HandleNews \/ HandlePosted \/ HandleQuery \/ RunCheck
              \/ \E id \in 1..MaxAsked : HandleAnswer(id)
  BY <1>1, ManagerLeavesLoggers, LoggersSame DEF LoggersInv
<1>2. CASE LoggersAndDevices
  <2>1. CASE LoggerStep
    BY <2>1, LoggerStepInv
  <2>2. CASE \E s \in Servers : receive(s)
    BY <2>2, ReceiveInv
  <2>3. CASE \E s \in Servers : slotStartDevice(s) \/ loggerStarted(s)
    <3>1. logger' = logger /\ loggerUp' \subseteq Servers
      BY <2>3 DEF slotStartDevice, loggerStarted, LoggersInv
    <3> QED BY <3>1, LoggersSame
  <2>4. CASE \E q \in check.queries : answerQuery(q)
    BY <2>4, LoggersSame DEF answerQuery, loggerVars, LoggersInv
  <2> QED BY <1>2, <2>1, <2>2, <2>3, <2>4 DEF LoggersAndDevices
<1>3. CASE Outside
  BY <1>3, OutsideInv
<1>4. CASE UNCHANGED vars
  BY <1>4, LoggersSame DEF vars, loggerVars, LoggersInv
<1> QED BY <1>1, <1>2, <1>3, <1>4 DEF Next

(* Each logger keeps its invariant, whatever the manager sends to it and   *)
(* however loggers and devices die (devices/DataLogger.cc).                *)
THEOREM LoggersInvariance == Spec => []LoggersInv
<1>1. Init => LoggersInv
  <2> SUFFICES ASSUME Init PROVE LoggersInv
    OBVIOUS
  <2>1. logger = [s \in Servers |-> Fresh] /\ loggerUp = {}
    BY DEF Init
  <2> QED BY <2>1, FreshInv DEF LoggersInv
<1>2. LoggersInv /\ [Next]_vars => LoggersInv'
  BY LoggersStep
<1> QED BY <1>1, <1>2, PTL DEF Spec

(* What is not among "devicesNotLogged" of a logger that is to log it is   *)
(* logged, as slotAddDevicesToBeLogged() promises.                         *)
THEOREM ListedUntilLogged == Spec => []NotLoggedIsListed
<1>1. LoggersInv => NotLoggedIsListed
  BY DEF LoggersInv, LoggerInv, Listed, NotLoggedIsListed, Treated
<1> QED BY <1>1, LoggersInvariance, PTL

(***************************************************************************)
(* The manager.  NobodyForgotten speaks of times when no change of the     *)
(* block list waits to be evaluated.  Meanwhile a device is sure to be     *)
(* held if no list that is still to be evaluated, and not the present one  *)
(* either, has it: an evaluation removes what its new list has, and adds   *)
(* what only its old list had.  The lists follow each other (Linked), so   *)
(* the new list of an evaluation is still looked at when it is done.       *)
(***************************************************************************)
ServerData ==
    [state : {"OFFLINE", "INSTANTIATING", "RUNNING"},
     backlog : SUBSET Devices, beingAdded : SUBSET Devices, devices : SUBSET Devices]

(* All devices that the manager keeps for a server.                        *)
All(data) == data.backlog \cup data.beingAdded \cup data.devices

Requests(set) ==
    \A a \in set :
        /\ a = [id |-> a.id, server |-> a.server, devices |-> a.devices, answered |-> a.answered]
        /\ a.server \in Servers
        /\ a.devices \subseteq Devices

WorkTypes(w) ==
    /\ w = [data |-> w.data, map |-> w.map, index |-> w.index, asked |-> w.asked, to |-> w.to]
    /\ w.data \in [Servers -> ServerData]
    /\ w.map \in [Devices -> Servers \cup {None}]
    /\ w.index \in 0..Len(ServerList)
    /\ Requests(w.asked)

(* Some server has d in one of its sets.                                   *)
Holding(w, d) == w.map[d] \in Servers /\ d \in All(w.data[w.map[d]])

Tasks ==
    [task : {"newLogger"}, server : Servers, old : {{}}, new : {{}}]
        \cup [task : {"evaluate"}, server : {None},
              old : SUBSET (Devices \cup Classes), new : SUBSET (Devices \cup Classes)]

IsEvaluation(t) == t.task = "evaluate"

(* No evaluation of queue q has d on one of its lists.                     *)
OnNoList(q, d) ==
    \A i \in 1..Len(q) : IsEvaluation(q[i]) => ~Blocked(q[i].old, d) /\ ~Blocked(q[i].new, d)

(* The next evaluation goes on from the list of the previous one; the last *)
(* one ends with the present list.                                         *)
Linked(q, list) ==
    \A i \in 1..Len(q) : IsEvaluation(q[i]) =>
        \/ q[i].new = list
        \/ \E j \in 1..Len(q) : i < j /\ IsEvaluation(q[j]) /\ q[j].old = q[i].new

HeldUnlessListed(w, devices, q, list) ==
    \A d \in devices : ~Blocked(list, d) /\ OnNoList(q, d) => Holding(w, d)

ManagerInv ==
    /\ WorkTypes(Current)
    /\ known \subseteq Devices
    /\ m_blocked \subseteq Devices \cup Classes
    /\ posted \in Seq(Tasks)
    /\ Linked(posted, m_blocked)
    /\ HeldUnlessListed(Current, known, posted, m_blocked)

-----------------------------------------------------------------------------
(* The server for a device: the one that the map has, or the next one.     *)
LEMMA ServerIdFacts ==
    ASSUME NEW w, WorkTypes(w), NEW d \in Devices, NEW v, v = loggerServerId(w, d)
    PROVE  /\ WorkTypes(v)
           /\ v.data = w.data
           /\ v.map[d] \in Servers
           /\ \A e \in Devices : w.map[e] # None => v.map[e] = w.map[e]
           /\ \A e \in Devices : e # d => v.map[e] = w.map[e]
<1>1. CASE w.map[d] # None
  BY <1>1 DEF loggerServerId, WorkTypes
<1>2. CASE w.map[d] = None
  <2>1. PICK i : i = w.index % Len(ServerList)
    OBVIOUS
  <2>2. i \in Nat /\ i + 1 \in 1..Len(ServerList) /\ ServerList[i + 1] \in Servers
    <3>1. Len(ServerList) \in Nat \ {0}
      BY ServerListAssumption
    <3>2. w.index \in Nat
      BY <3>1 DEF WorkTypes
    <3>3. i \in 0..(Len(ServerList) - 1)
      BY <2>1, <3>1, <3>2
    <3>4. i \in Nat /\ i + 1 \in 1..Len(ServerList)
      BY <3>1, <3>3
    <3> QED BY <3>4, ServerListAssumption
  <2>3. v = [w EXCEPT !.map[d] = ServerList[i + 1], !.index = i + 1]
    BY <1>2, <2>1 DEF loggerServerId
  <2>4. /\ v = [data |-> v.data, map |-> v.map, index |-> v.index, asked |-> v.asked, to |-> v.to]
        /\ v.data = w.data /\ v.map = [w.map EXCEPT ![d] = ServerList[i + 1]]
        /\ v.index = i + 1 /\ v.asked = w.asked
    BY <2>3 DEF WorkTypes
  <2>5. /\ v.map \in [Devices -> Servers \cup {None}]
        /\ \A e \in Devices : v.map[e] = IF e = d THEN ServerList[i + 1] ELSE w.map[e]
    BY <2>2, <2>4 DEF WorkTypes
  <2>6. v.index \in 0..Len(ServerList)
    BY <2>2, <2>4
  <2> QED BY <1>2, <2>2, <2>4, <2>5, <2>6 DEF WorkTypes
<1> QED BY <1>1, <1>2

(* A message changes nothing of what the manager keeps.                    *)
LEMMA SendFacts ==
    ASSUME NEW w, WorkTypes(w), NEW s, NEW m, NEW v, v = Send(w, s, m)
    PROVE  WorkTypes(v) /\ v.data = w.data /\ v.map = w.map
<1>1. CASE s \notin loggerUp
  BY <1>1 DEF Send
<1>2. CASE s \in loggerUp
  <2>1. v = [w EXCEPT !.to[s] = Append(@, m)]
    BY <1>2 DEF Send
  <2>2. /\ v = [data |-> v.data, map |-> v.map, index |-> v.index, asked |-> v.asked, to |-> v.to]
        /\ v.data = w.data /\ v.map = w.map /\ v.index = w.index /\ v.asked = w.asked
    BY <2>1 DEF WorkTypes
  <2> QED BY <2>2 DEF WorkTypes
<1> QED BY <1>1, <1>2

(* The data of one server is replaced.                                     *)
Replaced(w, v, s, x) ==
    /\ v.data = [w.data EXCEPT ![s] = x] /\ v.map = w.map /\ v.index = w.index
    /\ v = [data |-> v.data, map |-> v.map, index |-> v.index, asked |-> v.asked, to |-> v.to]

(* It concerns no other server.                                            *)
LEMMA DataFacts ==
    ASSUME NEW w, WorkTypes(w), NEW s \in Servers, NEW x \in ServerData, NEW v,
           Replaced(w, v, s, x), Requests(v.asked)
    PROVE  /\ WorkTypes(v) /\ v.map = w.map
           /\ \A t \in Servers : v.data[t] = IF t = s THEN x ELSE w.data[t]
  BY DEF WorkTypes, Replaced

(* The backlog is sent: nothing is lost.                                   *)
LEMMA AddFacts ==
    ASSUME NEW w, WorkTypes(w), NEW s \in Servers, NEW v, v = addDevicesToBeLogged(w, s)
    PROVE  /\ WorkTypes(v)
           /\ v.map = w.map
           /\ \A t \in Servers : All(v.data[t]) = All(w.data[t])
<1>1. PICK data : data = w.data[s]
  OBVIOUS
<1>2. data \in ServerData
  BY <1>1 DEF WorkTypes
<1>3. CASE data.backlog = {}
  BY <1>1, <1>3 DEF addDevicesToBeLogged
<1>4. CASE data.backlog # {}
  <2>1. PICK id : id = Min(Unused(w))
    OBVIOUS
  <2>2. PICK request : request = [id |-> id, server |-> s, devices |-> data.backlog, answered |-> FALSE]
    OBVIOUS
  <2>3. PICK u : u = [w EXCEPT !.data[s].beingAdded = @ \cup data.backlog,
                               !.data[s].backlog = {},
                               !.asked = @ \cup {request}]
    OBVIOUS
  <2>4. v = Send(u, s, [type |-> "add", id |-> id, devices |-> data.backlog])
    BY <1>1, <1>4, <2>1, <2>2, <2>3 DEF addDevicesToBeLogged
  <2>5. PICK x : x = [data EXCEPT !.beingAdded = @ \cup data.backlog, !.backlog = {}]
    OBVIOUS
  <2>6. x \in ServerData /\ All(x) = All(data)
    BY <1>2, <2>5 DEF ServerData, All
  <2>7. Replaced(w, u, s, x) /\ u.asked = w.asked \cup {request}
    BY <1>1, <1>2, <2>3, <2>5 DEF WorkTypes, ServerData, Replaced
  <2>8. Requests(u.asked)
    BY <1>2, <2>2, <2>7 DEF WorkTypes, Requests, ServerData
  <2>9. WorkTypes(u) /\ u.map = w.map /\ \A t \in Servers : u.data[t] = IF t = s THEN x ELSE w.data[t]
    BY <2>6, <2>7, <2>8, DataFacts
  <2>10. WorkTypes(v) /\ v.data = u.data /\ v.map = u.map
    BY <2>4, <2>9, SendFacts
  <2> QED BY <1>1, <2>6, <2>7, <2>9, <2>10
<1> QED BY <1>3, <1>4

(* Holding depends on the map and on All.                                  *)
LEMMA HoldingKept ==
    ASSUME NEW w, NEW v, v.map = w.map, \A t \in Servers : All(w.data[t]) \subseteq All(v.data[t])
    PROVE  \A e \in Devices : Holding(w, e) => Holding(v, e)
  BY DEF Holding

(* A new device is held, and nobody else lost.                             *)
LEMMA NewFacts ==
    ASSUME NEW w, WorkTypes(w), NEW d \in Devices, NEW v, v = newDeviceToLog(w, d)
    PROVE  /\ WorkTypes(v)
           /\ Holding(v, d)
           /\ \A e \in Devices : Holding(w, e) => Holding(v, e)
<1>1. PICK m : m = loggerServerId(w, d)
  OBVIOUS
<1>2. /\ WorkTypes(m) /\ m.data = w.data /\ m.map[d] \in Servers
      /\ \A e \in Devices : w.map[e] # None => m.map[e] = w.map[e]
  BY <1>1, ServerIdFacts
<1>3. PICK s : s = m.map[d]
  OBVIOUS
<1>4. PICK n : n = [m EXCEPT !.data[s].backlog = @ \cup {d}]
  OBVIOUS
<1>5. v = IF n.data[s].state = "RUNNING" THEN addDevicesToBeLogged(n, s) ELSE n
  BY <1>1, <1>3, <1>4 DEF newDeviceToLog
<1>6. s \in Servers /\ m.data[s] \in ServerData
  BY <1>2, <1>3 DEF WorkTypes
<1>7. PICK x : x = [m.data[s] EXCEPT !.backlog = @ \cup {d}]
  OBVIOUS
<1>8. x \in ServerData /\ All(x) = All(m.data[s]) \cup {d}
  BY <1>6, <1>7 DEF ServerData, All
<1>9. Replaced(m, n, s, x) /\ n.asked = m.asked
  BY <1>2, <1>4, <1>6, <1>7 DEF WorkTypes, Replaced
<1>10. Requests(n.asked)
  BY <1>2, <1>9 DEF WorkTypes
<1>11. WorkTypes(n) /\ n.map = m.map /\ \A t \in Servers : n.data[t] = IF t = s THEN x ELSE m.data[t]
  BY <1>2, <1>6, <1>8, <1>9, <1>10, DataFacts
<1>12. /\ WorkTypes(v) /\ v.map = n.map
       /\ \A t \in Servers : All(v.data[t]) = All(n.data[t])
  BY <1>5, <1>6, <1>11, AddFacts
<1>13. \A t \in Servers : All(m.data[t]) \subseteq All(v.data[t])
  BY <1>6, <1>8, <1>11, <1>12
<1>14. Holding(v, d)
  BY <1>3, <1>6, <1>8, <1>9, <1>11, <1>12 DEF Holding
<1>15. \A e \in Devices : Holding(w, e) => Holding(v, e)
  <2>1. v.map = m.map
    BY <1>11, <1>12
  <2> QED BY <1>2, <2>1, <1>13, InstancesAssumption DEF Holding
<1> QED BY <1>12, <1>14, <1>15

(* A device that is gone is erased, and nobody else.                       *)
LEMMA GoneFacts ==
    ASSUME NEW w, WorkTypes(w), NEW d \in Devices, NEW v, v = goneDeviceToLog(w, d)
    PROVE  /\ WorkTypes(v)
           /\ \A e \in Devices : e # d /\ Holding(w, e) => Holding(v, e)
<1>1. PICK s : s = w.map[d]
  OBVIOUS
<1>2. CASE s = None
  BY <1>1, <1>2 DEF goneDeviceToLog
<1>3. CASE s # None
  <2>1. s \in Servers /\ w.data[s] \in ServerData
    BY <1>1, <1>3 DEF WorkTypes
  <2>2. PICK u : u = [w EXCEPT !.data[s].backlog = @ \ {d}, !.data[s].beingAdded = @ \ {d},
                               !.data[s].devices = @ \ {d}]
    OBVIOUS
  <2>3. v = IF w.data[s].state = "RUNNING" THEN Send(u, s, Tag(d)) ELSE u
    <3> DEFINE erased == [w EXCEPT !.data[w.map[d]].backlog = @ \ {d}, !.data[w.map[d]].beingAdded = @ \ {d},
                                   !.data[w.map[d]].devices = @ \ {d}]
    <3>1. u = erased
      BY <1>1, <2>2
    <3>2. v = IF w.map[d] = None THEN w
              ELSE IF w.data[w.map[d]].state = "RUNNING" THEN Send(erased, w.map[d], Tag(d)) ELSE erased
      BY Zenon DEF goneDeviceToLog
    <3> HIDE DEF erased
    <3> QED BY <1>1, <1>3, <3>1, <3>2
  <2>4. PICK x : x = [w.data[s] EXCEPT !.backlog = @ \ {d}, !.beingAdded = @ \ {d}, !.devices = @ \ {d}]
    OBVIOUS
  <2>5. x \in ServerData /\ All(x) = All(w.data[s]) \ {d}
    BY <2>1, <2>4 DEF ServerData, All
  <2>6. Replaced(w, u, s, x) /\ u.asked = w.asked
    BY <2>1, <2>2, <2>4 DEF WorkTypes, ServerData, Replaced
  <2>7. Requests(u.asked)
    BY <2>6 DEF WorkTypes
  <2>8. WorkTypes(u) /\ u.map = w.map /\ \A t \in Servers : u.data[t] = IF t = s THEN x ELSE w.data[t]
    BY <2>1, <2>5, <2>6, <2>7, DataFacts
  <2>9. WorkTypes(v) /\ v.data = u.data /\ v.map = u.map
    BY <2>3, <2>8, SendFacts
  <2> QED BY <2>5, <2>6, <2>8, <2>9 DEF Holding
<1> QED BY <1>2, <1>3

(* Removed and added anew: nobody is lost.                                 *)
LEMMA ForceFacts ==
    ASSUME NEW w, WorkTypes(w), NEW d \in Devices, NEW v, v = forceDeviceToBeLogged(w, d)
    PROVE  /\ WorkTypes(v)
           /\ \A e \in Devices : Holding(w, e) => Holding(v, e)
<1>1. PICK u : u = goneDeviceToLog(w, d)
  OBVIOUS
<1>2. v = newDeviceToLog(u, d)
  BY <1>1 DEF forceDeviceToBeLogged
<1>3. WorkTypes(u) /\ \A e \in Devices : e # d /\ Holding(w, e) => Holding(u, e)
  BY <1>1, GoneFacts
<1>4. WorkTypes(v) /\ Holding(v, d) /\ \A e \in Devices : Holding(u, e) => Holding(v, e)
  BY <1>2, <1>3, NewFacts
<1> QED BY <1>3, <1>4

(* A logger is there: what is in its backlog is sent to it.                *)
LEMMA NewLoggerFacts ==
    ASSUME NEW w, WorkTypes(w), NEW s \in Servers, NEW v, v = newLogger(w, s)
    PROVE  /\ WorkTypes(v)
           /\ \A e \in Devices : Holding(w, e) => Holding(v, e)
<1>1. PICK u : u = [w EXCEPT !.data[s].state = "RUNNING"]
  OBVIOUS
<1>2. v = addDevicesToBeLogged(u, s)
  BY <1>1 DEF newLogger
<1>3. w.data[s] \in ServerData
  BY DEF WorkTypes
<1>4. PICK x : x = [w.data[s] EXCEPT !.state = "RUNNING"]
  OBVIOUS
<1>5. x \in ServerData /\ All(x) = All(w.data[s])
  BY <1>3, <1>4 DEF ServerData, All
<1>6. Replaced(w, u, s, x) /\ u.asked = w.asked
  BY <1>1, <1>4 DEF WorkTypes, Replaced
<1>7. Requests(u.asked)
  BY <1>6 DEF WorkTypes
<1>8. WorkTypes(u) /\ u.map = w.map /\ \A t \in Servers : u.data[t] = IF t = s THEN x ELSE w.data[t]
  BY <1>5, <1>6, <1>7, DataFacts
<1>9. WorkTypes(v) /\ v.map = u.map /\ \A t \in Servers : All(v.data[t]) = All(u.data[t])
  BY <1>2, <1>8, AddFacts
<1> QED BY <1>5, <1>6, <1>8, <1>9 DEF Holding

-----------------------------------------------------------------------------
(* What is done for each of several devices.  FoldSet picks one of them    *)
(* after the other, with a recursive function on their subsets.  That      *)
(* there is such a function, and what holds of its values, is shown by the *)
(* smallest subset for which it would not be so.                           *)
LEMMA SmallestSubset ==
    ASSUME NEW S, IsFiniteSet(S), NEW T, T \subseteq SUBSET S, T # {}
    PROVE  \E t \in T : \A u \in T : u \subseteq t => u = t
<1>1. IsWellFoundedOn(StrictSubsetOrdering(S), SUBSET S)
  BY FS_FiniteSubsetsOfFinite, FS_StrictSubsetOrderingWellFounded
<1>2. PICK t \in T : \A u \in T : <<u, t>> \notin StrictSubsetOrdering(S)
  BY <1>1, WFMin
<1>3. \A u \in T : u \subseteq t => u = t
  BY <1>2 DEF StrictSubsetOrdering
<1> QED BY <1>3

First(t) == CHOOSE x \in t : TRUE

(* The fold takes some member of the set first.                            *)
LEMMA FirstFacts ==
    ASSUME NEW t, t # {}
    PROVE  First(t) \in t
  BY DEF First

FoldOn(g, how, w, s) ==
    g = [t \in SUBSET s |-> IF t = {} THEN w ELSE One(how, g[t \ {First(t)}], First(t))]

(* What a function defined like the fold has for a set, in terms of a      *)
(* smaller one.                                                            *)
LEMMA FoldValues ==
    ASSUME NEW g, NEW how, NEW w, NEW s, FoldOn(g, how, w, s)
    PROVE  /\ g[{}] = w
           /\ \A t \in SUBSET s : t # {} => g[t] = One(how, g[t \ {First(t)}], First(t))
  BY DEF FoldOn

(* Two such functions agree.                                               *)
LEMMA FoldUnique ==
    ASSUME NEW how, NEW w, NEW S, IsFiniteSet(S), NEW r \in SUBSET S, NEW s \in SUBSET S,
           NEW g, NEW h, FoldOn(g, how, w, r), FoldOn(h, how, w, s)
    PROVE  \A t \in SUBSET (r \cap s) : g[t] = h[t]
<1> DEFINE T == {t \in SUBSET (r \cap s) : g[t] # h[t]}
<1> SUFFICES ASSUME T # {} PROVE FALSE
  OBVIOUS
<1>1. T \subseteq SUBSET S
  OBVIOUS
<1>2. PICK t \in T : \A u \in T : u \subseteq t => u = t
  <2> HIDE DEF T
  <2> QED BY <1>1, SmallestSubset
<1>3. t # {}
  BY FoldValues
<1>4. PICK u : u = t \ {First(t)}
  OBVIOUS
<1>5. u \subseteq t /\ u # t
  BY <1>3, <1>4, FirstFacts
<1>6. g[u] = h[u]
  BY <1>2, <1>5
<1>7. g[t] = One(how, g[u], First(t)) /\ h[t] = One(how, h[u], First(t))
  BY <1>3, <1>4, FoldValues
<1> QED BY <1>6, <1>7

(* There is one for each finite set.                                       *)
LEMMA FoldExists ==
    ASSUME NEW how, NEW w, NEW S, IsFiniteSet(S)
    PROVE  \E g : FoldOn(g, how, w, S)
<1> DEFINE T == {s \in SUBSET S : ~ \E g : FoldOn(g, how, w, s)}
<1> SUFFICES ASSUME T # {} PROVE FALSE
  OBVIOUS
<1>1. PICK s \in T : \A u \in T : u \subseteq s => u = s
  <2>1. T \subseteq SUBSET S
    OBVIOUS
  <2> HIDE DEF T
  <2> QED BY <2>1, SmallestSubset
<1> DEFINE G(u) == CHOOSE g : FoldOn(g, how, w, u)
           g == [t \in SUBSET s |->
                    IF t = {} THEN w
                    ELSE One(how, G(t \ {First(t)})[t \ {First(t)}], First(t))]
<1>2. \A u \in SUBSET s : u # s => FoldOn(G(u), how, w, u)
  BY <1>1
<1> HIDE DEF G
<1>3. \A t \in SUBSET s : t # s => g[t] = G(t)[t]
  <2> SUFFICES ASSUME NEW t \in SUBSET s, t # s PROVE g[t] = G(t)[t]
    OBVIOUS
  <2>1. FoldOn(G(t), how, w, t)
    BY <1>2
  <2>2. CASE t = {}
    BY <2>1, <2>2, FoldValues
  <2>3. CASE t # {}
    <3>1. PICK u : u = t \ {First(t)}
      OBVIOUS
    <3>2. u \subseteq t /\ u # t /\ u \in SUBSET s /\ u # s
      BY <2>3, <3>1, FirstFacts
    <3>3. FoldOn(G(u), how, w, u)
      BY <1>2, <3>2
    <3>4. G(u)[u] = G(t)[u]
      <4>1. u \in SUBSET S /\ t \in SUBSET S /\ u \in SUBSET (u \cap t)
        BY <1>1, <3>2
      <4> QED BY <2>1, <3>3, <4>1, FoldUnique
    <3>5. G(t)[t] = One(how, G(t)[u], First(t))
      BY <2>1, <2>3, <3>1, FoldValues
    <3>6. g[t] = One(how, G(u)[u], First(t))
      BY <2>3, <3>1
    <3> QED BY <3>4, <3>5, <3>6
  <2> QED BY <2>2, <2>3
<1>4. \A t \in SUBSET s : t # {} => G(t \ {First(t)})[t \ {First(t)}] = g[t \ {First(t)}]
  <2> SUFFICES ASSUME NEW t \in SUBSET s, t # {}
               PROVE  G(t \ {First(t)})[t \ {First(t)}] = g[t \ {First(t)}]
    OBVIOUS
  <2>1. t \ {First(t)} \in SUBSET s /\ t \ {First(t)} # s
    BY FirstFacts
  <2> QED BY <1>3, <2>1
<1>5. FoldOn(g, how, w, s)
  <2>1. g = [t \in SUBSET s |->
                IF t = {} THEN w ELSE One(how, g[t \ {First(t)}], First(t))]
    <3>1. PICK f : f = g
      OBVIOUS
    <3>2. \A t \in SUBSET s : f[t] = IF t = {} THEN w ELSE One(how, f[t \ {First(t)}], First(t))
      BY <1>4, <3>1
    <3>3. f = [t \in SUBSET s |-> f[t]]
      BY <3>1
    <3> HIDE DEF g
    <3>4. f = [t \in SUBSET s |-> IF t = {} THEN w ELSE One(how, f[t \ {First(t)}], First(t))]
      BY <3>2, <3>3
    <3> QED BY <3>1, <3>4
  <2> HIDE DEF g
  <2> QED BY <2>1 DEF FoldOn
<1> QED BY <1>1, <1>5

(* So Each is a value of it.                                               *)
LEMMA EachIsFold ==
    ASSUME NEW how, NEW w, NEW S, IsFiniteSet(S)
    PROVE  \E g : FoldOn(g, how, w, S) /\ Each(how, w, S) = g[S]
<1> DEFINE g == CHOOSE f : FoldOn(f, how, w, S)
<1>1. FoldOn(g, how, w, S)
  BY FoldExists
<1>2. Each(how, w, S) = g[S]
  BY DEF Each, FoldSet, MapThenFoldSet, FoldOn, First
<1> QED BY <1>1, <1>2

(* What is done for the devices of s makes v of w: at most those that are  *)
(* gone are not held any more, and those that are new are held.            *)
Treats(how, w, v, s) ==
    /\ WorkTypes(v)
    /\ \A e \in Devices : Holding(w, e) /\ (how = "gone" => e \notin s) => Holding(v, e)
    /\ how = "new" => \A e \in s : Holding(v, e)

(* A single device, in each of the three ways.                             *)
LEMMA OneFacts ==
    ASSUME NEW how \in {"gone", "new", "force"}, NEW w, WorkTypes(w), NEW d \in Devices
    PROVE  Treats(how, w, One(how, w, d), {d})
<1>1. CASE how = "gone"
  <2>1. One(how, w, d) = goneDeviceToLog(w, d)
    BY <1>1 DEF One
  <2> QED BY <1>1, <2>1, GoneFacts DEF Treats
<1>2. CASE how = "new"
  <2>1. One(how, w, d) = newDeviceToLog(w, d)
    BY <1>2 DEF One
  <2> QED BY <1>2, <2>1, NewFacts DEF Treats
<1>3. CASE how = "force"
  <2>1. One(how, w, d) = forceDeviceToBeLogged(w, d)
    BY <1>3 DEF One
  <2> QED BY <1>3, <2>1, ForceFacts DEF Treats
<1> QED BY <1>1, <1>2, <1>3

(* All devices of a set, by its smallest subset for which that would fail. *)
LEMMA EachFacts ==
    ASSUME NEW how \in {"gone", "new", "force"}, NEW w, WorkTypes(w), NEW S \in SUBSET Devices
    PROVE  Treats(how, w, Each(how, w, S), S)
<1>1. IsFiniteSet(S)
  BY InstancesAssumption, FS_Subset
<1>2. PICK g : FoldOn(g, how, w, S) /\ Each(how, w, S) = g[S]
  BY <1>1, EachIsFold
<1> DEFINE T == {s \in SUBSET S : ~Treats(how, w, g[s], s)}
<1> SUFFICES ASSUME T # {} PROVE FALSE
  BY <1>2
<1>3. PICK s \in T : \A u \in T : u \subseteq s => u = s
  <2>1. T \subseteq SUBSET S
    OBVIOUS
  <2> HIDE DEF T
  <2> QED BY <1>1, <2>1, SmallestSubset
<1>4. s # {}
  <2>1. g[{}] = w
    BY <1>2, FoldValues
  <2>2. Treats(how, w, g[{}], {})
    BY <2>1 DEF Treats
  <2> QED BY <2>2
<1>5. PICK x : x = First(s)
  OBVIOUS
<1>6. PICK u : u = s \ {x}
  OBVIOUS
<1>7. x \in s /\ x \in Devices /\ u \subseteq s /\ u # s /\ s = u \cup {x}
  BY <1>4, <1>5, <1>6, FirstFacts
<1>8. Treats(how, w, g[u], u)
  BY <1>3, <1>7
<1>9. g[s] = One(how, g[u], x)
  BY <1>2, <1>4, <1>5, <1>6, FoldValues
<1>10. PICK v : v = g[u]
  OBVIOUS
<1>11. PICK z : z = g[s]
  OBVIOUS
<1>12. Treats(how, v, z, {x}) /\ Treats(how, w, v, u)
  <2>1. WorkTypes(v) /\ Treats(how, w, v, u)
    BY <1>8, <1>10 DEF Treats
  <2> QED BY <1>7, <1>9, <1>10, <1>11, <2>1, OneFacts
<1>13. Treats(how, w, z, s)
  BY <1>7, <1>12 DEF Treats
<1> QED BY <1>3, <1>11, <1>13

-----------------------------------------------------------------------------
(* A function of the manager ends with the work v.                         *)
LEMMA BecomesFacts ==
    ASSUME NEW v, WorkTypes(v), Becomes(v)
    PROVE  Current' = v
  BY DEF WorkTypes, Becomes, Current

(* A step after which every known device is still held.                    *)
LEMMA ManagerKept ==
    ASSUME ManagerInv, WorkTypes(Current'), known' \subseteq known,
           posted' = posted, m_blocked' = m_blocked,
           \A d \in known' : Holding(Current, d) => Holding(Current', d)
    PROVE  ManagerInv'
<1>1. PICK w : w = Current
  OBVIOUS
<1>2. PICK v : v = Current'
  OBVIOUS
<1>3. HeldUnlessListed(w, known, posted, m_blocked)
  BY <1>1 DEF ManagerInv
<1>4. \A d \in known' : Holding(w, d) => Holding(v, d)
  BY <1>1, <1>2
<1>5. HeldUnlessListed(v, known', posted, m_blocked)
  BY <1>3, <1>4 DEF HeldUnlessListed
<1>6. HeldUnlessListed(Current, known, posted, m_blocked)'
  BY <1>2, <1>5
<1>7. /\ known' \subseteq Devices /\ m_blocked' \subseteq Devices \cup Classes
      /\ posted' \in Seq(Tasks)
  BY DEF ManagerInv
<1>8. Linked(posted, m_blocked)'
  BY DEF ManagerInv
<1> QED BY <1>6, <1>7, <1>8 DEF ManagerInv

(* A step that leaves alone what the manager keeps, but for the requests.  *)
LEMMA ManagerSame ==
    ASSUME ManagerInv, UNCHANGED <<m_loggerData, m_loggerMap, m_serverIndex, m_blocked, known, posted>>,
           Requests(asked')
    PROVE  ManagerInv'
<1>1. WorkTypes(Current) /\ known \subseteq Devices
  BY DEF ManagerInv
<1>2. /\ Current.data = m_loggerData /\ Current.map = m_loggerMap /\ Current.index = m_serverIndex
      /\ Current'.data = m_loggerData' /\ Current'.map = m_loggerMap' /\ Current'.index = m_serverIndex'
      /\ Current'.asked = asked' /\ Current'.to = toLogger'
      /\ Current' = [data |-> Current'.data, map |-> Current'.map, index |-> Current'.index,
                     asked |-> Current'.asked, to |-> Current'.to]
  BY DEF Current
<1>3. WorkTypes(Current')
  BY <1>1, <1>2 DEF WorkTypes
<1>4. \A d \in Devices : Holding(Current, d) => Holding(Current', d)
  BY <1>2 DEF Holding
<1> QED BY <1>1, <1>3, <1>4, ManagerKept

(* The data of a server changes, but not which devices it has.             *)
LEMMA ServerKept ==
    ASSUME ManagerInv, NEW s \in Servers, NEW x \in ServerData,
           All(m_loggerData[s]) \subseteq All(x),
           m_loggerData' = [m_loggerData EXCEPT ![s] = x], Requests(asked'),
           UNCHANGED <<m_loggerMap, m_serverIndex, m_blocked, known, posted>>
    PROVE  ManagerInv'
<1>1. WorkTypes(Current) /\ known \subseteq Devices
  BY DEF ManagerInv
<1>2. /\ Current.data = m_loggerData /\ Current.map = m_loggerMap /\ Current.index = m_serverIndex
      /\ Current'.data = m_loggerData' /\ Current'.map = m_loggerMap' /\ Current'.index = m_serverIndex'
      /\ Current'.asked = asked'
      /\ Current' = [data |-> Current'.data, map |-> Current'.map, index |-> Current'.index,
                     asked |-> Current'.asked, to |-> Current'.to]
  BY DEF Current
<1>3. Replaced(Current, Current', s, x)
  BY <1>2 DEF Replaced
<1>4. /\ WorkTypes(Current') /\ Current'.map = Current.map
      /\ \A t \in Servers : Current'.data[t] = IF t = s THEN x ELSE Current.data[t]
  <2>1. PICK v : v = Current'
    OBVIOUS
  <2>2. Replaced(Current, v, s, x) /\ Requests(v.asked)
    BY <1>2, <1>3, <2>1
  <2>3. /\ WorkTypes(v) /\ v.map = Current.map
        /\ \A t \in Servers : v.data[t] = IF t = s THEN x ELSE Current.data[t]
    BY <1>1, <2>2, DataFacts
  <2> QED BY <2>1, <2>3
<1>5. \A t \in Servers : All(Current.data[t]) \subseteq All(Current'.data[t])
  BY <1>2, <1>4
<1>6. \A d \in Devices : Holding(Current, d) => Holding(Current', d)
  BY <1>4, <1>5, HoldingKept
<1> QED BY <1>1, <1>4, <1>6, ManagerKept

(* The data of servers, and the requests, of the present state.            *)
LEMMA PresentFacts ==
    ASSUME ManagerInv
    PROVE  /\ \A s \in Servers : m_loggerData[s] \in ServerData
           /\ m_loggerData \in [Servers -> ServerData]
           /\ Requests(asked)
           /\ WorkTypes(Current)
           /\ known \subseteq Devices
  BY DEF ManagerInv, WorkTypes, Current

(* A device is new.                                                        *)
LEMMA NewDeviceInv ==
    ASSUME ManagerInv, NEW d \in Devices, instanceNewDevice(d)
    PROVE  ManagerInv'
<1>1. PICK w : w = Current
  OBVIOUS
<1>2. WorkTypes(w) /\ known \subseteq Devices /\ HeldUnlessListed(w, known, posted, m_blocked)
  BY <1>1 DEF ManagerInv
<1>3. PICK v : v = IF Blocked(m_blocked, d) THEN w ELSE newDeviceToLog(w, d)
  OBVIOUS
<1>4. /\ WorkTypes(v)
      /\ Blocked(m_blocked, d) \/ Holding(v, d)
      /\ \A e \in Devices : Holding(w, e) => Holding(v, e)
  BY <1>2, <1>3, NewFacts
<1>5. Becomes(v) /\ known' = known \cup {d} /\ posted' = posted /\ m_blocked' = m_blocked
  BY <1>1, <1>3 DEF instanceNewDevice
<1>6. Current' = v
  BY <1>4, <1>5, BecomesFacts
<1>7. HeldUnlessListed(v, known', posted, m_blocked)
  BY <1>2, <1>4, <1>5 DEF HeldUnlessListed
<1>8. HeldUnlessListed(Current, known, posted, m_blocked)'
  BY <1>5, <1>6, <1>7
<1>9. Linked(posted, m_blocked)'
  BY <1>5 DEF ManagerInv
<1>10. WorkTypes(Current')
  BY <1>4, <1>6
<1> QED BY <1>2, <1>5, <1>8, <1>9, <1>10 DEF ManagerInv

(* What DeviceClient reports.                                              *)
LEMMA NewsInv ==
    ASSUME ManagerInv, HandleNews
    PROVE  ManagerInv'
<1>1. ASSUME NEW d \in Devices, instanceGoneDevice(d)
      PROVE  ManagerInv'
  <2>1. PICK v : v = goneDeviceToLog(Current, d)
    OBVIOUS
  <2>2. WorkTypes(v) /\ \A e \in Devices : e # d /\ Holding(Current, e) => Holding(v, e)
    BY <2>1, GoneFacts, PresentFacts
  <2>3. Becomes(v) /\ known' = known \ {d} /\ posted' = posted /\ m_blocked' = m_blocked
    BY <1>1, <2>1 DEF instanceGoneDevice
  <2>4. Current' = v
    BY <2>2, <2>3, BecomesFacts
  <2>5. \A e \in known' : Holding(Current, e) => Holding(Current', e)
    BY <2>2, <2>3, <2>4, PresentFacts
  <2> QED BY <2>2, <2>3, <2>4, <2>5, ManagerKept
<1>2. ASSUME NEW s \in Servers, instanceNewLogger(s)
      PROVE  ManagerInv'
  <2>1. PICK v : v = newLogger(Current, s)
    OBVIOUS
  <2>2. WorkTypes(v) /\ \A e \in Devices : Holding(Current, e) => Holding(v, e)
    BY <2>1, NewLoggerFacts, PresentFacts
  <2>3. Becomes(v) /\ known' = known /\ posted' = posted /\ m_blocked' = m_blocked
    BY <1>2, <2>1 DEF instanceNewLogger
  <2>4. Current' = v
    BY <2>2, <2>3, BecomesFacts
  <2>5. \A e \in known' : Holding(Current, e) => Holding(Current', e)
    BY <2>2, <2>3, <2>4, PresentFacts
  <2> QED BY <2>2, <2>3, <2>4, <2>5, ManagerKept
<1>3. ASSUME NEW s \in Servers, newLoggerServer(s)
      PROVE  ManagerInv'
  <2>1. PICK x : x = [m_loggerData[s] EXCEPT !.state = "INSTANTIATING"]
    OBVIOUS
  <2>2. x \in ServerData /\ All(m_loggerData[s]) \subseteq All(x)
    BY <2>1, PresentFacts DEF ServerData, All
  <2>3. /\ m_loggerData' = [m_loggerData EXCEPT ![s] = x]
        /\ UNCHANGED <<m_loggerMap, m_serverIndex, m_blocked, known, posted, asked>>
    BY <1>3, <2>1 DEF newLoggerServer, instantiateLogger
  <2> QED BY <2>2, <2>3, ServerKept, PresentFacts
<1>4. ASSUME NEW s \in Servers, goneLogger(s)
      PROVE  ManagerInv'
  <2>1. UNCHANGED <<m_loggerMap, m_serverIndex, m_blocked, known, posted, asked>>
    BY <1>4 DEF goneLogger
  <2>2. CASE m_loggerData[s].state = "OFFLINE"
    <3>1. m_loggerData' = m_loggerData
      BY <1>4, <2>2 DEF goneLogger
    <3> QED BY <2>1, <3>1, ManagerSame, PresentFacts
  <2>3. CASE m_loggerData[s].state # "OFFLINE"
    <3>1. PICK x : x = [BackToBacklog(m_loggerData[s]) EXCEPT !.state = "INSTANTIATING"]
      OBVIOUS
    <3>2. x \in ServerData /\ All(m_loggerData[s]) \subseteq All(x)
      BY <3>1, PresentFacts DEF ServerData, All, BackToBacklog
    <3>3. m_loggerData' = [m_loggerData EXCEPT ![s] = x]
      BY <1>4, <2>3, <3>1 DEF goneLogger, instantiateLogger
    <3> QED BY <2>1, <3>2, <3>3, ServerKept, PresentFacts
  <2> QED BY <2>2, <2>3
<1>5. ASSUME NEW s \in Servers, goneLoggerServer(s)
      PROVE  ManagerInv'
  <2>1. PICK x : x = [BackToBacklog(m_loggerData[s]) EXCEPT !.state = "OFFLINE"]
    OBVIOUS
  <2>2. x \in ServerData /\ All(m_loggerData[s]) \subseteq All(x)
    BY <2>1, PresentFacts DEF ServerData, All, BackToBacklog
  <2>3. /\ m_loggerData' = [m_loggerData EXCEPT ![s] = x]
        /\ UNCHANGED <<m_loggerMap, m_serverIndex, m_blocked, known, posted, asked>>
    BY <1>5, <2>1 DEF goneLoggerServer
  <2> QED BY <2>2, <2>3, ServerKept, PresentFacts
<1> QED BY <1>1, <1>2, <1>3, <1>4, <1>5, NewDeviceInv DEF HandleNews

-----------------------------------------------------------------------------
(* The functions posted to the strand: the first one is taken ...          *)
LEMMA QueueTail ==
    ASSUME NEW q \in Seq(Tasks), q # <<>>
    PROVE  /\ Tail(q) \in Seq(Tasks)
           /\ Len(q) \in Nat \ {0}
           /\ Len(Tail(q)) = Len(q) - 1
           /\ \A i \in 1..Len(Tail(q)) : i + 1 \in 1..Len(q) /\ Tail(q)[i] = q[i + 1]
           /\ Head(q) = q[1]
           /\ Head(q) \in Tasks
  OBVIOUS

(* ... which leaves the lists linked, and frees those devices that only    *)
(* its own lists had.                                                      *)
LEMMA ListsOfTail ==
    ASSUME NEW q \in Seq(Tasks), q # <<>>, NEW list, Linked(q, list), NEW h, h = Head(q)
    PROVE  /\ Linked(Tail(q), list)
           /\ \A d : OnNoList(Tail(q), d) /\ ~Blocked(list, d) /\ IsEvaluation(h) => ~Blocked(h.new, d)
           /\ \A d : OnNoList(Tail(q), d)
                        /\ (IsEvaluation(h) => ~Blocked(h.old, d) /\ ~Blocked(h.new, d)) => OnNoList(q, d)
<1>1. PICK t : t = Tail(q)
  OBVIOUS
<1>2. /\ t \in Seq(Tasks) /\ Len(q) \in Nat \ {0} /\ Len(t) \in Nat /\ Len(q) = Len(t) + 1
      /\ \A i \in 1..Len(t) : t[i] = q[i + 1]
      /\ h = q[1]
  BY <1>1, QueueTail
<1>3. \A j \in 1..Len(q) : j = 1 \/ (j - 1 \in 1..Len(t) /\ q[j] = t[j - 1])
  <2> SUFFICES ASSUME NEW j \in 1..Len(q), j # 1 PROVE j - 1 \in 1..Len(t) /\ q[j] = t[j - 1]
    OBVIOUS
  <2>1. j - 1 \in 1..Len(t) /\ j = (j - 1) + 1
    BY <1>2
  <2> QED BY <1>2, <2>1
<1>4. ASSUME NEW i \in 1..Len(q), IsEvaluation(q[i])
      PROVE  q[i].new = list \/ \E j \in 1..Len(t) : i <= j /\ IsEvaluation(t[j]) /\ t[j].old = q[i].new
  <2>1. CASE q[i].new = list
    BY <2>1
  <2>2. CASE q[i].new # list
    <3>1. PICK j \in 1..Len(q) : i < j /\ IsEvaluation(q[j]) /\ q[j].old = q[i].new
      BY <1>4, <2>2 DEF Linked
    <3>2. j - 1 \in 1..Len(t) /\ q[j] = t[j - 1] /\ i <= j - 1
      BY <1>2, <1>3, <3>1
    <3> QED BY <3>1, <3>2
  <2> QED BY <2>1, <2>2
<1>5. Linked(t, list)
  <2> SUFFICES ASSUME NEW i \in 1..Len(t), IsEvaluation(t[i])
               PROVE  t[i].new = list
                         \/ \E j \in 1..Len(t) : i < j /\ IsEvaluation(t[j]) /\ t[j].old = t[i].new
    BY DEF Linked
  <2>1. i + 1 \in 1..Len(q) /\ q[i + 1] = t[i]
    BY <1>2
  <2>2. \/ t[i].new = list
        \/ \E j \in 1..Len(t) : i + 1 <= j /\ IsEvaluation(t[j]) /\ t[j].old = t[i].new
    BY <1>4, <2>1
  <2> QED BY <1>2, <2>2
<1>6. \A d : OnNoList(t, d) /\ ~Blocked(list, d) /\ IsEvaluation(h) => ~Blocked(h.new, d)
  <2>1. 1 \in 1..Len(q)
    BY <1>2
  <2>2. IsEvaluation(h) => h.new = list \/ \E j \in 1..Len(t) : IsEvaluation(t[j]) /\ t[j].old = h.new
    BY <1>2, <1>4, <2>1
  <2> QED BY <2>2 DEF OnNoList
<1>7. \A d : OnNoList(t, d) /\ (IsEvaluation(h) => ~Blocked(h.old, d) /\ ~Blocked(h.new, d)) => OnNoList(q, d)
  BY <1>2, <1>3 DEF OnNoList
<1> QED BY <1>1, <1>5, <1>6, <1>7

(* ... and another one is posted.                                          *)
LEMMA ListsOfAppend ==
    ASSUME NEW q \in Seq(Tasks), NEW list, Linked(q, list), NEW t \in Tasks,
           NEW new, IF IsEvaluation(t) THEN t.old = list /\ t.new = new ELSE new = list
    PROVE  /\ Append(q, t) \in Seq(Tasks)
           /\ Linked(Append(q, t), new)
           /\ \A d : OnNoList(Append(q, t), d) => /\ OnNoList(q, d)
                                                  /\ IsEvaluation(t) => ~Blocked(list, d)
<1>1. PICK r : r = Append(q, t)
  OBVIOUS
<1>2. /\ r \in Seq(Tasks) /\ Len(q) \in Nat /\ Len(r) = Len(q) + 1
      /\ \A i \in 1..Len(q) : i \in 1..Len(r) /\ r[i] = q[i]
      /\ r[Len(q) + 1] = t
  BY <1>1
<1>3. PICK n : n = Len(q) + 1
  OBVIOUS
<1>4. /\ n \in 1..Len(r) /\ r[n] = t /\ \A i \in 1..Len(q) : i < n
      /\ \A i \in 1..Len(r) : i = n \/ i \in 1..Len(q)
  BY <1>2, <1>3
<1>5. Linked(r, new)
  <2> SUFFICES ASSUME NEW i \in 1..Len(r), IsEvaluation(r[i]), r[i].new # new
               PROVE  \E j \in 1..Len(r) : i < j /\ IsEvaluation(r[j]) /\ r[j].old = r[i].new
    BY DEF Linked
  <2>1. i \in 1..Len(q) /\ r[i] = q[i]
    BY <1>2, <1>4
  <2>2. CASE \E j \in 1..Len(q) : i < j /\ IsEvaluation(q[j]) /\ q[j].old = q[i].new
    BY <1>2, <2>1, <2>2
  <2>3. CASE q[i].new = list
    BY <1>4, <2>1, <2>3
  <2> QED BY <2>1, <2>2, <2>3 DEF Linked
<1>6. \A d : OnNoList(r, d) => OnNoList(q, d) /\ (IsEvaluation(t) => ~Blocked(list, d))
  BY <1>2, <1>4 DEF OnNoList
<1> QED BY <1>1, <1>2, <1>5, <1>6

(* A function is posted.                                                   *)
LEMMA PostedInv ==
    ASSUME ManagerInv, NEW t \in Tasks, posted' = Append(posted, t),
           UNCHANGED <<m_loggerData, m_loggerMap, m_serverIndex, known, asked>>,
           IF IsEvaluation(t) THEN t.old = m_blocked /\ t.new = m_blocked' ELSE m_blocked' = m_blocked,
           m_blocked' \subseteq Devices \cup Classes
    PROVE  ManagerInv'
<1>1. /\ Append(posted, t) \in Seq(Tasks)
      /\ Linked(Append(posted, t), m_blocked')
      /\ \A d : OnNoList(Append(posted, t), d) => /\ OnNoList(posted, d)
                                                  /\ IsEvaluation(t) => ~Blocked(m_blocked, d)
  BY ListsOfAppend DEF ManagerInv
<1>2. PICK w : w = Current
  OBVIOUS
<1>3. PICK v : v = Current'
  OBVIOUS
<1>4. /\ WorkTypes(v) /\ v.data = w.data /\ v.map = w.map
  <2>1. WorkTypes(w)
    BY <1>2 DEF ManagerInv
  <2> QED BY <1>2, <1>3, <2>1 DEF WorkTypes, Current
<1>5. HeldUnlessListed(w, known, posted, m_blocked)
  BY <1>2 DEF ManagerInv
<1>6. HeldUnlessListed(v, known, Append(posted, t), m_blocked')
  <2> SUFFICES ASSUME NEW d \in known, ~Blocked(m_blocked', d), OnNoList(Append(posted, t), d)
               PROVE  Holding(v, d)
    BY DEF HeldUnlessListed
  <2>1. ~Blocked(m_blocked, d) /\ OnNoList(posted, d)
    BY <1>1
  <2>2. Holding(w, d)
    BY <1>5, <2>1 DEF HeldUnlessListed
  <2> QED BY <1>4, <2>2 DEF Holding
<1>7. HeldUnlessListed(Current, known, posted, m_blocked)'
  BY <1>3, <1>6
<1>8. Linked(posted, m_blocked)'
  BY <1>1
<1>9. posted' \in Seq(Tasks) /\ known' \subseteq Devices /\ WorkTypes(Current')
  BY <1>1, <1>3, <1>4 DEF ManagerInv
<1> QED BY <1>7, <1>8, <1>9 DEF ManagerInv

(* Known devices are on a list if and only if they are blocked by it.      *)
LEMMA OnListFacts ==
    ASSUME known \subseteq Devices, NEW list
    PROVE  /\ OnList(list) \subseteq Devices
           /\ \A d \in known : d \in OnList(list) <=> Blocked(list, d)
  BY DEF OnList, Blocked

(* The functions on the strand of the manager are run.                     *)
LEMMA HandlePostedInv ==
    ASSUME ManagerInv, HandlePosted
    PROVE  ManagerInv'
<1>1. PICK h : h = Head(posted)
  OBVIOUS
<1>2. /\ posted \in Seq(Tasks) /\ posted # <<>> /\ posted' = Tail(posted)
      /\ known' = known /\ m_blocked' = m_blocked
  BY DEF HandlePosted, newLoggerPosted, evaluateBlockedOnStrand, ManagerInv
<1>3. /\ Linked(posted', m_blocked)
      /\ \A d : OnNoList(posted', d) /\ ~Blocked(m_blocked, d) /\ IsEvaluation(h) => ~Blocked(h.new, d)
      /\ \A d : OnNoList(posted', d)
                   /\ (IsEvaluation(h) => ~Blocked(h.old, d) /\ ~Blocked(h.new, d)) => OnNoList(posted, d)
  BY <1>1, <1>2, ListsOfTail DEF ManagerInv
<1>4. posted' \in Seq(Tasks) /\ h \in Tasks
  BY <1>1, <1>2, QueueTail
<1>5. PICK w : w = Current
  OBVIOUS
<1>6. WorkTypes(w) /\ known \subseteq Devices /\ HeldUnlessListed(w, known, posted, m_blocked)
  BY <1>5 DEF ManagerInv
<1>7. \E v : /\ WorkTypes(v) /\ Becomes(v)
             /\ HeldUnlessListed(v, known, posted', m_blocked)
  <2>1. CASE newLoggerPosted
    <3>1. h.task = "newLogger" /\ Becomes(newLogger(w, h.server))
      BY <1>1, <1>5, <2>1 DEF newLoggerPosted
    <3>2. h.server \in Servers /\ ~IsEvaluation(h)
      BY <1>4, <3>1 DEF Tasks, IsEvaluation
    <3>3. PICK v : v = newLogger(w, h.server)
      OBVIOUS
    <3>4. WorkTypes(v) /\ \A e \in Devices : Holding(w, e) => Holding(v, e)
      BY <1>6, <3>2, <3>3, NewLoggerFacts
    <3>5. \A d : OnNoList(posted', d) => OnNoList(posted, d)
      BY <1>3, <3>2
    <3>6. HeldUnlessListed(v, known, posted', m_blocked)
      BY <1>6, <3>4, <3>5 DEF HeldUnlessListed
    <3> QED BY <3>1, <3>3, <3>4, <3>6
  <2>2. CASE evaluateBlockedOnStrand
    <3>1. PICK old, new : old = OnList(h.old) /\ new = OnList(h.new)
      OBVIOUS
    <3>2. PICK u : u = Each("gone", w, new \ old)
      OBVIOUS
    <3>3. PICK v : v = Each("new", u, old \ new)
      OBVIOUS
    <3>4. h.task = "evaluate" /\ Becomes(v)
      BY <1>1, <1>5, <2>2, <3>1, <3>2, <3>3 DEF evaluateBlockedOnStrand
    <3>5. IsEvaluation(h)
      BY <3>4 DEF IsEvaluation
    <3>6. old \subseteq Devices /\ new \subseteq Devices
      BY <1>6, <3>1, OnListFacts
    <3>7. Treats("gone", w, u, new \ old)
      BY <1>6, <3>2, <3>6, EachFacts
    <3>8. Treats("new", u, v, old \ new)
      <4>1. WorkTypes(u)
        BY <3>7 DEF Treats
      <4> QED BY <3>3, <3>6, <4>1, EachFacts
    <3>9. ASSUME NEW d \in known, ~Blocked(m_blocked, d), OnNoList(posted', d)
          PROVE  Holding(v, d)
      <4>1. ~Blocked(h.new, d)
        BY <1>3, <3>5, <3>9
      <4>2. d \notin new /\ d \in Devices
        BY <1>6, <3>1, <4>1, OnListFacts
      <4>3. CASE Blocked(h.old, d)
        <5>1. d \in old \ new
          BY <1>6, <3>1, <4>2, <4>3, OnListFacts
        <5> QED BY <3>8, <5>1 DEF Treats
      <4>4. CASE ~Blocked(h.old, d)
        <5>1. OnNoList(posted, d)
          BY <1>3, <3>9, <4>1, <4>4
        <5>2. Holding(w, d)
          BY <1>6, <3>9, <5>1 DEF HeldUnlessListed
        <5>3. Holding(u, d)
          BY <3>7, <4>2, <5>2 DEF Treats
        <5> QED BY <3>8, <4>2, <5>3 DEF Treats
      <4> QED BY <4>3, <4>4
    <3>10. HeldUnlessListed(v, known, posted', m_blocked)
      BY <3>9 DEF HeldUnlessListed
    <3>11. WorkTypes(v)
      BY <3>8 DEF Treats
    <3> QED BY <3>4, <3>10, <3>11
  <2> QED BY <2>1, <2>2 DEF HandlePosted
<1>8. PICK v : WorkTypes(v) /\ Becomes(v) /\ HeldUnlessListed(v, known, posted', m_blocked)
  BY <1>7
<1>9. Current' = v
  BY <1>8, BecomesFacts
<1>10. HeldUnlessListed(Current, known, posted, m_blocked)'
  BY <1>2, <1>8, <1>9
<1>11. Linked(posted, m_blocked)'
  BY <1>2, <1>3
<1>12. WorkTypes(Current')
  BY <1>8, <1>9
<1> QED BY <1>2, <1>4, <1>6, <1>10, <1>11, <1>12 DEF ManagerInv

-----------------------------------------------------------------------------
(* The requests of the topology check are about devices, or about a logger *)
(* itself.                                                                 *)
IsQuery(q) ==
    /\ q = [server |-> q.server, device |-> q.device, answered |-> q.answered,
            stamps |-> q.stamps, behind |-> q.behind]
    /\ q.device \in Devices \cup {None}

QueriesOf(c) ==
    /\ c = [timer |-> c.timer, posted |-> c.posted, launch |-> c.launch, loggers |-> c.loggers,
            devices |-> c.devices, queries |-> c.queries, empty |-> c.empty, emptyLast |-> c.emptyLast]
    /\ \A q \in c.queries : IsQuery(q)

QueriesInv == QueriesOf(check)

(* A check starts without requests.                                        *)
LEMMA CheckStarted == QueriesOf([NoCheck EXCEPT !.launch = 1])
<1>1. PICK n : n = NoCheck
  OBVIOUS
<1>2. PICK c : c = [n EXCEPT !.launch = 1]
  OBVIOUS
<1>3. QueriesOf(n)
  BY <1>1 DEF NoCheck, QueriesOf
<1>4. QueriesOf(c)
  BY <1>2, <1>3 DEF QueriesOf
<1> QED BY <1>1, <1>2, <1>4

(* The requests that a check sends.                                        *)
LEMMA QueryFacts ==
    ASSUME NEW s, NEW d \in Devices \cup {None}, NEW behind
    PROVE  IsQuery(Query(s, d, behind))
  BY DEF Query, IsQuery

(* Counting answers does not change the requests.                          *)
LEMMA DoneFacts ==
    ASSUME NEW c, QueriesOf(c), NEW s
    PROVE  QueriesOf(LoggerDone(c)) /\ QueriesOf(DeviceDone(c, s))
<1>1. \A z : QueriesOf(z) => QueriesOf(LoggerDone(z))
  <2> SUFFICES ASSUME NEW z, QueriesOf(z) PROVE QueriesOf(LoggerDone(z))
    OBVIOUS
  <2>1. PICK y : y = LoggerDone(z)
    OBVIOUS
  <2>2. y = [z EXCEPT !.loggers = @ - 1, !.launch = IF z.loggers = 1 THEN @ + 1 ELSE @]
    BY <2>1 DEF LoggerDone
  <2>3. QueriesOf(y)
    BY <2>2 DEF QueriesOf
  <2> QED BY <2>1, <2>3
<1>2. PICK z : z = [c EXCEPT !.devices[s] = @ - 1]
  OBVIOUS
<1>3. QueriesOf(z)
  BY <1>2 DEF QueriesOf
<1>4. DeviceDone(c, s) = IF z.devices[s] = 0 THEN LoggerDone(z) ELSE z
  BY <1>2 DEF DeviceDone
<1> QED BY <1>1, <1>3, <1>4

(* A request that is answered, or given up, is taken away.                 *)
LEMMA WithoutQuery ==
    ASSUME NEW c, QueriesOf(c), NEW q
    PROVE  QueriesOf([c EXCEPT !.queries = @ \ {q}])
  BY DEF QueriesOf

(* Every step keeps the form of the requests.                              *)
LEMMA QueriesStep ==
    ASSUME QueriesInv, [Next]_vars
    PROVE  QueriesInv'
<1> SUFFICES QueriesOf(check')
  BY DEF QueriesInv, QueriesOf, IsQuery
<1>0. QueriesOf(check)
  BY DEF QueriesInv
<1>2. CASE HandleNews \/ HandlePosted \/ \E id \in 1..MaxAsked : HandleAnswer(id)
  <2>1. check' = check
    BY <1>2 DEF HandleNews, instanceNewDevice, instanceGoneDevice, instanceNewLogger, goneLogger,
                newLoggerServer, goneLoggerServer, HandlePosted, newLoggerPosted,
                evaluateBlockedOnStrand, HandleAnswer, addDevicesDone, addDevicesFailed
  <2> QED BY <1>0, <2>1
<1>3. CASE HandleQuery
  <2>1. ASSUME NEW q \in check.queries, NEW old \in SUBSET Devices,
                    NEW updated \in SUBSET old, checkLoggerConfig(q, old, updated)
        PROVE  QueriesOf(check')
    <3>1. PICK empty : empty = {d \in Devices : q.stamps[d] = "empty"}
      OBVIOUS
    <3>2. PICK c : c = [check EXCEPT !.queries = (@ \ {q}) \cup {Query(q.server, d, d \in updated) : d \in old},
                                     !.devices[q.server] = Cardinality(old),
                                     !.empty[q.server] = empty]
      OBVIOUS
    <3>3. check' = IF old = {} THEN LoggerDone(c) ELSE c
      BY <2>1, <3>1, <3>2 DEF checkLoggerConfig
    <3>4. \A x \in (check.queries \ {q}) \cup {Query(q.server, d, d \in updated) : d \in old} : IsQuery(x)
      BY <1>0, QueryFacts DEF QueriesOf
    <3>5. /\ c = [timer |-> c.timer, posted |-> c.posted, launch |-> c.launch, loggers |-> c.loggers,
                  devices |-> c.devices, queries |-> c.queries, empty |-> c.empty,
                  emptyLast |-> c.emptyLast]
          /\ c.queries = (check.queries \ {q}) \cup {Query(q.server, d, d \in updated) : d \in old}
      BY <1>0, <3>2 DEF QueriesOf
    <3>6. QueriesOf(c)
      BY <3>4, <3>5 DEF QueriesOf
    <3> QED BY <3>3, <3>6, DoneFacts
  <2>2. ASSUME NEW q \in check.queries,
               checkLoggerConfigFailed(q) \/ checkDeviceConfig(q) \/ checkDeviceConfigFailed(q)
        PROVE  QueriesOf(check')
    <3>1. PICK c : c = [check EXCEPT !.queries = @ \ {q}]
      OBVIOUS
    <3>2. check' = LoggerDone(c) \/ check' = DeviceDone(c, q.server)
      BY <2>2, <3>1 DEF checkLoggerConfigFailed, checkDeviceConfig, checkDeviceConfigFailed
    <3>3. QueriesOf(c)
      BY <1>0, <3>1, WithoutQuery
    <3> QED BY <3>2, <3>3, DoneFacts
  <2> QED BY <1>3, <2>1, <2>2 DEF HandleQuery
<1>4. CASE RunCheck
  <2>1. CASE topologyCheck
    <3>1. check' = [check EXCEPT !.timer = FALSE, !.posted = TRUE]
      BY <2>1 DEF topologyCheck
    <3> QED BY <1>0, <3>1 DEF QueriesOf
  <2>2. CASE topologyCheckOnStrand
    <3>1. PICK running : running = {s \in Servers : m_loggerData[s].state = "RUNNING"}
      OBVIOUS
    <3>2. PICK n, set : n = Cardinality(running) /\ set = {Query(s, None, FALSE) : s \in running}
      OBVIOUS
    <3>3. check' = [check EXCEPT !.posted = FALSE, !.loggers = n, !.queries = set,
                                 !.launch = IF running = {} THEN @ + 1 ELSE @]
      BY <2>2, <3>1, <3>2 DEF topologyCheckOnStrand
    <3>4. \A q \in set : IsQuery(q)
      BY <3>2, QueryFacts
    <3> QED BY <1>0, <3>3, <3>4 DEF QueriesOf
  <2>3. CASE launchTopologyCheck
    <3>1. PICK none : none = NoCheck.empty
      OBVIOUS
    <3>2. check' = [check EXCEPT !.launch = @ - 1, !.timer = TRUE, !.emptyLast = check.empty,
                                 !.empty = none]
      BY <2>3, <3>1 DEF launchTopologyCheck
    <3> QED BY <1>0, <3>2 DEF QueriesOf
  <2> QED BY <1>4, <2>1, <2>2, <2>3 DEF RunCheck
<1>5. CASE LoggersAndDevices
  <2>1. CASE LoggerStep /\ UNCHANGED <<managerVars, environment>>
    BY <1>0, <2>1 DEF managerVars
  <2>2. ASSUME NEW s \in Servers, receive(s)
        PROVE  QueriesOf(check')
    <3>2. PICK set : set = {IF q.server = s /\ q.device = None
                            THEN [q EXCEPT !.answered = TRUE, !.stamps = logger'[s].stamps]
                            ELSE q : q \in check.queries}
      OBVIOUS
    <3>3. check' = check \/ check' = [check EXCEPT !.queries = set]
      BY <2>2, <3>2 DEF receive
    <3>4. ASSUME NEW x \in set PROVE IsQuery(x)
      <4>1. PICK q \in check.queries :
              x = q \/ x = [q EXCEPT !.answered = TRUE, !.stamps = logger'[s].stamps]
        BY <3>2
      <4>2. IsQuery(q)
        BY <1>0 DEF QueriesOf
      <4> QED BY <4>1, <4>2 DEF IsQuery
    <3> QED BY <1>0, <3>3, <3>4 DEF QueriesOf
  <2>3. ASSUME NEW s \in Servers, slotStartDevice(s) \/ loggerStarted(s)
        PROVE  QueriesOf(check')
    BY <1>0, <2>3 DEF slotStartDevice, loggerStarted, managerVars
  <2>4. ASSUME NEW q \in check.queries, answerQuery(q)
        PROVE  QueriesOf(check')
    <3>1. PICK b : b = (q.behind /\ logger[q.server].level[q.device] # "COMPLETE")
      OBVIOUS
    <3>2. PICK x : x = [q EXCEPT !.answered = TRUE, !.behind = b]
      OBVIOUS
    <3>3. check' = [check EXCEPT !.queries = (@ \ {q}) \cup {x}]
      BY <2>4, <3>1, <3>2 DEF answerQuery
    <3>4. IsQuery(x)
      <4>1. IsQuery(q)
        BY <1>0 DEF QueriesOf
      <4> QED BY <3>2, <4>1 DEF IsQuery
    <3> QED BY <1>0, <3>3, <3>4 DEF QueriesOf
  <2> QED BY <1>5, <2>1, <2>2, <2>3, <2>4 DEF LoggersAndDevices
<1>6. CASE Outside
  <2>1. CASE restartManager
    <3>1. check' = [NoCheck EXCEPT !.launch = 1]
      BY <2>1 DEF restartManager
    <3> QED BY <3>1, CheckStarted
  <2>2. CASE topologyCheck_slotForceCheck
    <3>1. check' = [check EXCEPT !.timer = FALSE, !.posted = TRUE]
      BY <2>2 DEF topologyCheck_slotForceCheck
    <3> QED BY <1>0, <3>1 DEF QueriesOf
  <2>3. CASE \/ \E s \in Servers : startServer(s) \/ killServer(s) \/ killLogger(s) \/ loggerNotStarted(s)
             \/ \E d \in Devices : startDevice(d) \/ \E sent \in BOOLEAN : killDevice(d, sent)
             \/ \E x \in Devices \cup Classes : preReconfigure(x)
    <3>1. check' = check
      BY <2>3 DEF startServer, killServer, killLogger, loggerNotStarted, LoggerLost, startDevice,
                  killDevice, preReconfigure, managerVars
    <3> QED BY <1>0, <3>1
  <2> QED BY <1>6, <2>1, <2>2, <2>3 DEF Outside
<1>7. CASE UNCHANGED vars
  BY <1>0, <1>7 DEF vars, managerVars
<1> QED BY <1>2, <1>3, <1>4, <1>5, <1>6, <1>7 DEF Next

(* A logger answers the request to add devices, or does not.               *)
LEMMA AnswerInv ==
    ASSUME ManagerInv, NEW a \in asked, addDevicesDone(a) \/ addDevicesFailed(a)
    PROVE  ManagerInv'
<1>1. PICK s : s = a.server
  OBVIOUS
<1>2. s \in Servers /\ a.devices \subseteq Devices /\ m_loggerData[s] \in ServerData
  BY <1>1, PresentFacts DEF Requests
<1>3. CASE addDevicesDone(a)
  <2>1. PICK x : x = [m_loggerData[s] EXCEPT !.beingAdded = @ \ a.devices, !.devices = @ \cup a.devices]
    OBVIOUS
  <2>2. x \in ServerData /\ All(m_loggerData[s]) \subseteq All(x)
    BY <1>2, <2>1 DEF ServerData, All
  <2>3. m_loggerData' = [m_loggerData EXCEPT ![s].beingAdded = @ \ a.devices,
                                             ![s].devices = @ \cup a.devices]
    BY <1>1, <1>3 DEF addDevicesDone
  <2>4. m_loggerData' = [m_loggerData EXCEPT ![s] = x]
    BY <1>2, <2>1, <2>3, PresentFacts
  <2>5. /\ UNCHANGED <<m_loggerMap, m_serverIndex, m_blocked, known, posted>>
        /\ asked' = asked \ {a}
    BY <1>3 DEF addDevicesDone
  <2>6. Requests(asked')
    BY <2>5, PresentFacts DEF Requests
  <2> QED BY <1>2, <2>2, <2>4, <2>5, <2>6, ServerKept
<1>4. CASE addDevicesFailed(a)
  <2>1. PICK w : w = Current
    OBVIOUS
  <2>2. /\ WorkTypes(w) /\ w.data = m_loggerData
    BY <2>1, PresentFacts DEF Current
  <2>3. PICK again : again = a.devices \cap m_loggerData[s].beingAdded
    OBVIOUS
  <2>4. PICK u : u = [w EXCEPT !.asked = @ \ {a}, !.data[s].backlog = @ \cup again,
                               !.data[s].beingAdded = @ \ again]
    OBVIOUS
  <2>5. PICK v : v = IF u.data[s].state = "RUNNING" THEN addDevicesToBeLogged(u, s) ELSE u
    OBVIOUS
  <2>6. Becomes(v) /\ known' = known /\ posted' = posted /\ m_blocked' = m_blocked
    BY <1>1, <1>4, <2>1, <2>3, <2>4, <2>5 DEF addDevicesFailed
  <2>7. PICK x : x = [w.data[s] EXCEPT !.backlog = @ \cup again, !.beingAdded = @ \ again]
    OBVIOUS
  <2>8. x \in ServerData /\ All(w.data[s]) \subseteq All(x)
    BY <1>2, <2>2, <2>3, <2>7 DEF ServerData, All
  <2>9. Replaced(w, u, s, x) /\ u.asked = w.asked \ {a}
    BY <1>2, <2>2, <2>4, <2>7 DEF WorkTypes, ServerData, Replaced
  <2>10. Requests(u.asked)
    BY <2>2, <2>9 DEF WorkTypes, Requests
  <2>11. /\ WorkTypes(u) /\ u.map = w.map
         /\ \A t \in Servers : u.data[t] = IF t = s THEN x ELSE w.data[t]
    <3>1. s \in Servers /\ WorkTypes(w) /\ x \in ServerData /\ Replaced(w, u, s, x)
      BY <1>2, <2>2, <2>8, <2>9
    <3> QED BY <2>10, <3>1, DataFacts
  <2>12. /\ WorkTypes(v) /\ v.map = u.map
         /\ \A t \in Servers : All(v.data[t]) = All(u.data[t])
    BY <1>2, <2>5, <2>11, AddFacts
  <2>13. \A t \in Servers : All(w.data[t]) \subseteq All(v.data[t])
    BY <2>8, <2>11, <2>12
  <2>14. \A e \in Devices : Holding(w, e) => Holding(v, e)
    BY <2>11, <2>12, <2>13, HoldingKept
  <2>15. Current' = v
    BY <2>6, <2>12, BecomesFacts
  <2>16. \A e \in known' : Holding(Current, e) => Holding(Current', e)
    BY <2>1, <2>6, <2>14, <2>15, PresentFacts
  <2> QED BY <2>6, <2>12, <2>15, <2>16, ManagerKept
<1> QED BY <1>3, <1>4

(* The topology check: devices are only removed to be added again.         *)
LEMMA QueryInv ==
    ASSUME ManagerInv, QueriesInv, HandleQuery
    PROVE  ManagerInv'
<1>1. ASSUME NEW q \in check.queries, NEW old \in SUBSET Devices,
                    NEW updated \in SUBSET old, checkLoggerConfig(q, old, updated)
      PROVE  ManagerInv'
  <2>1. PICK forced : forced = {d \in Devices : q.stamps[d] = "empty"} \cap check.emptyLast[q.server]
    OBVIOUS
  <2>2. PICK v : v = Each("force", Current, forced)
    OBVIOUS
  <2>3. Treats("force", Current, v, forced)
    <3>1. forced \in SUBSET Devices
      BY <2>1
    <3> QED BY <2>2, <3>1, EachFacts, PresentFacts
  <2>4. Becomes(v) /\ known' = known /\ posted' = posted /\ m_blocked' = m_blocked
    BY <1>1, <2>1, <2>2 DEF checkLoggerConfig
  <2>5. WorkTypes(v) /\ \A e \in Devices : Holding(Current, e) => Holding(v, e)
    BY <2>3 DEF Treats
  <2>6. Current' = v
    BY <2>4, <2>5, BecomesFacts
  <2>7. \A e \in known' : Holding(Current, e) => Holding(Current', e)
    BY <2>4, <2>5, <2>6, PresentFacts
  <2> QED BY <2>4, <2>5, <2>6, <2>7, ManagerKept
<1>2. ASSUME NEW q \in check.queries, checkDeviceConfig(q)
      PROVE  ManagerInv'
  <2>1. PICK v : v = IF q.behind THEN forceDeviceToBeLogged(Current, q.device) ELSE Current
    OBVIOUS
  <2>2. Becomes(v) /\ known' = known /\ posted' = posted /\ m_blocked' = m_blocked
    BY <1>2, <2>1 DEF checkDeviceConfig
  <2>3. WorkTypes(v) /\ \A e \in Devices : Holding(Current, e) => Holding(v, e)
    <3>1. q.device \in Devices
      BY <1>2 DEF checkDeviceConfig, QueriesInv, QueriesOf, IsQuery
    <3> QED BY <2>1, <3>1, ForceFacts, PresentFacts
  <2>4. Current' = v
    BY <2>2, <2>3, BecomesFacts
  <2>5. \A e \in known' : Holding(Current, e) => Holding(Current', e)
    BY <2>2, <2>3, <2>4, PresentFacts
  <2> QED BY <2>2, <2>3, <2>4, <2>5, ManagerKept
<1>3. ASSUME NEW q \in check.queries, checkLoggerConfigFailed(q) \/ checkDeviceConfigFailed(q)
      PROVE  ManagerInv'
  <2>1. UNCHANGED <<m_loggerData, m_loggerMap, m_serverIndex, m_blocked, known, posted, asked>>
    BY <1>3 DEF checkLoggerConfigFailed, checkDeviceConfigFailed
  <2> QED BY <2>1, ManagerSame, PresentFacts
<1> QED BY <1>1, <1>2, <1>3 DEF HandleQuery

(* A server that has the logger already, or cannot start it, makes the     *)
(* manager post newLogger() at most.                                       *)
LEMMA NotStartedInv ==
    ASSUME ManagerInv, NEW s \in Servers, posted' \in {posted, loggerInstantiationHandler(s)},
           UNCHANGED <<m_loggerData, m_loggerMap, m_serverIndex, m_blocked, known, asked>>
    PROVE  ManagerInv'
<1>1. CASE posted' = posted
  BY <1>1, ManagerSame, PresentFacts
<1>2. CASE posted' # posted
  <2>1. PICK t : t = [task |-> "newLogger", server |-> s, old |-> {}, new |-> {}]
    OBVIOUS
  <2>2. posted' = Append(posted, t)
    BY <1>2, <2>1 DEF loggerInstantiationHandler
  <2>3. t \in Tasks /\ ~IsEvaluation(t)
    BY <2>1 DEF Tasks, IsEvaluation
  <2>4. m_blocked' \subseteq Devices \cup Classes
    BY DEF ManagerInv
  <2> QED BY <2>2, <2>3, <2>4, PostedInv
<1> QED BY <1>1, <1>2

(* Loggers, servers and devices do not touch what the manager keeps.       *)
LEMMA LoggersAndDevicesInv ==
    ASSUME ManagerInv, LoggersAndDevices
    PROVE  ManagerInv'
<1>1. CASE LoggerStep /\ UNCHANGED <<managerVars, environment>>
  <2>1. UNCHANGED <<m_loggerData, m_loggerMap, m_serverIndex, m_blocked, known, posted, asked>>
    BY <1>1 DEF managerVars
  <2> QED BY <2>1, ManagerSame, PresentFacts
<1>2. ASSUME NEW s \in Servers, receive(s)
      PROVE  ManagerInv'
  <2>1. UNCHANGED <<m_loggerData, m_loggerMap, m_serverIndex, m_blocked, known, posted>>
    BY <1>2 DEF receive
  <2>2. PICK id : asked' = asked \/ asked' = {[a EXCEPT !.answered = @ \/ a.id = id] : a \in asked}
    BY <1>2 DEF receive
  <2>3. Requests(asked')
    BY <2>2, PresentFacts DEF Requests
  <2> QED BY <2>1, <2>3, ManagerSame
<1>3. ASSUME NEW s \in Servers, slotStartDevice(s) \/ loggerStarted(s)
      PROVE  ManagerInv'
  <2>1. /\ UNCHANGED <<m_loggerData, m_loggerMap, m_serverIndex, m_blocked, known, asked>>
        /\ posted' \in {posted, loggerInstantiationHandler(s)}
    BY <1>3 DEF slotStartDevice, loggerStarted, managerVars
  <2> QED BY <2>1, NotStartedInv
<1>4. ASSUME NEW q \in check.queries, answerQuery(q)
      PROVE  ManagerInv'
  <2>1. UNCHANGED <<m_loggerData, m_loggerMap, m_serverIndex, m_blocked, known, posted, asked>>
    BY <1>4 DEF answerQuery
  <2> QED BY <2>1, ManagerSame, PresentFacts
<1> QED BY <1>1, <1>2, <1>3, <1>4 DEF LoggersAndDevices

(* A manager that starts, or starts again, knows of no device and keeps    *)
(* none.                                                                   *)
LEMMA StartedInv ==
    ASSUME NEW map \in [Devices -> Servers \cup {None}],
           NEW w, w = [data |-> [s \in Servers |-> NoData], map |-> map, index |-> 0, asked |-> {}, to |-> w.to]
    PROVE  /\ WorkTypes(w)
           /\ \A list : HeldUnlessListed(w, {}, <<>>, list) /\ Linked(<<>>, list)
<1>1. Len(ServerList) \in Nat
  BY ServerListAssumption
<1>2. NoData \in ServerData
  BY DEF NoData, ServerData
<1>3. WorkTypes(w)
  BY <1>1, <1>2 DEF WorkTypes, Requests
<1>4. \A list : HeldUnlessListed(w, {}, <<>>, list) /\ Linked(<<>>, list)
  BY DEF HeldUnlessListed, Linked
<1> QED BY <1>3, <1>4

(* What comes from outside.                                                *)
LEMMA OutsideManagerInv ==
    ASSUME ManagerInv, Outside
    PROVE  ManagerInv'
<1>1. CASE restartManager
  <2>1. /\ m_loggerData' = [s \in Servers |-> NoData] /\ known' = {} /\ asked' = {} /\ posted' = <<>>
        /\ m_serverIndex' = 0 /\ m_loggerMap' = m_loggerMap /\ m_blocked' = m_blocked
    BY <1>1 DEF restartManager
  <2>2. PICK v : v = Current'
    OBVIOUS
  <2>3. v = [data |-> [s \in Servers |-> NoData], map |-> m_loggerMap, index |-> 0, asked |-> {}, to |-> v.to]
    BY <2>1, <2>2 DEF Current
  <2>4. m_loggerMap \in [Devices -> Servers \cup {None}]
    BY PresentFacts DEF WorkTypes, Current
  <2>5. WorkTypes(v) /\ \A list : HeldUnlessListed(v, {}, <<>>, list) /\ Linked(<<>>, list)
    BY <2>3, <2>4, StartedInv
  <2>6. WorkTypes(Current')
    BY <2>2, <2>5
  <2>7. HeldUnlessListed(Current, known, posted, m_blocked)'
    BY <2>1, <2>2, <2>5
  <2>8. Linked(posted, m_blocked)'
    BY <2>1, <2>5
  <2>9. posted' \in Seq(Tasks) /\ known' \subseteq Devices /\ m_blocked' \subseteq Devices \cup Classes
    BY <2>1 DEF ManagerInv
  <2> QED BY <2>6, <2>7, <2>8, <2>9 DEF ManagerInv
<1>2. CASE topologyCheck_slotForceCheck
  <2>1. UNCHANGED <<m_loggerData, m_loggerMap, m_serverIndex, m_blocked, known, posted, asked>>
    BY <1>2 DEF topologyCheck_slotForceCheck
  <2> QED BY <2>1, ManagerSame, PresentFacts
<1>3. CASE \E s \in Servers : startServer(s) \/ killServer(s) \/ killLogger(s)
  <2>1. UNCHANGED <<m_loggerData, m_loggerMap, m_serverIndex, m_blocked, known, posted, asked>>
    BY <1>3 DEF startServer, killServer, killLogger, LoggerLost, managerVars
  <2> QED BY <2>1, ManagerSame, PresentFacts
<1>4. CASE \E d \in Devices : startDevice(d) \/ \E sent \in BOOLEAN : killDevice(d, sent)
  <2>1. UNCHANGED <<m_loggerData, m_loggerMap, m_serverIndex, m_blocked, known, posted, asked>>
    BY <1>4 DEF startDevice, killDevice, managerVars
  <2> QED BY <2>1, ManagerSame, PresentFacts
<1>5. ASSUME NEW x \in Devices \cup Classes, preReconfigure(x)
      PROVE  ManagerInv'
  <2>1. PICK new : new = IF x \in m_blocked THEN m_blocked \ {x} ELSE m_blocked \cup {x}
    OBVIOUS
  <2>2. PICK t : t = [task |-> "evaluate", server |-> None, old |-> m_blocked, new |-> new]
    OBVIOUS
  <2>3. /\ m_blocked' = new /\ posted' = Append(posted, t)
        /\ UNCHANGED <<m_loggerData, m_loggerMap, m_serverIndex, known, asked>>
    BY <1>5, <2>1, <2>2 DEF preReconfigure
  <2>4. m_blocked \subseteq Devices \cup Classes /\ new \subseteq Devices \cup Classes
    BY <2>1 DEF ManagerInv
  <2>5. t \in Tasks /\ IsEvaluation(t) /\ t.old = m_blocked /\ t.new = new
    BY <2>2, <2>4 DEF Tasks, IsEvaluation
  <2> QED BY <2>3, <2>4, <2>5, PostedInv
<1>6. ASSUME NEW s \in Servers, loggerNotStarted(s)
      PROVE  ManagerInv'
  <2>1. /\ UNCHANGED <<m_loggerData, m_loggerMap, m_serverIndex, m_blocked, known, asked>>
        /\ posted' \in {posted, loggerInstantiationHandler(s)}
    BY <1>6 DEF loggerNotStarted
  <2> QED BY <2>1, NotStartedInv
<1> QED BY <1>1, <1>2, <1>3, <1>4, <1>5, <1>6 DEF Outside

(* Every step keeps the invariant of the manager.                          *)
LEMMA ManagerStep ==
    ASSUME ManagerInv, QueriesInv, [Next]_vars
    PROVE  ManagerInv'
<1>1. CASE HandleNews
  BY <1>1, NewsInv
<1>2. CASE HandlePosted
  BY <1>2, HandlePostedInv
<1>3. CASE HandleQuery
  BY <1>3, QueryInv
<1>4. CASE RunCheck
  <2>1. UNCHANGED <<m_loggerData, m_loggerMap, m_serverIndex, m_blocked, known, posted, asked>>
    BY <1>4 DEF RunCheck, topologyCheck, topologyCheckOnStrand, launchTopologyCheck
  <2> QED BY <2>1, ManagerSame, PresentFacts
<1>5. CASE \E id \in 1..MaxAsked : HandleAnswer(id)
  BY <1>5, AnswerInv DEF HandleAnswer
<1>6. CASE LoggersAndDevices
  BY <1>6, LoggersAndDevicesInv
<1>7. CASE Outside
  BY <1>7, OutsideManagerInv
<1>8. CASE UNCHANGED vars
  <2>1. UNCHANGED <<m_loggerData, m_loggerMap, m_serverIndex, m_blocked, known, posted, asked>>
    BY <1>8 DEF vars, managerVars
  <2> QED BY <2>1, ManagerSame, PresentFacts
<1> QED BY <1>1, <1>2, <1>3, <1>4, <1>5, <1>6, <1>7, <1>8 DEF Next

(* The data of the manager (devices/DataLoggerManager.cc) is consistent:   *)
(* the servers it has are those configured, every known device that is on  *)
(* no list to be evaluated is kept by its server.                          *)
THEOREM ManagerInvariance == Spec => [](QueriesInv /\ ManagerInv)
<1>1. Init => ManagerInv
  <2> SUFFICES ASSUME Init PROVE ManagerInv
    OBVIOUS
  <2>1. /\ m_loggerData = [s \in Servers |-> NoData] /\ known = {} /\ asked = {} /\ posted = <<>>
        /\ m_serverIndex = 0 /\ m_loggerMap = [d \in Devices |-> None] /\ m_blocked = {}
    BY DEF Init, ManagerStarted
  <2>2. PICK w : w = Current
    OBVIOUS
  <2>3. PICK map : map = m_loggerMap
    OBVIOUS
  <2>4. w = [data |-> [s \in Servers |-> NoData], map |-> map, index |-> 0, asked |-> {}, to |-> w.to]
    BY <2>1, <2>2, <2>3 DEF Current
  <2>5. map \in [Devices -> Servers \cup {None}]
    BY <2>1, <2>3
  <2>6. WorkTypes(w) /\ \A list : HeldUnlessListed(w, {}, <<>>, list) /\ Linked(<<>>, list)
    BY <2>4, <2>5, StartedInv
  <2> QED BY <2>1, <2>2, <2>6 DEF ManagerInv
<1>2. QueriesInv /\ ManagerInv /\ [Next]_vars => ManagerInv'
  BY ManagerStep
<1>3. Init => QueriesInv
  BY CheckStarted DEF Init, ManagerStarted, QueriesInv
<1>4. QueriesInv /\ [Next]_vars => QueriesInv'
  BY QueriesStep
<1> QED BY <1>1, <1>2, <1>3, <1>4, PTL DEF Spec

(* The manager never forgets a device that it knows of and shall log.      *)
THEOREM KnownIsKept == Spec => []NobodyForgotten
<1>1. ManagerInv => NobodyForgotten
  <2> SUFFICES ASSUME ManagerInv, NEW d \in known, ~Blocked(m_blocked, d),
                      \A i \in 1..Len(posted) : posted[i].task # "evaluate"
               PROVE  d \in All(m_loggerData[m_loggerMap[d]])
    BY DEF NobodyForgotten, All
  <2>1. OnNoList(posted, d)
    BY DEF OnNoList, IsEvaluation
  <2>2. Holding(Current, d)
    BY <2>1 DEF ManagerInv, HeldUnlessListed
  <2> QED BY <2>2 DEF Holding, Current
<1> QED BY <1>1, ManagerInvariance, PTL
=============================================================================
