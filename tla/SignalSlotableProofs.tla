------------------------ MODULE SignalSlotableProofs ------------------------
(***************************************************************************)
(* Proofs about two duties of karabo::xms::SignalSlotable: the connections *)
(* of its input channels, for any set of output channels and any number of *)
(* attempts and disturbances, and requests and replies, for any number of  *)
(* requests of both kinds, of threads that answer them and of lost         *)
(* messages.                                                               *)
(***************************************************************************)
EXTENDS InputConnect, RequestReply, TLAPS

(***************************************************************************)
(* Connections of input channels                                           *)
(***************************************************************************)
USE AttemptsAssumption, EventsAssumption

Calls(a) == attempt[a].posted + attempt[a].calls

(* An attempt has told its handler nothing until it is entered as open, is *)
(* given up or ends.  One that is being set up is not entered any more if  *)
(* it was given up, or if the input channel is dead.                       *)
AttemptInv(a) ==
    /\ attempt[a].phase = "free" => Calls(a) = 0
    /\ attempt[a].phase \in {"asked", "answered"} =>
          attempt[a].result = "none" /\ Calls(a) = 0 /\ life # "dead"
    /\ attempt[a].phase \in {"dialling", "connected"} =>
          \/ /\ attempt[a].result = "none" /\ Calls(a) = 0
             /\ setup[attempt[a].out] = a \/ life = "dead"
          \/ /\ attempt[a].result = "cancelled" /\ Calls(a) = 1
             /\ setup[attempt[a].out] # a
    /\ attempt[a].phase = "open" =>
          attempt[a].result = "ok" /\ open[attempt[a].out] = a /\ Calls(a) <= 1
    /\ attempt[a].phase = "closed" =>
          Calls(a) <= IF life = "dead" /\ attempt[a].result = "cancelled" THEN 2 ELSE 1

(* The maps of the input channel refer to attempts in the right phase, and *)
(* an output channel is in one of them only.                               *)
OutputInv(o) ==
    /\ setup[o] # 0 => /\ attempt[setup[o]].out = o
                       /\ attempt[setup[o]].phase \in {"dialling", "connected"}
                       /\ attempt[setup[o]].result = "none"
                       /\ open[o] = 0
    /\ open[o] # 0 => attempt[open[o]].out = o /\ attempt[open[o]].phase = "open"
    /\ life = "dead" => setup[o] = 0 /\ open[o] = 0
    /\ life # "dead" => tracked[o] = getConnectionStatus(o)

Inv ==
    /\ TypeOK
    /\ \A a \in Attempts : AttemptInv(a)
    /\ \A o \in Outputs : OutputInv(o)

-----------------------------------------------------------------------------
Records == Attempt \cup {Unused}

(* Nothing happens to an attempt that the handler or the maps are about    *)
Kept(b) ==
    \/ /\ attempt'[b].out = attempt[b].out
       /\ attempt'[b].phase = attempt[b].phase
       /\ attempt'[b].result = attempt[b].result
       /\ attempt'[b].posted = attempt[b].posted
       /\ attempt'[b].calls = attempt[b].calls
    \/ attempt'[b] = Unused /\ attempt[b].phase = "closed"

(* ... and the maps say the same of it                                     *)
Unmoved(b) ==
    /\ life' = life
    /\ \A o \in Outputs : setup'[o] = b <=> setup[o] = b
    /\ \A o \in Outputs : open'[o] = b <=> open[o] = b

(* The fields of records.                                                  *)
LEMMA RecordFacts ==
    /\ Unused.phase = "free" /\ Unused.posted = 0 /\ Unused.calls = 0
    /\ Unused.result = "none" /\ Unused.peer = "none"
    /\ \A r \in Records : /\ r.posted \in 0..2 /\ r.calls \in 0..2
                          /\ r.phase \in Phases
                          /\ r.phase # "free" => r \in Attempt
    /\ \A r \in Attempt : r.out \in Outputs
<1>1. /\ Unused.phase = "free" /\ Unused.posted = 0 /\ Unused.calls = 0
      /\ Unused.result = "none" /\ Unused.peer = "none"
  BY DEF Unused
<1> QED
  BY <1>1 DEF Records, Attempt, Phases

(* Forgetting attempts that are over changes nothing else.                 *)
LEMMA SettledFacts ==
    ASSUME NEW f \in [Attempts -> Records]
    PROVE  /\ Settled(f) \in [Attempts -> Records]
           /\ \A a \in Attempts :
                 \/ Settled(f)[a] = f[a]
                 \/ Settled(f)[a] = Unused /\ f[a].phase = "closed"
  BY DEF Settled, Over, Records

(* What holds of an attempt holds on if nothing happens to it,             *)
LEMMA KeptAttempt ==
    ASSUME NEW b \in Attempts, attempt[b] \in Records, AttemptInv(b), Kept(b), Unmoved(b)
    PROVE  AttemptInv(b)'
<1>1. CASE attempt'[b] = Unused
  BY <1>1, RecordFacts DEF AttemptInv, Calls
<1>2. CASE /\ attempt'[b].out = attempt[b].out
           /\ attempt'[b].phase = attempt[b].phase
           /\ attempt'[b].result = attempt[b].result
           /\ attempt'[b].posted = attempt[b].posted
           /\ attempt'[b].calls = attempt[b].calls
  <2>1. attempt[b].phase # "free" => attempt[b].out \in Outputs
    BY RecordFacts
  <2> QED
    BY <1>2, <2>1 DEF AttemptInv, Calls, Unmoved
<1> QED
  BY <1>1, <1>2 DEF Kept

(* and so does what holds of an output channel.                            *)
LEMMA KeptOutput ==
    ASSUME NEW o \in Outputs, OutputInv(o), life' = life, setup'[o] = setup[o],
           open'[o] = open[o], tracked'[o] = tracked[o],
           setup[o] # 0 => Kept(setup[o]), open[o] # 0 => Kept(open[o])
    PROVE  OutputInv(o)'
<1>1. setup[o] # 0 => /\ attempt'[setup[o]].out = attempt[setup[o]].out
                      /\ attempt'[setup[o]].phase = attempt[setup[o]].phase
                      /\ attempt'[setup[o]].result = attempt[setup[o]].result
  BY DEF Kept, OutputInv
<1>2. open[o] # 0 => /\ attempt'[open[o]].out = attempt[open[o]].out
                     /\ attempt'[open[o]].phase = attempt[open[o]].phase
  BY DEF Kept, OutputInv
<1>3. getConnectionStatus(o)' = getConnectionStatus(o)
  BY DEF getConnectionStatus
<1> QED
  BY <1>1, <1>2, <1>3 DEF OutputInv

(* A step that leaves the maps and the fate of all attempts alone          *)
LEMMA KeptAll ==
    ASSUME Inv, UNCHANGED client, \A b \in Attempts : Kept(b)
    PROVE  /\ \A b \in Attempts : AttemptInv(b)'
           /\ \A o \in Outputs : OutputInv(o)'
<1>1. ASSUME NEW b \in Attempts PROVE AttemptInv(b)'
  <2>1. attempt[b] \in Records /\ AttemptInv(b) /\ Kept(b) /\ Unmoved(b)
    BY DEF Inv, TypeOK, Records, Unmoved, client
  <2> QED
    BY <2>1, KeptAttempt
<1>2. ASSUME NEW o \in Outputs PROVE OutputInv(o)'
  <2>1. /\ OutputInv(o) /\ life' = life /\ setup'[o] = setup[o]
        /\ open'[o] = open[o] /\ tracked'[o] = tracked[o]
        /\ setup[o] # 0 => Kept(setup[o])
        /\ open[o] # 0 => Kept(open[o])
    BY DEF Inv, TypeOK, client, Attempts
  <2> QED
    BY <2>1, KeptOutput
<1> QED
  BY <1>1, <1>2

(* A step of one attempt that leaves the maps alone, which do not refer to *)
(* it                                                                      *)
LEMMA KeptOthers ==
    ASSUME Inv, UNCHANGED client, NEW a \in Attempts,
           \A b \in Attempts : b # a => Kept(b),
           attempt[a].phase \in {"free", "asked", "answered", "closed"} \/ Kept(a),
           AttemptInv(a)'
    PROVE  /\ \A b \in Attempts : AttemptInv(b)'
           /\ \A o \in Outputs : OutputInv(o)'
<1>1. ASSUME NEW b \in Attempts, b # a PROVE AttemptInv(b)'
  <2>1. attempt[b] \in Records /\ AttemptInv(b) /\ Kept(b) /\ Unmoved(b)
    BY <1>1 DEF Inv, TypeOK, Records, Unmoved, client
  <2> QED
    BY <2>1, KeptAttempt
<1>2. ASSUME NEW o \in Outputs PROVE OutputInv(o)'
  <2>1. /\ OutputInv(o) /\ life' = life /\ setup'[o] = setup[o]
        /\ open'[o] = open[o] /\ tracked'[o] = tracked[o]
    BY DEF Inv, client
  <2>2. setup[o] # 0 => Kept(setup[o])
    BY <2>1 DEF Inv, TypeOK, OutputInv, Attempts
  <2>3. open[o] # 0 => Kept(open[o])
    BY <2>1 DEF Inv, TypeOK, OutputInv, Attempts
  <2> QED
    BY <2>1, <2>2, <2>3, KeptOutput
<1> QED
  BY <1>1, <1>2

(* The new record of an attempt, and the ones of the others                *)
LEMMA Changed ==
    ASSUME TypeOK, NEW a \in Attempts, NEW r \in Records,
           \/ attempt' = [attempt EXCEPT ![a] = r]
           \/ attempt' = Settled([attempt EXCEPT ![a] = r])
    PROVE  /\ attempt' \in [Attempts -> Records]
           /\ \A b \in Attempts : b # a => Kept(b)
           /\ \/ attempt'[a] = r
              \/ attempt'[a] = Unused /\ r.phase = "closed"
<1> DEFINE f == [attempt EXCEPT ![a] = r]
<1>1. f \in [Attempts -> Records] /\ f[a] = r /\ \A b \in Attempts : b # a => f[b] = attempt[b]
  BY DEF TypeOK, Records
<1>2. \/ attempt' = f
      \/ /\ attempt' \in [Attempts -> Records]
         /\ \A b \in Attempts : \/ attempt'[b] = f[b]
                                \/ attempt'[b] = Unused /\ f[b].phase = "closed"
  BY <1>1, SettledFacts
<1> HIDE DEF f
<1> QED
  BY <1>1, <1>2 DEF Kept

(* A step about one output channel and some of its attempts                *)
LEMMA OneOutput ==
    ASSUME Inv, life' = life, NEW o \in Outputs, NEW C \in SUBSET Attempts,
           \A b \in Attempts \ C : Kept(b),
           \A b \in C : attempt[b].out = o /\ AttemptInv(b)',
           \A x \in Outputs \ {o} : /\ setup'[x] = setup[x] /\ open'[x] = open[x]
                                    /\ tracked'[x] = tracked[x],
           setup'[o] = setup[o] \/ {setup[o], setup'[o]} \subseteq C \cup {0},
           open'[o] = open[o] \/ {open[o], open'[o]} \subseteq C \cup {0},
           OutputInv(o)'
    PROVE  /\ \A b \in Attempts : AttemptInv(b)'
           /\ \A x \in Outputs : OutputInv(x)'
<1>1. ASSUME NEW b \in Attempts \ C PROVE AttemptInv(b)'
  <2>1. b # 0
    BY DEF Attempts
  <2>2. Unmoved(b)
    BY <2>1 DEF Unmoved
  <2>3. attempt[b] \in Records /\ AttemptInv(b) /\ Kept(b)
    BY DEF Inv, TypeOK, Records
  <2> QED
    BY <2>2, <2>3, KeptAttempt
<1>2. ASSUME NEW x \in Outputs \ {o} PROVE OutputInv(x)'
  <2>1. /\ OutputInv(x) /\ setup'[x] = setup[x]
        /\ open'[x] = open[x] /\ tracked'[x] = tracked[x]
    BY DEF Inv
  <2>2. /\ setup[x] # 0 => setup[x] \in Attempts \ C
        /\ open[x] # 0 => open[x] \in Attempts \ C
    BY <2>1 DEF Inv, TypeOK, OutputInv, Attempts
  <2> QED
    BY <2>1, <2>2, KeptOutput
<1> QED
  BY <1>1, <1>2

-----------------------------------------------------------------------------
(* What a step has to keep                                                 *)
Keeps ==
    /\ attempt' \in [Attempts -> Records]
    /\ \A b \in Attempts : AttemptInv(b)'
    /\ \A o \in Outputs : OutputInv(o)'

(* A request is sent.                                                      *)
LEMMA AskStep ==
    ASSUME Inv, UNCHANGED client, NEW o \in Outputs, NEW cycle \in BOOLEAN,
           life = "used", connectInputToOutputChannel(o, cycle)
    PROVE  Keeps
<1> DEFINE r == [Unused EXCEPT !.out = o, !.cycle = cycle, !.phase = "asked"]
<1>1. PICK a \in Attempts : attempt[a].phase = "free" /\ attempt' = [attempt EXCEPT ![a] = r]
  BY DEF connectInputToOutputChannel
<1>2. /\ r \in Attempt /\ r.phase = "asked" /\ r.result = "none"
      /\ r.posted = 0 /\ r.calls = 0
  <2>1. Unused \in Attempt
    <3>1. (CHOOSE x \in Outputs : TRUE) \in Outputs
      BY Zenon
    <3> QED
      BY <3>1 DEF Unused, Attempt, Phases
  <2>2. r \in Attempt
    BY <2>1 DEF Attempt, Phases
  <2>3. /\ r.phase = "asked" /\ r.result = Unused.result
        /\ r.posted = Unused.posted /\ r.calls = Unused.calls
    BY <2>1 DEF Attempt
  <2> QED
    BY <2>2, <2>3, RecordFacts
<1> HIDE DEF r
<1>3. /\ attempt' \in [Attempts -> Records]
      /\ \A b \in Attempts : b # a => Kept(b)
      /\ attempt'[a] = r
  BY <1>1, <1>2, Changed DEF Inv, Records
<1>4. AttemptInv(a)'
  BY <1>2, <1>3 DEF AttemptInv, Calls, client
<1> QED
  BY <1>1, <1>3, <1>4, KeptOthers DEF Keeps

(* The request is answered.                                                *)
LEMMA AnswerStep ==
    ASSUME Inv, NEW a \in Attempts, slotGetOutputChannelInformation(a) PROVE Keeps
<1> DEFINE p == IF instance[attempt[a].out] = "up" THEN port[attempt[a].out] ELSE 0
           r == [attempt[a] EXCEPT !.phase = "answered", !.port = p]
<1>0. /\ TypeOK /\ attempt[a] \in Attempt /\ attempt[a].phase = "asked"
      /\ AttemptInv(a)
  BY RecordFacts DEF Inv, slotGetOutputChannelInformation, TypeOK, Records
<1>1. p \in Nat
  BY <1>0, RecordFacts DEF TypeOK
<1> HIDE DEF p
<1>2. /\ r \in Attempt /\ r.phase = "answered" /\ r.result = attempt[a].result
      /\ r.posted = attempt[a].posted /\ r.calls = attempt[a].calls
  BY <1>0, <1>1 DEF Attempt, Phases
<1>3. attempt' = [attempt EXCEPT ![a] = r]
  BY <1>0 DEF slotGetOutputChannelInformation, TypeOK, p
<1> HIDE DEF r
<1>4. /\ attempt' \in [Attempts -> Records]
      /\ \A b \in Attempts : b # a => Kept(b)
      /\ attempt'[a] = r
  BY <1>0, <1>2, <1>3, Changed DEF Records
<1>5. AttemptInv(a)'
  BY <1>0, <1>2, <1>4 DEF AttemptInv, Calls, client, slotGetOutputChannelInformation
<1> QED
  BY <1>0, <1>4, <1>5, KeptOthers DEF Keeps, slotGetOutputChannelInformation

(* An attempt whose request failed, or was answered with no port, is over. *)
LEMMA FailStep ==
    ASSUME Inv, UNCHANGED client, NEW a \in Attempts,
           attempt[a].phase \in {"asked", "answered"},
           attempt' = Settled([attempt EXCEPT ![a].phase = "closed", ![a].result = "failed",
                                              ![a].calls = @ + 1])
    PROVE  Keeps
<1> DEFINE r == [attempt[a] EXCEPT !.phase = "closed", !.result = "failed", !.calls = @ + 1]
<1>0. TypeOK /\ attempt[a] \in Attempt
  BY RecordFacts DEF Inv, TypeOK, Records
<1>1. attempt[a].calls = 0 /\ attempt[a].posted = 0 /\ attempt[a].calls + 1 \in 0..2
  BY <1>0, RecordFacts DEF Inv, AttemptInv, Calls, TypeOK, Records
<1>2. r \in Attempt /\ r.phase = "closed" /\ r.posted = 0 /\ r.calls = 1
  <2>1. r \in Attempt
    BY <1>0, <1>1 DEF Attempt, Phases
  <2>2. r.phase = "closed" /\ r.posted = 0 /\ r.calls = 1
    BY <1>0, <1>1 DEF Attempt
  <2> QED
    BY <2>1, <2>2
<1>3. attempt' = Settled([attempt EXCEPT ![a] = r])
  BY <1>0 DEF TypeOK
<1> HIDE DEF r
<1>4. /\ attempt' \in [Attempts -> Records]
      /\ \A b \in Attempts : b # a => Kept(b)
      /\ attempt'[a] = r \/ attempt'[a] = Unused
  BY <1>0, <1>2, <1>3, Changed DEF Records
<1>5. AttemptInv(a)'
  BY <1>2, <1>4, RecordFacts DEF AttemptInv, Calls
<1> QED
  BY <1>4, <1>5, KeptOthers DEF Keeps

(* connect(): the attempt is entered as being set up, or fails at once.    *)
LEMMA ConnectStep ==
    ASSUME Inv, life' = life, NEW a \in Attempts, attempt[a].phase = "answered", connect(a)
    PROVE  Keeps
<1>a. TypeOK /\ attempt[a] \in Attempt /\ attempt[a].out \in Outputs
  BY RecordFacts DEF Inv, TypeOK, Records
<1>b. PICK o \in Outputs : o = attempt[a].out
  BY <1>a
<1>c. PICK e \in 0..MaxAttempts : e = open[o]
  BY <1>a DEF TypeOK
<1> DEFINE gone == [attempt[e] EXCEPT !.phase = "closed"]
           erased == [b \in Attempts |-> IF b = e THEN [attempt[b] EXCEPT !.phase = "closed"]
                                         ELSE attempt[b]]
<1>0. /\ TypeOK /\ attempt[a] \in Attempt /\ a \in Attempts /\ attempt[a].out = o
      /\ OutputInv(o) /\ AttemptInv(a) /\ life # "dead"
      /\ e # 0 => e \in Attempts /\ AttemptInv(e) /\ attempt[e] \in Attempt
                  /\ attempt[e].phase = "open" /\ attempt[e].out = o /\ e # a
  <2>1. OutputInv(o) /\ AttemptInv(a) /\ e \in Attempts \cup {0}
    BY <1>a DEF Inv, TypeOK, Attempts
  <2> QED
    BY <1>a, <1>b, <1>c, <2>1, RecordFacts DEF Inv, OutputInv, AttemptInv, TypeOK, Records
<1>1. attempt[a].calls = 0 /\ attempt[a].posted = 0 /\ attempt[a].posted + 1 \in 0..2
  BY <1>0, RecordFacts DEF AttemptInv, Calls, TypeOK, Records
<1>2. /\ erased \in [Attempts -> Records]
      /\ erased[a] = attempt[a]
      /\ \A b \in Attempts \ {e} : erased[b] = attempt[b]
      /\ e # 0 => erased[e] = gone
  <2>1. e # 0 => gone \in Attempt
    BY <1>0 DEF Attempt, Phases
  <2>2. \A b \in Attempts : erased[b] = IF b = e THEN gone ELSE attempt[b]
    OBVIOUS
  <2>3. \A b \in Attempts : b = e => e # 0
    BY DEF Attempts
  <2>4. \A b \in Attempts : erased[b] \in Records
    BY <1>0, <2>1, <2>2, <2>3 DEF TypeOK, Records
  <2>5. erased \in [Attempts -> Records]
    BY <2>4
  <2> HIDE DEF erased, gone
  <2> QED
    BY <1>0, <2>2, <2>3, <2>5
<1>3. e # 0 => /\ gone.phase = "closed" /\ gone.result = "ok"
               /\ gone.posted + gone.calls <= 1
  BY <1>0 DEF Attempt, AttemptInv, Calls
<1> HIDE DEF erased, gone
<1>4. ASSUME NEW f \in [Attempts -> Records], attempt' = Settled(f),
             \A b \in Attempts \ {a, e} : f[b] = attempt[b],
             e # 0 => f[e] = gone
      PROVE  /\ attempt' \in [Attempts -> Records]
             /\ \A b \in Attempts \ {a, e} : Kept(b)
             /\ e # 0 => AttemptInv(e)'
             /\ \/ attempt'[a] = f[a]
                \/ attempt'[a] = Unused /\ f[a].phase = "closed"
  <2>1. /\ attempt' \in [Attempts -> Records]
        /\ \A b \in Attempts : \/ attempt'[b] = f[b]
                               \/ attempt'[b] = Unused /\ f[b].phase = "closed"
    BY <1>4, SettledFacts
  <2>2. \A b \in Attempts \ {a, e} : Kept(b)
    BY <1>4, <2>1 DEF Kept
  <2>3. e # 0 => AttemptInv(e)'
    BY <1>0, <1>3, <1>4, <2>1, RecordFacts DEF AttemptInv, Calls
  <2> QED
    BY <2>1, <2>2, <2>3
<1> DEFINE C == {a, e} \ {0}
<1>5. C \in SUBSET Attempts /\ \A b \in C : attempt[b].out = o
  BY <1>0
<1>6. open' = [open EXCEPT ![o] = 0]
  BY <1>b DEF connect
<1>7. CASE InProgress(o)
  <2> DEFINE r == [attempt[a] EXCEPT !.phase = "closed", !.result = "failed", !.posted = @ + 1]
             f == [erased EXCEPT ![a] = r]
  <2>1. /\ setup' = setup /\ tracked' = IF open[o] = 0 THEN tracked
                                        ELSE postConnectionTracker(o, "DISCONNECTED")
    BY <1>b, <1>7 DEF connect
  <2>2. attempt' = Settled(f)
    <3>1. attempt' = Settled([erased EXCEPT ![a].phase = "closed",
                                     ![a].result = "failed", ![a].posted = @ + 1])
      BY <1>b, <1>c, <1>7 DEF connect, erased
    <3> QED
      BY <1>2, <3>1
  <2>3. r \in Attempt
    BY <1>0, <1>1 DEF Attempt, Phases
  <2>4. r.phase = "closed" /\ r.posted = 1 /\ r.calls = 0
    BY <1>0, <1>1 DEF Attempt
  <2> HIDE DEF r
  <2>5. /\ f \in [Attempts -> Records] /\ f[a] = r
        /\ \A b \in Attempts \ {a, e} : f[b] = attempt[b]
        /\ e # 0 => f[e] = gone
    BY <1>0, <1>2, <2>3 DEF Records
  <2> HIDE DEF f
  <2>6. /\ attempt' \in [Attempts -> Records]
        /\ \A b \in Attempts \ {a, e} : Kept(b)
        /\ e # 0 => AttemptInv(e)'
        /\ attempt'[a] = r \/ attempt'[a] = Unused
    BY <1>4, <2>2, <2>5
  <2>7. AttemptInv(a)'
    BY <2>4, <2>6, RecordFacts DEF AttemptInv, Calls
  <2>8. open[o] = 0
    BY <1>0, <1>7 DEF OutputInv, InProgress
  <2>a. e = 0
    BY <1>c, <2>8
  <2>9. OutputInv(o)'
    <3>1. setup[o] \in Attempts \ {a, e}
      BY <1>0, <1>7, <2>a DEF InProgress, OutputInv, TypeOK, Attempts
    <3>2. open'[o] = open[o] /\ tracked' = tracked
      BY <1>0, <1>6, <2>1, <2>8 DEF TypeOK
    <3> QED
      BY <1>0, <2>1, <2>6, <2>8, <3>1, <3>2, KeptOutput
  <2>10. open' = open /\ tracked' = tracked
    BY <1>0, <1>6, <2>1, <2>8 DEF TypeOK
  <2>11. \A b \in Attempts \ C : Kept(b)
    BY <2>6, <1>0 DEF Attempts
  <2>12. \A b \in C : AttemptInv(b)'
    BY <2>6, <2>7
  <2> HIDE DEF C
  <2> QED
    BY <1>0, <1>5, <2>1, <2>6, <2>9, <2>10, <2>11, <2>12, OneOutput DEF Keeps
<1>8. CASE ~InProgress(o)
  <2> DEFINE r == [attempt[a] EXCEPT !.phase = "dialling"]
             f == [erased EXCEPT ![a] = r]
  <2>1. /\ setup' = [setup EXCEPT ![o] = a] /\ setup[o] = 0
        /\ tracked' = [tracked EXCEPT ![o] = "CONNECTING"]
    BY <1>b, <1>8 DEF connect, postConnectionTracker, InProgress
  <2>2. attempt' = Settled(f)
    <3>1. attempt' = Settled([erased EXCEPT ![a].phase = "dialling"])
      BY <1>b, <1>c, <1>8 DEF connect, erased
    <3> QED
      BY <1>2, <3>1
  <2>3. r \in Attempt
    BY <1>0, <1>1 DEF Attempt, Phases
  <2>4. r.phase = "dialling" /\ r.posted = 0 /\ r.calls = 0 /\ r.out = o /\ r.result = "none"
    BY <1>0, <1>1 DEF Attempt, AttemptInv
  <2> HIDE DEF r
  <2>5. /\ f \in [Attempts -> Records] /\ f[a] = r
        /\ \A b \in Attempts \ {a, e} : f[b] = attempt[b]
        /\ e # 0 => f[e] = gone
    BY <1>0, <1>2, <2>3 DEF Records
  <2> HIDE DEF f
  <2>6. /\ attempt' \in [Attempts -> Records]
        /\ \A b \in Attempts \ {a, e} : Kept(b)
        /\ e # 0 => AttemptInv(e)'
        /\ attempt'[a] = r
    BY <1>4, <2>2, <2>4, <2>5
  <2>7. /\ setup'[o] = a /\ open'[o] = 0 /\ tracked'[o] = "CONNECTING" /\ a # 0
        /\ \A x \in Outputs \ {o} : /\ setup'[x] = setup[x] /\ open'[x] = open[x]
                                    /\ tracked'[x] = tracked[x]
    BY <1>0, <1>6, <2>1 DEF TypeOK, Attempts
  <2>8. AttemptInv(a)'
    BY <1>0, <2>4, <2>6, <2>7 DEF AttemptInv, Calls
  <2>9. OutputInv(o)'
    BY <1>0, <2>4, <2>6, <2>7 DEF OutputInv, getConnectionStatus
  <2>10. \A b \in Attempts \ C : Kept(b)
    BY <2>6, <1>0 DEF Attempts
  <2>11. \A b \in C : AttemptInv(b)'
    BY <2>6, <2>8
  <2>12. {setup[o], setup'[o]} \subseteq C \cup {0} /\ {open[o], open'[o]} \subseteq C \cup {0}
    BY <1>c, <2>1, <2>7
  <2> HIDE DEF C
  <2> QED
    BY <1>0, <1>5, <2>6, <2>7, <2>9, <2>10, <2>11, <2>12, OneOutput DEF Keeps
<1> QED
  BY <1>7, <1>8

(* A step of the TCP channels only: hello and peer of some attempts        *)
LEMMA TcpStep ==
    ASSUME Inv, UNCHANGED client, NEW f,
           attempt' = Settled(f),
           f \in [Attempts -> Records],
           \A b \in Attempts : /\ f[b].out = attempt[b].out
                               /\ f[b].phase = attempt[b].phase
                               /\ f[b].result = attempt[b].result
                               /\ f[b].posted = attempt[b].posted
                               /\ f[b].calls = attempt[b].calls
    PROVE  Keeps
<1>1. /\ attempt' \in [Attempts -> Records]
      /\ \A b \in Attempts : Kept(b)
  BY SettledFacts DEF Kept
<1> QED
  BY <1>1, KeptAll DEF Keeps

(* Records whose TCP channel is touched                                    *)
LEMMA TcpFacts ==
    ASSUME NEW r \in Records, Outputs # {}, NEW p \in {"none", "up", "closed"},
           NEW h \in {"none", "sent", "read"}
    PROVE  /\ r \in Attempt
           /\ [r EXCEPT !.peer = p] \in Attempt
           /\ [r EXCEPT !.hello = h] \in Attempt
           /\ \A q \in {[r EXCEPT !.peer = p], [r EXCEPT !.hello = h]} :
                 /\ q.out = r.out /\ q.phase = r.phase /\ q.result = r.result
                 /\ q.posted = r.posted /\ q.calls = r.calls
<1>1. Unused \in Attempt
  <2>1. (CHOOSE x \in Outputs : TRUE) \in Outputs
    BY Zenon
  <2> QED
    BY <2>1 DEF Unused, Attempt, Phases
<1>2. r \in Attempt
  BY <1>1 DEF Records
<1>3. [r EXCEPT !.peer = p] \in Attempt /\ [r EXCEPT !.hello = h] \in Attempt
  BY <1>2 DEF Attempt
<1>4. \A q \in {[r EXCEPT !.peer = p], [r EXCEPT !.hello = h]} :
         /\ q.out = r.out /\ q.phase = r.phase /\ q.result = r.result
         /\ q.posted = r.posted /\ q.calls = r.calls
  BY <1>2 DEF Attempt
<1> QED
  BY <1>2, <1>3, <1>4

(* The output channel reads "hello",                                       *)
LEMMA ReadStep ==
    ASSUME Inv, NEW a \in Attempts, onTcpChannelRead(a) PROVE Keeps
<1> DEFINE o == attempt[a].out
           f == [b \in Attempts |->
                    IF b = a THEN [attempt[b] EXCEPT !.hello = "read"]
                    ELSE IF b = registered[o] THEN [attempt[b] EXCEPT !.peer = "closed"]
                    ELSE attempt[b]]
<1>1. \A b \in Attempts : attempt[b] \in Records
  BY DEF Inv, TypeOK, Records
<1>2. Outputs # {}
  <2>1. attempt[a] # Unused
    BY RecordFacts DEF onTcpChannelRead
  <2>2. attempt[a] \in Attempt
    BY <1>1, <2>1 DEF Records
  <2> QED
    BY <2>2, RecordFacts
<1>3. \A b \in Attempts : f[b] \in Records /\ f[b].out = attempt[b].out
         /\ f[b].phase = attempt[b].phase /\ f[b].result = attempt[b].result
         /\ f[b].posted = attempt[b].posted /\ f[b].calls = attempt[b].calls
  BY <1>1, <1>2, TcpFacts DEF Records
<1>4. attempt' = Settled(f) /\ UNCHANGED client
  BY DEF onTcpChannelRead
<1>5. f \in [Attempts -> Records]
  BY <1>3
<1> HIDE DEF f
<1> QED
  BY <1>3, <1>4, <1>5, TcpStep

(* sees that a connection ended                                            *)
LEMMA GoneStep ==
    ASSUME Inv, NEW a \in Attempts, onInputGone(a) PROVE Keeps
<1> DEFINE f == [attempt EXCEPT ![a].peer = "closed"]
<1>1. \A b \in Attempts : attempt[b] \in Records
  BY DEF Inv, TypeOK, Records
<1>2. Outputs # {}
  <2>1. attempt[a] # Unused
    BY RecordFacts DEF onInputGone
  <2>2. attempt[a] \in Attempt
    BY <1>1, <2>1 DEF Records
  <2> QED
    BY <2>2, RecordFacts
<1>3. \A b \in Attempts : f[b] = IF b = a THEN [attempt[b] EXCEPT !.peer = "closed"]
                                 ELSE attempt[b]
  BY DEF Inv, TypeOK
<1>4. attempt' = Settled(f) /\ UNCHANGED client /\ f \in [Attempts -> Records]
  <2>1. attempt' = Settled(f) /\ UNCHANGED client
    BY DEF onInputGone
  <2>2. [attempt[a] EXCEPT !.peer = "closed"] \in Records
    BY <1>1, <1>2, TcpFacts DEF Records
  <2> QED
    BY <2>1, <2>2 DEF Inv, TypeOK, Records
<1> HIDE DEF f
<1>5. \A b \in Attempts : f[b].out = attempt[b].out
         /\ f[b].phase = attempt[b].phase /\ f[b].result = attempt[b].result
         /\ f[b].posted = attempt[b].posted /\ f[b].calls = attempt[b].calls
  <2> DEFINE q == [attempt[a] EXCEPT !.peer = "closed"]
  <2>1. q.out = attempt[a].out /\ q.phase = attempt[a].phase /\ q.result = attempt[a].result
        /\ q.posted = attempt[a].posted /\ q.calls = attempt[a].calls
    BY <1>1, <1>2, TcpFacts
  <2>2. f[a] = q /\ \A b \in Attempts \ {a} : f[b] = attempt[b]
    BY <1>3
  <2> HIDE DEF q
  <2> QED
    BY <2>1, <2>2
<1> QED
  BY <1>4, <1>5, TcpStep

(* or closes all of them.                                                  *)
LEMMA LoseStep ==
    ASSUME Inv, NEW o \in Outputs, lose(o) PROVE Keeps
<1> DEFINE f == [a \in Attempts |->
                    IF attempt[a].out = o /\ attempt[a].peer = "up"
                      THEN [attempt[a] EXCEPT !.peer = "closed"] ELSE attempt[a]]
<1>1. \A b \in Attempts : attempt[b] \in Records
  BY DEF Inv, TypeOK, Records
<1>2. \A b \in Attempts : f[b] \in Records /\ f[b].out = attempt[b].out
         /\ f[b].phase = attempt[b].phase /\ f[b].result = attempt[b].result
         /\ f[b].posted = attempt[b].posted /\ f[b].calls = attempt[b].calls
  BY <1>1, TcpFacts DEF Records
<1>3. attempt' = Settled(f) /\ UNCHANGED client
  BY DEF lose, closeAll
<1>4. f \in [Attempts -> Records]
  BY <1>2
<1> HIDE DEF f
<1> QED
  BY <1>2, <1>3, <1>4, TcpStep

(* TCP connects.                                                           *)
LEMMA AcceptStep ==
    ASSUME Inv, NEW a \in Attempts, onTcpConnect(a) PROVE Keeps
<1> DEFINE r == [attempt[a] EXCEPT !.phase = "connected", !.peer = "up"]
<1>0. TypeOK /\ attempt[a].phase = "dialling" /\ attempt[a] \in Attempt /\ AttemptInv(a)
  BY RecordFacts DEF Inv, TypeOK, Records, onTcpConnect
<1>1. PICK o \in Outputs : o = attempt[a].out
  BY <1>0, RecordFacts
<1>2. r \in Attempt /\ r.phase = "connected" /\ r.out = attempt[a].out
      /\ r.result = attempt[a].result /\ r.posted = attempt[a].posted
      /\ r.calls = attempt[a].calls
  BY <1>0 DEF Attempt, Phases
<1>3. attempt' = [attempt EXCEPT ![a] = r] /\ UNCHANGED client
  BY <1>0 DEF onTcpConnect, TypeOK
<1> HIDE DEF r
<1>4. /\ attempt' \in [Attempts -> Records]
      /\ \A b \in Attempts : b # a => Kept(b)
      /\ attempt'[a] = r
  BY <1>0, <1>2, <1>3, Changed DEF Records
<1>5. AttemptInv(a)'
  BY <1>0, <1>2, <1>3, <1>4 DEF AttemptInv, Calls, client
<1>6. OutputInv(o)'
  <2>1. OutputInv(o) /\ setup[o] \in Attempts \cup {0} /\ open[o] \in Attempts \cup {0}
    BY <1>0 DEF Inv, TypeOK, Attempts
  <2>2. open[o] # a
    BY <1>0, <2>1 DEF OutputInv, Attempts
  <2>3. CASE setup[o] = a
    BY <1>0, <1>2, <1>3, <1>4, <2>1, <2>3 DEF OutputInv, client, getConnectionStatus
  <2>4. CASE setup[o] # a
    BY <1>3, <1>4, <2>1, <2>2, <2>4, KeptOutput DEF client
  <2> QED
    BY <2>3, <2>4
<1> DEFINE C == {a}
<1>7. C \in SUBSET Attempts /\ \A b \in C : attempt[b].out = o /\ AttemptInv(b)'
  BY <1>1, <1>5
<1>8. \A b \in Attempts \ C : Kept(b)
  BY <1>4
<1>9. life' = life /\ setup' = setup /\ open' = open /\ tracked' = tracked
  BY <1>3 DEF client
<1> HIDE DEF C
<1> QED
  BY <1>4, <1>6, <1>7, <1>8, <1>9, OneOutput DEF Keeps

(* A call of the handler that was posted is done.                          *)
LEMMA CallStep ==
    ASSUME Inv, NEW a \in Attempts, callHandler(a) PROVE Keeps
<1> DEFINE r == [attempt[a] EXCEPT !.posted = @ - 1, !.calls = @ + 1]
<1>0. TypeOK /\ attempt[a].posted > 0 /\ attempt[a] \in Records /\ AttemptInv(a)
  BY DEF Inv, TypeOK, Records, callHandler
<1>a. attempt[a] \in Attempt
  BY <1>0, RecordFacts DEF Records
<1>b. PICK o \in Outputs : o = attempt[a].out
  BY <1>a, RecordFacts
<1>1. attempt[a].posted \in 0..2 /\ attempt[a].calls \in 0..2
      /\ attempt[a].posted + attempt[a].calls <= 2
  BY <1>0, <1>a, RecordFacts DEF AttemptInv, Calls, Phases
<1>2. attempt[a].posted - 1 \in 0..2 /\ attempt[a].calls + 1 \in 0..2
      /\ (attempt[a].posted - 1) + (attempt[a].calls + 1) = attempt[a].posted + attempt[a].calls
  BY <1>0, <1>1
<1>3. r \in Attempt
  BY <1>a, <1>2 DEF Attempt
<1>4. r.phase = attempt[a].phase /\ r.out = attempt[a].out /\ r.result = attempt[a].result
      /\ r.posted = attempt[a].posted - 1 /\ r.calls = attempt[a].calls + 1
  BY <1>a DEF Attempt
<1>5. attempt' = Settled([attempt EXCEPT ![a] = r]) /\ UNCHANGED client
  BY <1>0 DEF callHandler, TypeOK
<1> HIDE DEF r
<1>6. /\ attempt' \in [Attempts -> Records]
      /\ \A b \in Attempts : b # a => Kept(b)
      /\ attempt'[a] = r \/ (attempt'[a] = Unused /\ r.phase = "closed")
  BY <1>0, <1>3, <1>5, Changed DEF Records
<1>7. AttemptInv(a)'
  <2>1. CASE attempt'[a] = Unused
    BY <2>1, RecordFacts DEF AttemptInv, Calls
  <2>2. CASE attempt'[a] = r
    <3>1. Calls(a)' = Calls(a) /\ life' = life /\ setup' = setup /\ open' = open
      BY <1>2, <1>4, <1>5, <2>2 DEF Calls, client
    <3> QED
      BY <1>0, <1>4, <2>2, <3>1 DEF AttemptInv
  <2> QED
    BY <1>6, <2>1, <2>2
<1>8. OutputInv(o)'
  <2>1. OutputInv(o) /\ setup[o] \in Attempts \cup {0} /\ open[o] \in Attempts \cup {0}
    BY <1>0 DEF Inv, TypeOK, Attempts
  <2>2. setup[o] # a
    <3>1. ASSUME setup[o] = a PROVE FALSE
      <4>1. attempt[a].phase \in {"dialling", "connected"} /\ attempt[a].result = "none"
        BY <2>1, <3>1 DEF OutputInv, Attempts
      <4>2. Calls(a) = 0
        BY <1>0, <4>1 DEF AttemptInv
      <4> QED
        BY <1>0, <1>1, <4>2 DEF Calls
    <3> QED
      BY <3>1
  <2>3. CASE open[o] = a
    <3>1. attempt'[a] = r /\ attempt[a].phase = "open"
      BY <1>4, <1>6, <2>1, <2>3 DEF OutputInv, Attempts
    <3>2. setup[o] = 0
      BY <2>1, <2>3 DEF OutputInv, Attempts
    <3> QED
      BY <1>4, <1>5, <2>1, <2>3, <3>1, <3>2 DEF OutputInv, client, getConnectionStatus
  <2>4. CASE open[o] # a
    BY <1>5, <1>6, <2>1, <2>2, <2>4, KeptOutput DEF client
  <2> QED
    BY <2>3, <2>4
<1> DEFINE C == {a}
<1>9. C \in SUBSET Attempts /\ \A b \in C : attempt[b].out = o /\ AttemptInv(b)'
  BY <1>b, <1>7
<1>10. \A b \in Attempts \ C : Kept(b)
  BY <1>6
<1>11. life' = life /\ setup' = setup /\ open' = open /\ tracked' = tracked
  BY <1>5 DEF client
<1> HIDE DEF C
<1> QED
  BY <1>6, <1>8, <1>9, <1>10, <1>11, OneOutput DEF Keeps

(* A step about attempt a that may enter it into the maps or remove it     *)
LEMMA OneAttempt ==
    ASSUME Inv, life' = life, NEW o \in Outputs, NEW a \in Attempts, NEW r \in Records,
           attempt[a].out = o,
           \/ attempt' = [attempt EXCEPT ![a] = r]
           \/ attempt' = Settled([attempt EXCEPT ![a] = r]),
           \A x \in Outputs \ {o} : /\ setup'[x] = setup[x] /\ open'[x] = open[x]
                                    /\ tracked'[x] = tracked[x],
           setup'[o] = setup[o] \/ {setup[o], setup'[o]} \subseteq {a, 0},
           open'[o] = open[o] \/ {open[o], open'[o]} \subseteq {a, 0},
           attempt'[a] = r => AttemptInv(a)',
           attempt'[a] = r \/ (r.phase = "closed" /\ attempt'[a] = Unused) => OutputInv(o)'
    PROVE  Keeps
<1>1. /\ attempt' \in [Attempts -> Records]
      /\ \A b \in Attempts : b # a => Kept(b)
      /\ attempt'[a] = r \/ (attempt'[a] = Unused /\ r.phase = "closed")
  BY Changed DEF Inv
<1>2. AttemptInv(a)'
  <2>1. CASE attempt'[a] = Unused
    BY <2>1, RecordFacts DEF AttemptInv, Calls
  <2> QED
    BY <1>1, <2>1
<1> DEFINE C == {a}
<1>3. C \in SUBSET Attempts /\ \A b \in C : attempt[b].out = o /\ AttemptInv(b)'
  BY <1>2
<1>4. \A b \in Attempts \ C : Kept(b)
  BY <1>1
<1>5. /\ setup'[o] = setup[o] \/ {setup[o], setup'[o]} \subseteq C \cup {0}
      /\ open'[o] = open[o] \/ {open[o], open'[o]} \subseteq C \cup {0}
  OBVIOUS
<1> HIDE DEF C
<1> QED
  BY <1>1, <1>3, <1>4, <1>5, OneOutput DEF Keeps

(* onConnect(): the attempt becomes the open connection, fails, or is      *)
(* dropped if it was given up.                                             *)
LEMMA ConnectedStep ==
    ASSUME Inv, life' = life, life # "dead", NEW a \in Attempts, NEW ec \in BOOLEAN,
           NEW hello \in {"none", "sent"},
           attempt[a].phase \in {"dialling", "connected"}, onConnect(a, ec, hello)
    PROVE  Keeps
<1>0. /\ TypeOK /\ attempt[a] \in Attempt /\ AttemptInv(a) /\ a # 0
      /\ attempt[a].posted \in 0..2 /\ attempt[a].calls \in 0..2
  BY RecordFacts DEF Inv, TypeOK, Records, Attempts
<1>1. PICK o \in Outputs : o = attempt[a].out
  BY <1>0, RecordFacts
<1>2. OutputInv(o) /\ setup[o] \in Attempts \cup {0} /\ open[o] \in Attempts \cup {0}
  BY <1>0 DEF Inv, TypeOK, Attempts
<1>3. open[o] # a
  BY <1>0, <1>2 DEF OutputInv
<1>4. CASE GivenUp(a)
  <2> DEFINE r == [attempt[a] EXCEPT !.phase = "closed", !.hello = hello]
  <2>1. UNCHANGED <<setup, open, tracked>> /\ setup[o] # a
    BY <1>1, <1>4 DEF onConnect, GivenUp
  <2>2. r \in Attempt
    BY <1>0 DEF Attempt, Phases
  <2>3. r.phase = "closed" /\ r.posted = attempt[a].posted /\ r.calls = attempt[a].calls
    BY <1>0 DEF Attempt
  <2>4. attempt' = Settled([attempt EXCEPT ![a] = r])
    BY <1>0, <1>4 DEF onConnect, TypeOK
  <2> HIDE DEF r
  <2>5. \A b \in Attempts : b # a => Kept(b)
    BY <1>0, <2>2, <2>4, Changed DEF Records
  <2>6. OutputInv(o)'
    BY <1>2, <1>3, <2>1, <2>5, KeptOutput
  <2>7. attempt'[a] = r => AttemptInv(a)'
    <3>1. attempt[a].posted + attempt[a].calls = 1
      BY <1>0, <1>1, <2>1 DEF AttemptInv, Calls
    <3> QED
      BY <2>3, <3>1 DEF AttemptInv, Calls
  <2>8. /\ setup'[o] = setup[o] /\ open'[o] = open[o] /\ r \in Records
        /\ \A x \in Outputs \ {o} : /\ setup'[x] = setup[x] /\ open'[x] = open[x]
                                    /\ tracked'[x] = tracked[x]
    BY <2>1, <2>2 DEF Records
  <2> QED
    BY <1>1, <2>4, <2>6, <2>7, <2>8, OneAttempt
<1>5. CASE ~GivenUp(a)
  <2> DEFINE p == IF ec THEN "closed" ELSE "open"
             w == IF ec THEN "failed" ELSE "ok"
             r == [attempt[a] EXCEPT !.phase = p, !.hello = hello, !.result = w,
                                     !.posted = @ + 1]
  <2>1. setup[o] = a
    BY <1>1, <1>5 DEF GivenUp
  <2>2. open[o] = 0 /\ attempt[a].posted = 0 /\ attempt[a].calls = 0
    BY <1>0, <1>1, <1>2, <2>1 DEF OutputInv, AttemptInv, Calls
  <2>3. /\ setup' = [setup EXCEPT ![o] = 0]
        /\ open' = IF ec THEN open ELSE [open EXCEPT ![o] = a]
        /\ tracked' = [tracked EXCEPT ![o] = IF ec THEN "DISCONNECTED" ELSE "CONNECTED"]
    BY <1>1, <1>5 DEF onConnect, postConnectionTracker
  <2>4. attempt' = Settled([attempt EXCEPT ![a] = r])
    BY <1>0, <1>5 DEF onConnect, TypeOK
  <2>5. attempt[a].posted + 1 \in 0..2 /\ p \in Phases /\ w \in {"failed", "ok"}
    BY <2>2 DEF Phases
  <2> HIDE DEF p, w
  <2>6. r \in Attempt
    BY <1>0, <2>5 DEF Attempt
  <2>7. r.phase = p /\ r.posted = 1 /\ r.calls = 0 /\ r.result = w /\ r.out = o
    BY <1>0, <1>1, <2>2 DEF Attempt
  <2> HIDE DEF r
  <2>8. /\ setup'[o] = 0 /\ open'[o] = IF ec THEN 0 ELSE a
        /\ tracked'[o] = IF ec THEN "DISCONNECTED" ELSE "CONNECTED"
        /\ \A x \in Outputs \ {o} : /\ setup'[x] = setup[x] /\ open'[x] = open[x]
                                    /\ tracked'[x] = tracked[x]
    BY <1>0, <2>2, <2>3 DEF TypeOK
  <2>9. attempt'[a] = r => AttemptInv(a)'
    BY <1>0, <2>7, <2>8 DEF AttemptInv, Calls, p, w
  <2>10. attempt'[a] = r \/ (r.phase = "closed" /\ attempt'[a] = Unused) => OutputInv(o)'
    <3>1. CASE ec
      BY <2>8, <3>1 DEF OutputInv, getConnectionStatus
    <3>2. CASE ~ec
      BY <1>0, <2>7, <2>8, <3>2 DEF OutputInv, getConnectionStatus, p
    <3> QED
      BY <3>1, <3>2
  <2>11. /\ {setup[o], setup'[o]} \subseteq {a, 0} /\ {open[o], open'[o]} \subseteq {a, 0}
         /\ r \in Records
    BY <2>1, <2>2, <2>6, <2>8 DEF Records
  <2> QED
    BY <1>1, <2>4, <2>8, <2>9, <2>10, <2>11, OneAttempt
<1> QED
  BY <1>4, <1>5

(* onConnectWrap() when the input channel is dead                          *)
LEMMA TooLateStep ==
    ASSUME Inv, life' = life, life = "dead", NEW a \in Attempts,
           attempt[a].phase \in {"dialling", "connected"}, onConnectTooLate(a)
    PROVE  Keeps
<1> DEFINE r == [attempt[a] EXCEPT !.phase = "closed", !.result = "cancelled", !.calls = @ + 1]
<1>0. /\ TypeOK /\ attempt[a] \in Attempt /\ AttemptInv(a) /\ a # 0
      /\ attempt[a].posted \in 0..2 /\ attempt[a].calls \in 0..2
  BY RecordFacts DEF Inv, TypeOK, Records, Attempts
<1>1. PICK o \in Outputs : o = attempt[a].out
  BY <1>0, RecordFacts
<1>2. OutputInv(o) /\ setup[o] = 0 /\ open[o] = 0
  BY DEF Inv, OutputInv
<1>3. /\ attempt[a].calls + 1 \in 0..2
      /\ attempt[a].posted + (attempt[a].calls + 1) <= 2
  BY <1>0 DEF AttemptInv, Calls
<1>4. r \in Attempt
  BY <1>0, <1>3 DEF Attempt, Phases
<1>5. /\ r.phase = "closed" /\ r.result = "cancelled"
      /\ r.posted = attempt[a].posted /\ r.calls = attempt[a].calls + 1
  BY <1>0 DEF Attempt
<1>6. attempt' = Settled([attempt EXCEPT ![a] = r]) /\ UNCHANGED <<setup, open, tracked>>
  BY <1>0 DEF onConnectTooLate, TypeOK
<1> HIDE DEF r
<1>7. attempt'[a] = r => AttemptInv(a)'
  BY <1>3, <1>5 DEF AttemptInv, Calls
<1>8. OutputInv(o)'
  BY <1>2, <1>6 DEF OutputInv
<1>9. /\ setup'[o] = setup[o] /\ open'[o] = open[o] /\ r \in Records
      /\ \A x \in Outputs \ {o} : /\ setup'[x] = setup[x] /\ open'[x] = open[x]
                                  /\ tracked'[x] = tracked[x]
  BY <1>4, <1>6 DEF Records
<1> QED
  BY <1>1, <1>6, <1>7, <1>8, <1>9, OneAttempt

(* An open connection ends, by itself or by disconnect().                  *)
LEMMA CloseStep ==
    ASSUME Inv, life' = life, setup' = setup, NEW a \in Attempts, NEW o \in Outputs,
           open[o] = a,
           open' = [open EXCEPT ![o] = 0],
           tracked' = postConnectionTracker(o, "DISCONNECTED"),
           attempt' = Settled([attempt EXCEPT ![a].phase = "closed"])
    PROVE  Keeps
<1> DEFINE r == [attempt[a] EXCEPT !.phase = "closed"]
<1>0. /\ TypeOK /\ OutputInv(o) /\ AttemptInv(a) /\ a # 0
      /\ attempt[a].phase = "open" /\ attempt[a].out = o
  BY DEF Inv, TypeOK, Attempts, OutputInv
<1>1. attempt[a] \in Attempt /\ setup[o] = 0
  BY <1>0, RecordFacts DEF TypeOK, Records, OutputInv
<1>2. r \in Attempt
  BY <1>1 DEF Attempt, Phases
<1>3. r.phase = "closed" /\ r.posted = attempt[a].posted /\ r.calls = attempt[a].calls
  BY <1>1 DEF Attempt
<1>4. attempt' = Settled([attempt EXCEPT ![a] = r])
  BY <1>0 DEF TypeOK
<1> HIDE DEF r
<1>5. attempt'[a] = r => AttemptInv(a)'
  <2>1. attempt[a].posted \in 0..2 /\ attempt[a].calls \in 0..2
    BY <1>1 DEF Attempt
  <2> QED
    BY <1>0, <1>3, <2>1 DEF AttemptInv, Calls
<1>6. /\ setup'[o] = setup[o] /\ open'[o] = 0 /\ tracked'[o] = "DISCONNECTED"
      /\ \A x \in Outputs \ {o} : /\ setup'[x] = setup[x] /\ open'[x] = open[x]
                                  /\ tracked'[x] = tracked[x]
  BY <1>0 DEF TypeOK, postConnectionTracker
<1>7. OutputInv(o)'
  BY <1>0, <1>1, <1>6 DEF OutputInv, getConnectionStatus
<1>8. {open[o], open'[o]} \subseteq {a, 0} /\ r \in Records
  BY <1>2, <1>6 DEF Records
<1> QED
  BY <1>0, <1>4, <1>5, <1>6, <1>7, <1>8, OneAttempt

(* disconnect(): an attempt is given up, or the open connection closed.    *)
LEMMA DisconnectStep ==
    ASSUME Inv, NEW o \in Outputs, disconnect(o) PROVE Keeps
<1>0. /\ TypeOK /\ OutputInv(o) /\ setup[o] \in Attempts \cup {0}
      /\ open[o] \in Attempts \cup {0} /\ life' = life /\ life = "used"
  BY DEF Inv, TypeOK, Attempts, disconnect
<1>1. CASE setup[o] = 0
  BY <1>0, <1>1, CloseStep DEF disconnect, disconnectImpl
<1>2. CASE setup[o] # 0
  <2>1. PICK a \in Attempts : a = setup[o]
    BY <1>0, <1>2
  <2> DEFINE r == [attempt[a] EXCEPT !.result = "cancelled", !.posted = @ + 1]
  <2>2. /\ AttemptInv(a) /\ a # 0 /\ attempt[a].phase \in {"dialling", "connected"}
        /\ attempt[a].out = o /\ open[o] = 0
    BY <1>0, <2>1 DEF Inv, OutputInv, Attempts
  <2>3. attempt[a] \in Attempt
    BY <1>0, <2>2, RecordFacts DEF TypeOK, Records
  <2>4. attempt[a].posted = 0 /\ attempt[a].calls = 0 /\ attempt[a].posted + 1 \in 0..2
    <3>1. attempt[a].posted \in 0..2 /\ attempt[a].calls \in 0..2
      BY <2>3 DEF Attempt
    <3> QED
      BY <2>1, <2>2, <3>1 DEF AttemptInv, Calls
  <2>5. r \in Attempt
    BY <2>3, <2>4 DEF Attempt
  <2>6. /\ r.phase = attempt[a].phase /\ r.posted = 1 /\ r.calls = 0
        /\ r.result = "cancelled" /\ r.out = o
    BY <2>2, <2>3, <2>4 DEF Attempt
  <2>7. /\ setup' = [setup EXCEPT ![o] = 0] /\ open' = open
        /\ tracked' = [tracked EXCEPT ![o] = "DISCONNECTED"]
        /\ attempt' = CancelHandler(a)
    BY <1>2, <2>1 DEF disconnect, disconnectImpl, postConnectionTracker
  <2>8. attempt' = [attempt EXCEPT ![a] = r]
    BY <1>0, <2>7 DEF CancelHandler, TypeOK
  <2> HIDE DEF r
  <2>9. /\ setup'[o] = 0 /\ open'[o] = open[o] /\ tracked'[o] = "DISCONNECTED"
        /\ \A x \in Outputs \ {o} : /\ setup'[x] = setup[x] /\ open'[x] = open[x]
                                    /\ tracked'[x] = tracked[x]
    BY <1>0, <2>7 DEF TypeOK
  <2>10. attempt'[a] = r => AttemptInv(a)'
    BY <2>2, <2>6, <2>9 DEF AttemptInv, Calls
  <2>11. OutputInv(o)'
    BY <1>0, <2>2, <2>9 DEF OutputInv, getConnectionStatus
  <2>12. {setup[o], setup'[o]} \subseteq {a, 0} /\ r \in Records
    BY <2>1, <2>5, <2>9 DEF Records
  <2> QED
    BY <1>0, <2>2, <2>8, <2>9, <2>10, <2>11, <2>12, OneAttempt
<1> QED
  BY <1>1, <1>2

(* ~InputChannel(): all connections are closed, attempts go on.            *)
LEMMA DestructStep ==
    ASSUME Inv, destruct PROVE Keeps
<1> DEFINE gone == {open[o] : o \in Outputs}
           f == [a \in Attempts |-> IF a \in gone
                    THEN [attempt[a] EXCEPT !.phase = "closed"] ELSE attempt[a]]
<1>0. /\ TypeOK /\ life = "removed" /\ life' = "dead"
      /\ \A a \in Attempts : attempt[a].phase \notin {"asked", "answered"}
      /\ attempt' = Settled(f)
      /\ \A o \in Outputs : setup'[o] = 0 /\ open'[o] = 0
  BY DEF Inv, destruct
<1>1. \A a \in Attempts : a \in gone => /\ attempt[a] \in Attempt /\ attempt[a].phase = "open"
                                        /\ attempt[a].result = "ok" /\ Calls(a) <= 1
  <2>1. \A a \in Attempts : a \in gone => attempt[a].phase = "open"
    BY DEF Inv, OutputInv, Attempts
  <2> QED
    BY <1>0, <2>1, RecordFacts DEF Inv, TypeOK, Records, AttemptInv
<1>2. \A a \in Attempts : a \in gone =>
         /\ f[a] \in Attempt /\ f[a].phase = "closed" /\ f[a].result = "ok"
         /\ f[a].posted + f[a].calls <= 1
  BY <1>1 DEF Attempt, Phases, Calls
<1>3. \A a \in Attempts : a \notin gone => f[a] = attempt[a]
  OBVIOUS
<1>a. \A a \in Attempts : f[a] \in Records
  BY <1>0, <1>2, <1>3 DEF TypeOK, Records
<1>b. f \in [Attempts -> Records]
  BY <1>a
<1> HIDE DEF f, gone
<1>4. /\ attempt' \in [Attempts -> Records]
      /\ \A a \in Attempts : \/ attempt'[a] = f[a]
                             \/ attempt'[a] = Unused /\ f[a].phase = "closed"
  BY <1>0, <1>b, SettledFacts
<1>5. ASSUME NEW a \in Attempts PROVE AttemptInv(a)'
  <2>1. CASE attempt'[a] = Unused
    BY <2>1, RecordFacts DEF AttemptInv, Calls
  <2>2. CASE attempt'[a] = f[a] /\ a \in gone
    BY <1>2, <2>2 DEF AttemptInv, Calls
  <2>3. CASE attempt'[a] = f[a] /\ a \notin gone
    <3>1. attempt'[a] = attempt[a] /\ AttemptInv(a) /\ attempt[a] \in Records
      BY <1>0, <1>3, <2>3 DEF Inv, TypeOK, Records
    <3>2. attempt[a].phase # "open"
      BY <1>0, <2>3, <3>1, RecordFacts DEF AttemptInv, gone, Records
    <3>3. attempt[a].phase \in {"dialling", "connected"} => setup'[attempt[a].out] # a
      BY <1>0, <3>1, RecordFacts DEF Attempts
    <3> QED
      BY <1>0, <3>1, <3>2, <3>3, RecordFacts DEF AttemptInv, Calls
  <2> QED
    BY <1>4, <2>1, <2>2, <2>3
<1>6. ASSUME NEW o \in Outputs PROVE OutputInv(o)'
  BY <1>0 DEF OutputInv
<1> QED
  BY <1>4, <1>5, <1>6 DEF Keeps

-----------------------------------------------------------------------------
(* Every step keeps what holds of the attempts and of the maps.            *)
LEMMA KeepsStep == Inv /\ [Next]_vars => Keeps
<1> SUFFICES ASSUME Inv, [Next]_vars PROVE Keeps
  OBVIOUS
<1>1. ASSUME NEW o \in Outputs, connectInputChannels(o) PROVE Keeps
  BY <1>1, AskStep DEF connectInputChannels
<1>2. ASSUME attempt' = attempt, UNCHANGED client PROVE Keeps
  <2>1. \A b \in Attempts : Kept(b)
    BY <1>2 DEF Kept
  <2> QED
    BY <1>2, <2>1, KeptAll DEF Keeps, Inv, TypeOK, Records
<1>3. ASSUME NEW o \in Outputs, slotInstanceNew(o) PROVE Keeps
  BY <1>2, <1>3, AskStep DEF slotInstanceNew
<1>4. ASSUME NEW o \in Outputs, create(o) PROVE Keeps
  BY <1>2, <1>4 DEF create
<1>5. ASSUME NEW a \in Attempts, Step(a) PROVE Keeps
  <2>1. CASE requestFailed(a)
    BY <2>1, FailStep DEF requestFailed
  <2>2. CASE connectInputChannelHandler(a)
    BY <2>2, FailStep, ConnectStep DEF connectInputChannelHandler, client
  <2>3. CASE onConnectWrap(a)
    <3>1. attempt[a].phase \in {"dialling", "connected"} /\ life' = life
      BY <2>3 DEF onConnectWrap, Refused
    <3>2. CASE life = "dead"
      BY <2>3, <3>1, <3>2, TooLateStep DEF onConnectWrap
    <3>3. CASE life # "dead"
      BY <2>3, <3>1, <3>3, ConnectedStep DEF onConnectWrap
    <3> QED
      BY <3>2, <3>3
  <2>4. CASE onTcpChannelError(a)
    <3>1. attempt[a] \in Attempt /\ AttemptInv(a)
      BY <2>4, RecordFacts DEF onTcpChannelError, Inv, TypeOK, Records
    <3>2. PICK o \in Outputs : o = attempt[a].out
      BY <3>1, RecordFacts
    <3>3. open[o] = a
      BY <2>4, <3>1, <3>2 DEF onTcpChannelError, AttemptInv
    <3> QED
      BY <2>4, <3>2, <3>3, CloseStep DEF onTcpChannelError
  <2> QED
    BY <1>5, <2>1, <2>2, <2>3, <2>4, AnswerStep, AcceptStep, CallStep, ReadStep, GoneStep DEF Step
<1>6. CASE removeInputChannel
  <2>1. /\ attempt' = attempt /\ setup' = setup /\ open' = open /\ tracked' = tracked
        /\ life = "used" /\ life' = "removed"
    BY <1>6 DEF removeInputChannel
  <2>2. ASSUME NEW b \in Attempts PROVE AttemptInv(b)'
    <3>1. AttemptInv(b)
      BY DEF Inv
    <3> QED
      BY <2>1, <3>1 DEF AttemptInv, Calls
  <2>3. ASSUME NEW o \in Outputs PROVE OutputInv(o)'
    <3>1. OutputInv(o)
      BY DEF Inv
    <3> QED
      BY <2>1, <3>1 DEF OutputInv, getConnectionStatus
  <2> QED
    BY <2>1, <2>2, <2>3 DEF Keeps, Inv, TypeOK, Records
<1>7. CASE UNCHANGED vars
  BY <1>2, <1>7 DEF vars, client
<1> QED
  BY <1>1, <1>3, <1>4, <1>5, <1>6, <1>7, DisconnectStep, LoseStep, DestructStep DEF Next

(* Every step keeps the types of the other variables.                      *)
LEMMA TypeStep == Inv /\ [Next]_vars => TypeOK'
<1> SUFFICES ASSUME Inv, [Next]_vars PROVE TypeOK'
  OBVIOUS
<1>0. TypeOK /\ attempt' \in [Attempts -> Records]
  BY KeepsStep DEF Inv, Keeps
<1>1. ASSUME NEW a \in Attempts, attempt[a].phase # "free" PROVE attempt[a].out \in Outputs
  BY <1>0, <1>1, RecordFacts DEF TypeOK, Records
<1>2. life' \in {"used", "removed", "dead"}
  <2>1. life' \in {life, "removed", "dead"}
    BY DEF Next, Step, connectInputChannels, slotInstanceNew,
       slotGetOutputChannelInformation, requestFailed, connectInputChannelHandler, onTcpConnect,
       onConnectWrap, callHandler, onTcpChannelError, disconnect, removeInputChannel,
       destruct, onTcpChannelRead, onInputGone, lose, create, client, vars
  <2> QED
    BY <1>0, <2>1 DEF TypeOK
<1>3. events' \in 0..MaxEvents
  <2>1. events' = events \/ (events < MaxEvents /\ events' = events + 1)
    <3>1. ASSUME NEW a \in Attempts, Step(a)
          PROVE  events' = events \/ (events < MaxEvents /\ events' = events + 1)
      BY <3>1 DEF Step, slotGetOutputChannelInformation, requestFailed,
         connectInputChannelHandler, onTcpConnect, onConnectWrap, Refused, callHandler,
         onTcpChannelError, onTcpChannelRead, onInputGone
    <3> QED
      BY <3>1 DEF Next, connectInputChannels, slotInstanceNew, disconnect, removeInputChannel,
         destruct, lose, create, vars
  <2>2. events \in 0..MaxEvents
    BY <1>0 DEF TypeOK
  <2> QED
    BY <2>1, <2>2
<1>4. /\ instance' \in [Outputs -> {"up", "bare", "down"}]
      /\ port' \in [Outputs -> Nat]
      /\ announced' \in [Outputs -> BOOLEAN]
      /\ registered' \in [Outputs -> 0..MaxAttempts]
  <2>0. /\ instance \in [Outputs -> {"up", "bare", "down"}]
        /\ port \in [Outputs -> Nat]
        /\ announced \in [Outputs -> BOOLEAN]
        /\ registered \in [Outputs -> 0..MaxAttempts]
    BY <1>0 DEF TypeOK
  <2>1. ASSUME NEW a \in Attempts, Step(a)
        PROVE  /\ UNCHANGED <<instance, port, announced>>
               /\ registered' \in [Outputs -> 0..MaxAttempts]
    <3>1. CASE onTcpChannelRead(a)
      <4>1. /\ UNCHANGED <<instance, port, announced>>
            /\ \E o : registered' = [registered EXCEPT ![o] = a]
        BY <3>1 DEF onTcpChannelRead
      <4>2. a \in 0..MaxAttempts
        BY DEF Attempts
      <4> QED
        BY <2>0, <4>1, <4>2
    <3>2. CASE onInputGone(a)
      BY <2>0, <3>2 DEF onInputGone, Unregister
    <3> QED
      BY <2>0, <2>1, <3>1, <3>2 DEF Step, slotGetOutputChannelInformation, requestFailed,
         connectInputChannelHandler, onTcpConnect, onConnectWrap, callHandler,
         onTcpChannelError, server
  <2>2. ASSUME NEW o \in Outputs, lose(o)
        PROVE  /\ instance' \in [Outputs -> {"up", "bare", "down"}]
               /\ UNCHANGED <<port, announced>>
               /\ registered' \in [Outputs -> 0..MaxAttempts]
    BY <2>0, <2>2 DEF lose, closeAll
  <2>3. ASSUME NEW o \in Outputs, create(o)
        PROVE  /\ instance' \in [Outputs -> {"up", "bare", "down"}]
               /\ port' \in [Outputs -> Nat]
               /\ announced' \in [Outputs -> BOOLEAN]
               /\ UNCHANGED registered
    BY <2>0, <2>3 DEF create
  <2>4. ASSUME NEW o \in Outputs, slotInstanceNew(o)
        PROVE  /\ announced' \in [Outputs -> BOOLEAN]
               /\ UNCHANGED <<instance, port, registered>>
    BY <2>0, <2>4 DEF slotInstanceNew
  <2> QED
    BY <2>0, <2>1, <2>2, <2>3, <2>4 DEF Next, connectInputChannels, disconnect,
       removeInputChannel, destruct, server, vars
<1>5. /\ setup' \in [Outputs -> 0..MaxAttempts]
      /\ open' \in [Outputs -> 0..MaxAttempts]
      /\ tracked' \in [Outputs -> {"CONNECTED", "CONNECTING", "DISCONNECTED"}]
  <2> DEFINE Typed == /\ setup' \in [Outputs -> 0..MaxAttempts]
                      /\ open' \in [Outputs -> 0..MaxAttempts]
                      /\ tracked' \in [Outputs -> {"CONNECTED", "CONNECTING", "DISCONNECTED"}]
  <2>0. /\ setup \in [Outputs -> 0..MaxAttempts]
        /\ open \in [Outputs -> 0..MaxAttempts]
        /\ tracked \in [Outputs -> {"CONNECTED", "CONNECTING", "DISCONNECTED"}]
    BY <1>0 DEF TypeOK
  <2>1. ASSUME NEW a \in Attempts, Step(a) PROVE Typed
    <3>0. a \in 0..MaxAttempts
      BY DEF Attempts
    <3>1. CASE connectInputChannelHandler(a)
      <4>1. \/ UNCHANGED <<setup, open, tracked>>
            \/ \E o : /\ open' = [open EXCEPT ![o] = 0]
                      /\ setup' \in {setup, [setup EXCEPT ![o] = a]}
                      /\ \/ tracked' = tracked
                         \/ \E w \in {"CONNECTING", "DISCONNECTED"} :
                               tracked' = [tracked EXCEPT ![o] = w]
        BY <3>1 DEF connectInputChannelHandler, connect, postConnectionTracker
      <4> QED
        BY <2>0, <3>0, <4>1
    <3>2. CASE onConnectWrap(a)
      <4>1. \/ UNCHANGED <<setup, open, tracked>>
            \/ \E o : /\ setup' = [setup EXCEPT ![o] = 0]
                      /\ open' \in {open, [open EXCEPT ![o] = a]}
                      /\ \E w \in {"CONNECTED", "DISCONNECTED"} :
                            tracked' = [tracked EXCEPT ![o] = w]
        BY <3>2 DEF onConnectWrap, onConnectTooLate, onConnect, postConnectionTracker
      <4> QED
        BY <2>0, <3>0, <4>1
    <3>3. CASE onTcpChannelError(a)
      <4>1. /\ setup' = setup
            /\ \E o : /\ open' = [open EXCEPT ![o] = 0]
                      /\ tracked' = [tracked EXCEPT ![o] = "DISCONNECTED"]
        BY <3>3 DEF onTcpChannelError, postConnectionTracker
      <4>2. PICK o : /\ open' = [open EXCEPT ![o] = 0]
                     /\ tracked' = [tracked EXCEPT ![o] = "DISCONNECTED"]
        BY <4>1
      <4>3. open' \in [Outputs -> 0..MaxAttempts]
        <5>1. open \in [Outputs -> 0..MaxAttempts] /\ 0 \in 0..MaxAttempts
          BY <2>0
        <5> QED
          BY <4>2, <5>1
      <4>4. tracked' \in [Outputs -> {"CONNECTED", "CONNECTING", "DISCONNECTED"}]
        BY <2>0, <4>2
      <4> QED
        BY <2>0, <4>1, <4>3, <4>4
    <3> QED
      BY <2>0, <2>1, <3>1, <3>2, <3>3 DEF Step, slotGetOutputChannelInformation,
         requestFailed, onTcpConnect, callHandler, onTcpChannelRead, onInputGone, client
  <2>2. ASSUME NEW o \in Outputs, disconnect(o) PROVE Typed
    BY <2>0, <2>2 DEF disconnect, disconnectImpl, postConnectionTracker
  <2>3. CASE destruct
    BY <2>0, <2>3 DEF destruct
  <2> QED
    BY <2>0, <2>1, <2>2, <2>3 DEF Next, connectInputChannels, slotInstanceNew,
       removeInputChannel, lose, create, client, vars
<1> QED
  BY <1>0, <1>2, <1>3, <1>4, <1>5 DEF TypeOK, Records

(* What holds initially and is kept by every step holds always.            *)
THEOREM Invariance == Spec => []Inv
<1>1. Init => Inv
  <2> SUFFICES ASSUME Init PROVE Inv
    OBVIOUS
  <2>1. TypeOK
    BY DEF Init, TypeOK
  <2>2. \A a \in Attempts : AttemptInv(a)
    BY RecordFacts DEF Init, AttemptInv, Calls
  <2>3. \A o \in Outputs : OutputInv(o)
    BY DEF Init, OutputInv, getConnectionStatus
  <2> QED
    BY <2>1, <2>2, <2>3 DEF Inv
<1>2. Inv /\ [Next]_vars => Inv'
  BY KeepsStep, TypeStep DEF Inv, Keeps
<1> QED
  BY <1>1, <1>2, PTL DEF Spec

(* The variables keep their types: a handler is never called, or posted,   *)
(* more than twice.                                                        *)
THEOREM TypeCorrect == Spec => []TypeOK
<1>1. Inv => TypeOK
  BY DEF Inv
<1> QED
  BY <1>1, Invariance, PTL

(* The handler of connect(), m_openConnections, m_connectionsBeingSetup    *)
(* and m_connectionTracker agree about every attempt.                      *)
THEOREM TruthfulHandlers == Spec => []HandlerTellsTruth
<1>1. Inv => HandlerTellsTruth
  <2> SUFFICES ASSUME Inv PROVE HandlerTellsTruth
    OBVIOUS
  <2>1. ASSUME NEW a \in Attempts
        PROVE  /\ attempt[a].posted + attempt[a].calls <=
                     IF life = "dead" /\ attempt[a].result = "cancelled" THEN 2 ELSE 1
               /\ attempt[a].phase = "open" =>
                     attempt[a].result = "ok" /\ open[attempt[a].out] = a
    <3>1. AttemptInv(a) /\ attempt[a] \in Records
      BY DEF Inv, TypeOK, Records
    <3>2. /\ attempt[a].posted \in 0..2 /\ attempt[a].calls \in 0..2
          /\ attempt[a].phase \in Phases
      BY <3>1, RecordFacts
    <3> QED
      BY <3>1, <3>2 DEF AttemptInv, Calls, Phases
  <2>2. ASSUME NEW o \in Outputs
        PROVE  /\ setup[o] # 0 => attempt[setup[o]].result = "none"
               /\ open[o] # 0 => attempt[open[o]].phase = "open"
               /\ life # "dead" => tracked[o] = getConnectionStatus(o)
    BY DEF Inv, OutputInv
  <2> QED
    BY <2>1, <2>2 DEF HandlerTellsTruth
<1> QED
  BY <1>1, Invariance, PTL

(***************************************************************************)
(* Requests and replies                                                    *)
(***************************************************************************)
USE RequestsAssumption, NamesAssumption, LostAssumption

Answered == {replies[i].to : i \in 1..Len(replies)}

(* A request exists only once: not sent yet, on its way, being answered,   *)
(* answered - with one reply -, or the reply is being handled.             *)
OneReply ==
    /\ \A r \in Requests : r \in requests \cup later \cup Answered \/ r = handling.to =>
          pc[r] \notin {"new", "slot", "timer", "registered", "failed"}
    /\ requests \cap later = {}
    /\ Answered \cap (requests \cup later) = {}
    /\ \A i, j \in 1..Len(replies) : replies[i].to = replies[j].to => i = j
    /\ handling.to \notin Answered \cup requests \cup later

(* An asynchronous request is told of by the timeout handler or by         *)
(* handleReply(), which only calls a handler of a timer that it cancelled. *)
AsyncOf(r) ==
    /\ pc[r] \in {"new", "slot", "timer", "registered", "sent", "failed"}
    /\ pc[r] \in {"new", "slot"} => timer[r] = "off"
    /\ r \in errorHandles => pc[r] \in {"registered", "sent", "failed"}
    /\ pc[r] \in {"registered", "sent", "failed"} /\ r \in slotInstances => r \in errorHandles
    /\ timer[r] \in {"off", "running", "expired"} => outcome[r] = <<>>
    /\ timer[r] = "done" => outcome[r] = <<"timeout">> /\ r \notin slotInstances
    /\ timer[r] = "cancelled" =>
          /\ pc[r] = "sent"
          /\ \/ handling.step = "call" /\ handling.to = r /\ outcome[r] = <<>>
             \/ r \notin slotInstances \cup errorHandles /\ Len(outcome[r]) <= 1
    /\ handling.step = "call" /\ handling.to = r =>
          timer[r] = "cancelled" \/ r \notin errorHandles

AsyncInv == \A r \in Async : AsyncOf(r)

(* A synchronous request is told of when it is over.  What is stored for   *)
(* it is its only reply.                                                   *)
SyncOf(r) ==
    /\ pc[r] # "over" => outcome[r] = <<>>
    /\ pc[r] = "over" => outcome[r] \in {<<"reply">>, <<"timeout">>} /\ r \notin bmc
    /\ pc[r] = "ready" => r \in received
    /\ r \in received => /\ r \notin requests \cup later \cup Answered
                         /\ pc[r] \notin {"new", "registered", "failed"}
                         /\ r = handling.to => handling.step = "notify"
    /\ outcome[r] = <<"reply">> => /\ r \notin received \cup requests \cup later \cup Answered
                                   /\ r = handling.to => handling.step = "notify"

SyncInv ==
    /\ handling.step \in {"store", "notify"} => handling.to \in Sync
    /\ \A r \in Sync : SyncOf(r)

(* What a thread has placed, and not sent, is from a slot that threw.      *)
PlacedInv == \A t \in Threads \ spoilt : placed[t] = None

RequestInv == RequestTypeOK /\ OneReply /\ AsyncInv /\ SyncInv /\ PlacedInv
-----------------------------------------------------------------------------
(* What a further reply, and one that is taken, change.                    *)
LEMMA Appended ==
    ASSUME RequestTypeOK, NEW m \in Reply, replies' = Append(replies, m)
    PROVE  /\ replies' \in Seq(Reply)
           /\ Answered' = Answered \cup {m.to}
           /\ m.to \notin Answered /\ OneReply =>
                 \A i, j \in 1..Len(replies') : replies'[i].to = replies'[j].to => i = j
<1>1. /\ replies' \in Seq(Reply)
      /\ Len(replies) \in Nat
      /\ Len(replies') = Len(replies) + 1
      /\ \A i \in 1..Len(replies) : replies'[i] = replies[i]
      /\ replies'[Len(replies) + 1] = m
  BY DEF RequestTypeOK
<1>2. Answered' = Answered \cup {m.to}
  BY <1>1 DEF Answered
<1>3. ASSUME m.to \notin Answered, OneReply, NEW i \in 1..Len(replies'),
             NEW j \in 1..Len(replies'), replies'[i].to = replies'[j].to
      PROVE  i = j
  BY <1>1, <1>3 DEF Answered, OneReply
<1> QED
  BY <1>1, <1>2, <1>3

(* See above.                                                              *)
LEMMA Taken ==
    ASSUME RequestTypeOK, OneReply, replies # <<>>, replies' = Tail(replies)
    PROVE  /\ replies' \in Seq(Reply)
           /\ Head(replies) \in Reply
           /\ Answered = Answered' \cup {Head(replies).to}
           /\ Head(replies).to \notin Answered'
           /\ \A i, j \in 1..Len(replies') : replies'[i].to = replies'[j].to => i = j
<1>1. /\ replies' \in Seq(Reply)
      /\ Len(replies) \in Nat \ {0}
      /\ Len(replies') = Len(replies) - 1
      /\ \A i \in 1..Len(replies') : replies'[i] = replies[i + 1]
      /\ \A i \in 2..Len(replies) : i - 1 \in 1..Len(replies') /\ replies'[i - 1] = replies[i]
      /\ Head(replies) = replies[1]
      /\ Head(replies) \in Reply
  BY DEF RequestTypeOK
<1>2. \A i, j \in 1..Len(replies) : replies[i].to = replies[j].to => i = j
  BY DEF OneReply
<1>3. Answered = Answered' \cup {Head(replies).to}
  BY <1>1 DEF Answered
<1>4. Head(replies).to \notin Answered'
  BY <1>1, <1>2 DEF Answered
<1>5. \A i, j \in 1..Len(replies') : replies'[i].to = replies'[j].to => i = j
  BY <1>1, <1>2
<1> QED
  BY <1>1, <1>3, <1>4, <1>5

(* What the answering instance does with a request: it sends a reply, or   *)
(* none - then it may keep the request for later.                          *)
Answer(r) ==
    /\ UNCHANGED requestor
    /\ lost' \in 0..MaxLost
    /\ \/ r \in requests /\ requests' = requests \ {r} /\ later' = later
       \/ r \in requests /\ requests' = requests \ {r} /\ later' = later \cup {r}
          /\ replies' = replies
       \/ r \in later /\ later' = later \ {r} /\ requests' = requests
    /\ \/ replies' = replies
       \/ \E m \in Reply : m.to = r /\ replies' = Append(replies, m)
    /\ placed' \in [Threads -> Requests \cup {None, Null}]
    /\ spoilt' \subseteq Threads

(* Every action of the answering instance is such a step, and a thread     *)
(* that has a reply placed is marked.                                      *)
LEMMA Answers ==
    ASSUME RequestTypeOK, Answering
    PROVE  /\ \E r \in Requests : Answer(r)
           /\ PlacedInv => PlacedInv'
<1>1. ASSUME NEW p \in Requests \cup {None, Null}, NEW r \in Requests,
             replies' = replies \o SentReply(r, p)
      PROVE  \/ replies' = replies
             \/ \E m \in Reply : m.to = r /\ replies' = Append(replies, m)
  <2>1. CASE p = Null
    BY <1>1, <2>1 DEF RequestTypeOK, SentReply
  <2>2. CASE p # Null
    <3> DEFINE m == [to |-> r, of |-> IF p = None THEN "empty" ELSE p]
    <3>1. m \in Reply /\ m.to = r
      BY <2>2 DEF Reply
    <3>2. replies' = Append(replies, m)
      BY <1>1, <2>2, <3>1 DEF RequestTypeOK, SentReply
    <3> QED
      BY <3>1, <3>2
  <2> QED
    BY <2>1, <2>2
<1>2. ASSUME NEW r \in Requests
      PROVE  [to |-> r, of |-> "error"] \in Reply
  BY DEF Reply
<1>3. ASSUME NEW r \in Requests, NEW t \in Threads, NEW body \in Bodies,
             slotReturns(r, t, body)
      PROVE  Answer(r) /\ (PlacedInv => PlacedInv')
  <2> DEFINE p == PlacedBy(body, r, t)
  <2>1. p \in Requests \cup {None, Null} /\ (body = "async" => p = Null)
    BY DEF RequestTypeOK, PlacedBy, Bodies
  <2>2. replies' = replies \o SentReply(r, p)
    BY <1>3 DEF slotReturns
  <2>3. body = "async" => replies' = replies
    BY <2>1, <2>2 DEF SentReply, RequestTypeOK
  <2>4. \/ replies' = replies
        \/ \E m \in Reply : m.to = r /\ replies' = Append(replies, m)
    BY <1>1, <2>1, <2>2
  <2>5. placed' \in [Threads -> Requests \cup {None, Null}] /\ spoilt' \subseteq Threads
    BY <1>3 DEF slotReturns, ErasePlaced, RequestTypeOK
  <2>6. PlacedInv => PlacedInv'
    BY <1>3 DEF slotReturns, ErasePlaced, RequestTypeOK, PlacedInv
  <2> QED
    BY <1>3, <2>3, <2>4, <2>5, <2>6 DEF slotReturns, Answer, RequestTypeOK
<1>4. ASSUME NEW r \in Requests, NEW t \in Threads, NEW body \in Bodies,
             slotThrows(r, t, body)
      PROVE  Answer(r) /\ (PlacedInv => PlacedInv')
  <2>1. PlacedBy(body, r, t) \in Requests \cup {None, Null}
    BY DEF RequestTypeOK, PlacedBy, Bodies
  <2>2. placed' \in [Threads -> Requests \cup {None, Null}] /\ spoilt' \subseteq Threads
    BY <1>4, <2>1 DEF slotThrows, RequestTypeOK
  <2>3. PlacedInv => PlacedInv'
    BY <1>4 DEF slotThrows, PlacedBy, Bodies, RequestTypeOK, PlacedInv
  <2> QED
    BY <1>2, <1>4, <2>2, <2>3 DEF slotThrows, Answer, RequestTypeOK
<1>5. ASSUME NEW r \in Requests, NEW t \in Threads, asyncReply(r, t)
      PROVE  Answer(r) /\ (PlacedInv => PlacedInv')
  <2>1. \/ replies' = replies
        \/ \E m \in Reply : m.to = r /\ replies' = Append(replies, m)
    BY <1>1, <1>2, <1>5 DEF asyncReply
  <2>2. placed' \in [Threads -> Requests \cup {None, Null}] /\ spoilt' \subseteq Threads
    BY <1>5 DEF asyncReply, RequestTypeOK
  <2>3. PlacedInv => PlacedInv'
    BY <1>5 DEF asyncReply, RequestTypeOK, PlacedInv
  <2> QED
    BY <1>5, <2>1, <2>2, <2>3 DEF asyncReply, Answer, RequestTypeOK
<1>6. ASSUME NEW r \in Requests, NEW t \in Threads, NEW body \in Bodies,
             replyNotSent(r, t, body)
      PROVE  Answer(r) /\ (PlacedInv => PlacedInv')
  <2>1. placed' \in [Threads -> Requests \cup {None, Null}] /\ spoilt' \subseteq Threads
    BY <1>6 DEF replyNotSent, ErasePlaced, RequestTypeOK
  <2>2. PlacedInv => PlacedInv'
    BY <1>6 DEF replyNotSent, ErasePlaced, RequestTypeOK, PlacedInv
  <2>3. lost' \in 0..MaxLost
    BY <1>6 DEF replyNotSent, RequestTypeOK
  <2> QED
    BY <1>2, <1>6, <2>1, <2>2, <2>3 DEF replyNotSent, Answer
<1> QED
  BY <1>3, <1>4, <1>5, <1>6 DEF Answering

-----------------------------------------------------------------------------
(* Every step keeps the types.                                             *)
LEMMA RequestTypeStep == RequestInv /\ [RequestNext]_requestVars => RequestTypeOK'
<1> SUFFICES ASSUME RequestInv, [RequestNext]_requestVars PROVE RequestTypeOK'
  OBVIOUS
<1> USE DEF requestor, answerer
<1>0. RequestTypeOK /\ OneReply /\ SyncInv
  BY DEF RequestInv
<1>1. ASSUME NEW r \in Requests, Requesting(r) PROVE RequestTypeOK'
  <2>1. CASE receiveResponse(r)
    <3>1. \A w \in Told : Append(outcome[r], w) \in Seq(Told)
      BY <1>0 DEF RequestTypeOK
    <3>2. outcome' \in [Requests -> Seq(Told)]
      BY <1>0, <2>1, <3>1 DEF RequestTypeOK, receiveResponse, Tell, Told
    <3> QED
      BY <1>0, <2>1, <3>2 DEF RequestTypeOK, receiveResponse, Goto, Requests
  <2>2. CASE hasReceivedReply(r)
    BY <1>0, <2>2 DEF RequestTypeOK, hasReceivedReply, Goto
  <2>3. CASE sendingFails(r)
    BY <1>0, <2>3 DEF RequestTypeOK, sendingFails, Goto
  <2> QED
    BY <1>0, <1>1, <2>1, <2>2, <2>3 DEF RequestTypeOK, Requesting, registerSlot, startTimer, StartedTimer,
       addReceiveAsyncErrorHandles, registerSynchronousReply, sendRequest, waitTimesOut, Goto
<1>2. ASSUME NEW r \in Async, Timing(r) PROVE RequestTypeOK'
  <2>1. \A w \in Told : Append(outcome[r], w) \in Seq(Told)
    BY <1>0 DEF RequestTypeOK, Requests
  <2>2. CASE timerExpires(r)
    BY <1>0, <2>2 DEF RequestTypeOK, timerExpires
  <2>3. CASE receiveAsyncTimeoutHandler(r)
    <3>1. outcome' \in [Requests -> Seq(Told)]
      BY <1>0, <2>1, <2>3 DEF RequestTypeOK, receiveAsyncTimeoutHandler, Tell, Told
    <3> QED
      BY <1>0, <2>3, <3>1 DEF RequestTypeOK, receiveAsyncTimeoutHandler, RemovedErrorHandle
  <2> QED
    BY <1>2, <2>2, <2>3 DEF Timing
<1>3. CASE handleReply
  <2>1. Head(replies) \in Reply /\ replies' \in Seq(Reply)
    BY <1>0, <1>3, Taken DEF handleReply
  <2>2. \/ handling' = Idle
        \/ handling' \in [step : {"call", "store", "notify"}, to : Requests,
                        of : Requests \cup {"empty", "error"}]
    BY <1>3, <2>1 DEF handleReply, Reply
  <2>3. timer' \in [Async -> {"off", "running", "expired", "cancelled", "done"}]
    BY <1>0, <1>3 DEF handleReply, RequestTypeOK
  <2> QED
    BY <1>0, <1>3, <2>1, <2>2, <2>3 DEF handleReply, RequestTypeOK
<1>4. CASE callRegisteredSlotFunctions
  <2>0. handling.step = "call"
    BY <1>4 DEF callRegisteredSlotFunctions
  <2>1. handling # Idle /\ handling.to \in Requests
    BY <1>0, <2>0 DEF Idle, RequestTypeOK
  <2>2. \A w \in Told : Append(outcome[handling.to], w) \in Seq(Told)
    BY <1>0, <2>1 DEF RequestTypeOK
  <2>3. outcome' \in [Requests -> Seq(Told)]
    <3>1. outcome' = outcome \/ \E w \in Told : Tell(handling.to, w)
      BY <1>4 DEF callRegisteredSlotFunctions, Told
    <3>2. ASSUME NEW w \in Told, Tell(handling.to, w) PROVE outcome' \in [Requests -> Seq(Told)]
      <4>1. outcome' = [outcome EXCEPT ![handling.to] = Append(outcome[handling.to], w)]
        BY <3>2 DEF Tell
      <4>2. Append(outcome[handling.to], w) \in Seq(Told)
        BY <2>2
      <4>3. outcome \in [Requests -> Seq(Told)]
        BY <1>0 DEF RequestTypeOK
      <4> QED
        BY <2>1, <4>1, <4>2, <4>3
    <3> QED
      BY <1>0, <3>1, <3>2 DEF RequestTypeOK
  <2>4. \/ handling' = Idle
        \/ handling' \in [step : {"call", "store", "notify"}, to : Requests,
                        of : Requests \cup {"empty", "error"}]
    BY <1>0, <1>4, <2>1 DEF callRegisteredSlotFunctions, RequestTypeOK
  <2> QED
    BY <1>0, <1>4, <2>3, <2>4 DEF callRegisteredSlotFunctions, RemovedErrorHandle, RequestTypeOK
<1>5. CASE storeReply
  <2>1. handling # Idle /\ handling.to \in Sync
    BY <1>0, <1>5 DEF storeReply, Idle, SyncInv
  <2>2. handling' \in [step : {"call", "store", "notify"}, to : Requests,
                      of : Requests \cup {"empty", "error"}]
    BY <1>0, <1>5, <2>1 DEF storeReply, RequestTypeOK
  <2> QED
    BY <1>0, <1>5, <2>1, <2>2 DEF storeReply, RequestTypeOK
<1>6. CASE notifyOne
  BY <1>0, <1>6 DEF notifyOne, RequestTypeOK
<1>7. CASE Answering
  <2>1. PICK r \in Requests : Answer(r)
    BY <1>0, <1>7, Answers
  <2>2. replies' \in Seq(Reply)
    BY <1>0, <2>1, Appended DEF Answer, RequestTypeOK
  <2> QED
    BY <1>0, <2>1, <2>2 DEF Answer, RequestTypeOK
<1>8. CASE loseMessage
  <2>1. replies' \in Seq(Reply)
    BY <1>0, <1>8, Taken DEF loseMessage, RequestTypeOK
  <2> QED
    BY <1>0, <1>8, <2>1 DEF loseMessage, RequestTypeOK
<1>9. CASE UNCHANGED requestVars
  BY <1>0, <1>9 DEF requestVars, RequestTypeOK
<1> QED
  BY <1>1, <1>2, <1>3, <1>4, <1>5, <1>6, <1>7, <1>8, <1>9 DEF RequestNext, HandlingReply

(* No step makes a second reply out of a request.                          *)
LEMMA OneReplyStep == RequestInv /\ [RequestNext]_requestVars => OneReply'
<1> SUFFICES ASSUME RequestInv, [RequestNext]_requestVars PROVE OneReply'
  OBVIOUS
<1> USE DEF requestor, answerer
<1>0. RequestTypeOK /\ OneReply /\ None \notin Requests
  BY DEF RequestInv, Requests
<1>1. ASSUME NEW r \in Requests, Requesting(r) PROVE OneReply'
  <2>1. CASE sendRequest(r)
    <3>1. r \notin later \cup Answered \cup requests /\ r # handling.to
      BY <1>0, <2>1 DEF sendRequest, OneReply
    <3> QED
      BY <1>0, <2>1, <3>1 DEF sendRequest, OneReply, Answered, RequestTypeOK, Goto
  <2>2. CASE hasReceivedReply(r) \/ waitTimesOut(r) \/ receiveResponse(r)
    <3>1. pc[r] \notin {"new", "slot", "timer", "registered", "failed"}
          /\ \E p \in {"ready", "asleep", "late", "over"} : pc' = [pc EXCEPT ![r] = p]
      BY <2>2 DEF hasReceivedReply, waitTimesOut, receiveResponse, Goto
    <3>2. UNCHANGED <<handling, replies, requests, later>>
      BY <2>2 DEF hasReceivedReply, waitTimesOut, receiveResponse
    <3> QED
      BY <1>0, <3>1, <3>2 DEF OneReply, Answered, RequestTypeOK
  <2>3. CASE \/ registerSlot(r) \/ startTimer(r) \/ addReceiveAsyncErrorHandles(r)
             \/ registerSynchronousReply(r) \/ sendingFails(r)
    <3>1. pc[r] \in {"new", "slot", "timer", "registered"}
          /\ \E p : pc' = [pc EXCEPT ![r] = p]
      BY <2>3 DEF registerSlot, startTimer, addReceiveAsyncErrorHandles,
                  registerSynchronousReply, sendingFails, Goto
    <3>2. UNCHANGED <<handling, replies, requests, later>>
      BY <2>3 DEF registerSlot, startTimer, addReceiveAsyncErrorHandles,
                  registerSynchronousReply, sendingFails
    <3>3. r \notin later \cup Answered \cup requests /\ r # handling.to
      BY <1>0, <3>1 DEF OneReply
    <3> QED
      BY <1>0, <3>1, <3>2, <3>3 DEF OneReply, Answered, RequestTypeOK
  <2> QED
    BY <1>1, <2>1, <2>2, <2>3 DEF Requesting
<1>2. ASSUME NEW r \in Async, Timing(r) PROVE OneReply'
  BY <1>0, <1>2 DEF Timing, timerExpires, receiveAsyncTimeoutHandler, OneReply, Answered
<1>3. CASE handleReply
  <2>1. /\ Answered = Answered' \cup {Head(replies).to}
        /\ Head(replies).to \notin Answered'
        /\ \A i, j \in 1..Len(replies') : replies'[i].to = replies'[j].to => i = j
    BY <1>0, <1>3, Taken DEF handleReply
  <2>2. handling'.to \in {None, Head(replies).to} /\ None \notin Answered
        /\ Head(replies).to \in Answered
    BY <1>0, <1>3, <2>1, Taken DEF handleReply, Idle, OneReply
  <2>3. UNCHANGED <<pc, requests, later>>
    BY <1>3 DEF handleReply
  <2> QED
    BY <1>0, <2>1, <2>2, <2>3 DEF OneReply, RequestTypeOK
<1>4. CASE callRegisteredSlotFunctions \/ storeReply \/ notifyOne
  <2>1. UNCHANGED <<requests, replies, later>>
    BY <1>4 DEF callRegisteredSlotFunctions, storeReply, notifyOne
  <2>2. handling'.to \in {None, handling.to}
    <3>1. \/ handling' = Idle
          \/ \E w : handling' = [handling EXCEPT !.step = w]
      BY <1>4 DEF callRegisteredSlotFunctions, storeReply, notifyOne
    <3> QED
      BY <1>0, <3>1 DEF Idle, RequestTypeOK
  <2>3. None \notin Answered \cup requests \cup later
    <3>0. \A i \in 1..Len(replies) : replies[i] \in Reply
      BY <1>0 DEF RequestTypeOK
    <3>1. \A i \in 1..Len(replies) : replies[i].to \in Requests
      BY <3>0 DEF Reply
    <3> QED
      BY <1>0, <3>1 DEF RequestTypeOK, Answered
  <2>4. \A r \in Requests : pc'[r] \in {pc[r], "awake"}
    BY <1>0, <1>4 DEF callRegisteredSlotFunctions, storeReply, notifyOne, RequestTypeOK
  <2> QED
    BY <1>0, <2>1, <2>2, <2>3, <2>4 DEF OneReply, Answered
<1>5. CASE Answering
  <2>1. PICK r \in Requests : Answer(r)
    BY <1>0, <1>5, Answers
  <2>2. CASE replies' = replies
    BY <1>0, <2>1, <2>2 DEF OneReply, Answer, Answered
  <2>3. CASE replies' # replies
    <3>1. PICK m \in Reply : m.to = r /\ replies' = Append(replies, m)
      BY <2>1, <2>3 DEF Answer
    <3>2. r \notin Answered /\ (r \in requests \/ r \in later)
      BY <1>0, <2>1 DEF OneReply, Answer
    <3>3. /\ Answered' = Answered \cup {r}
          /\ \A i, j \in 1..Len(replies') : replies'[i].to = replies'[j].to => i = j
      BY <1>0, <3>1, <3>2, Appended
    <3>4. r \notin requests' \cup later' /\ requests' \subseteq requests /\ later' \subseteq later
      BY <1>0, <2>1, <2>3 DEF OneReply, Answer
    <3> QED
      BY <1>0, <2>1, <3>2, <3>3, <3>4 DEF OneReply, Answer
  <2> QED
    BY <2>2, <2>3
<1>6. CASE loseMessage
  <2>1. CASE replies' = replies
    BY <1>0, <1>6, <2>1 DEF loseMessage, OneReply, Answered
  <2>2. CASE replies # <<>> /\ replies' = Tail(replies) /\ UNCHANGED requests
    <3>1. /\ Answered = Answered' \cup {Head(replies).to}
          /\ \A i, j \in 1..Len(replies') : replies'[i].to = replies'[j].to => i = j
      BY <1>0, <2>2, Taken
    <3> QED
      BY <1>0, <1>6, <2>2, <3>1 DEF loseMessage, OneReply
  <2> QED
    BY <1>6, <2>1, <2>2 DEF loseMessage
<1>7. CASE UNCHANGED requestVars
  BY <1>0, <1>7 DEF requestVars, OneReply, Answered
<1> QED
  BY <1>1, <1>2, <1>3, <1>4, <1>5, <1>6, <1>7 DEF RequestNext, HandlingReply

(* Every step keeps what holds of asynchronous requests.                   *)
LEMMA AsyncStep == RequestInv /\ [RequestNext]_requestVars => AsyncInv'
<1> SUFFICES ASSUME RequestInv, [RequestNext]_requestVars, NEW a \in Async PROVE AsyncOf(a)'
  BY DEF AsyncInv
<1> USE DEF requestor, answerer
<1>0. /\ RequestTypeOK /\ OneReply /\ AsyncOf(a)
      /\ None \notin Requests /\ a \in Requests /\ a \notin Sync
  BY DEF RequestInv, Requests, AsyncInv
<1>1. ASSUME NEW r \in Requests, Requesting(r) PROVE AsyncOf(a)'
  <2>1. CASE r = a
    <3>1. CASE registerSlot(a)
      BY <1>0, <3>1 DEF registerSlot, AsyncOf, RequestTypeOK, Goto
    <3>2. CASE startTimer(a)
      BY <1>0, <3>2 DEF startTimer, StartedTimer, AsyncOf, RequestTypeOK, Goto
    <3>3. CASE addReceiveAsyncErrorHandles(a)
      <4>1. ~(handling.step = "call" /\ handling.to = a)
        BY <1>0, <3>3 DEF addReceiveAsyncErrorHandles, OneReply
      <4>2. timer[a] # "cancelled"
        BY <1>0, <3>3 DEF addReceiveAsyncErrorHandles, AsyncOf
      <4> QED
        BY <1>0, <3>3, <4>1, <4>2 DEF addReceiveAsyncErrorHandles, AsyncOf, RequestTypeOK, Goto
    <3>4. CASE sendRequest(a)
      BY <1>0, <3>4 DEF sendRequest, AsyncOf, RequestTypeOK, Goto
    <3>5. CASE sendingFails(a)
      BY <1>0, <3>5 DEF sendingFails, AsyncOf, RequestTypeOK, Goto
    <3> QED
      BY <1>0, <1>1, <2>1, <3>1, <3>2, <3>3, <3>4, <3>5 DEF Requesting, registerSynchronousReply,
         hasReceivedReply, waitTimesOut, receiveResponse
  <2>2. CASE r # a
    <3>1. /\ pc'[a] = pc[a] /\ timer'[a] = timer[a] /\ outcome'[a] = outcome[a]
          /\ a \in slotInstances' <=> a \in slotInstances
          /\ a \in errorHandles' <=> a \in errorHandles
          /\ handling' = handling
      BY <1>0, <1>1, <2>2 DEF Requesting, registerSlot, startTimer, StartedTimer,
         addReceiveAsyncErrorHandles, registerSynchronousReply, sendRequest, sendingFails,
         hasReceivedReply, waitTimesOut, receiveResponse, Goto, Tell, RequestTypeOK
    <3> QED
      BY <1>0, <3>1 DEF AsyncOf
  <2> QED
    BY <2>1, <2>2
<1>2. ASSUME NEW r \in Async, Timing(r) PROVE AsyncOf(a)'
  <2>1. CASE timerExpires(r)
    BY <1>0, <2>1 DEF timerExpires, AsyncOf, RequestTypeOK
  <2>2. CASE receiveAsyncTimeoutHandler(r)
    <3>1. Append(<<>>, "timeout") = <<"timeout">>
      OBVIOUS
    <3>2. r = a => outcome'[a] = <<"timeout">>
      BY <1>0, <2>2, <3>1 DEF receiveAsyncTimeoutHandler, Tell, AsyncOf, RequestTypeOK
    <3>3. r # a => outcome'[a] = outcome[a]
      BY <1>0, <2>2 DEF receiveAsyncTimeoutHandler, Tell, RequestTypeOK
    <3> QED
      BY <1>0, <2>2, <3>2, <3>3 DEF receiveAsyncTimeoutHandler, RemovedErrorHandle, AsyncOf,
         RequestTypeOK
  <2> QED
    BY <1>2, <2>1, <2>2 DEF Timing
<1>3. CASE handleReply
  <2> DEFINE m == Head(replies)
  <2>1. m.to = a => pc[a] = "sent"
    BY <1>0, <1>3, Taken DEF handleReply, OneReply, AsyncOf
  <2>2. CASE m.to = a
    BY <1>0, <1>3, <2>1, <2>2 DEF handleReply, Idle, TooLate, AsyncOf, RequestTypeOK
  <2>3. CASE m.to # a
    <3>1. timer'[a] = timer[a]
      BY <1>0, <1>3, <2>3 DEF handleReply, RequestTypeOK
    <3>2. ~(handling.step = "call") /\ ~(handling'.step = "call" /\ handling'.to = a)
      BY <1>3, <2>3 DEF handleReply, Idle
    <3> QED
      BY <1>0, <1>3, <3>1, <3>2 DEF handleReply, AsyncOf
  <2> QED
    BY <2>2, <2>3
<1>4. CASE callRegisteredSlotFunctions
  <2>1. handling.step = "call" /\ handling'.step # "call"
    <3>1. handling.step = "call" /\ (handling' = [handling EXCEPT !.step = "store"] \/ handling' = Idle)
      BY <1>4 DEF callRegisteredSlotFunctions
    <3>2. handling # Idle
      BY <3>1 DEF Idle
    <3> QED
      BY <1>0, <3>1, <3>2 DEF Idle, RequestTypeOK
  <2>2. handling.to \in Requests
    BY <1>0, <2>1 DEF RequestTypeOK, Idle
  <2>3. UNCHANGED <<pc, timer>>
    BY <1>4 DEF callRegisteredSlotFunctions
  <2>4. slotInstances' = slotInstances \ {handling.to} /\ errorHandles' = errorHandles \ {handling.to}
    BY <1>4 DEF callRegisteredSlotFunctions, RemovedErrorHandle
  <2>5. \/ outcome' = outcome
        \/ handling.to \in slotInstances \cup errorHandles /\ \E w : Tell(handling.to, w)
    BY <1>4 DEF callRegisteredSlotFunctions
  <2>6. CASE handling.to = a
    <3>1. pc[a] = "sent"
      BY <1>0, <2>6 DEF OneReply, AsyncOf
    <3>2. CASE timer[a] = "cancelled"
      <4>1. CASE outcome' = outcome
        BY <1>0, <2>1, <2>3, <2>4, <2>6, <3>1, <3>2, <4>1 DEF AsyncOf
      <4>2. ASSUME NEW w, Tell(a, w), a \in slotInstances \cup errorHandles
            PROVE  Len(outcome'[a]) = 1
        <5>1. outcome[a] = <<>>
          BY <1>0, <3>2, <4>2 DEF AsyncOf
        <5>2. outcome'[a] = Append(<<>>, w)
          BY <1>0, <4>2, <5>1 DEF Tell, RequestTypeOK
        <5> QED
          BY <5>2
      <4>3. CASE Len(outcome'[a]) = 1
        BY <1>0, <2>1, <2>3, <2>4, <2>6, <3>1, <3>2, <4>3 DEF AsyncOf
      <4> QED
        BY <2>5, <2>6, <4>1, <4>2, <4>3
    <3>3. CASE timer[a] # "cancelled"
      <4>1. a \notin slotInstances \cup errorHandles
        BY <1>0, <2>1, <2>6, <3>1, <3>3 DEF AsyncOf
      <4>2. outcome' = outcome
        BY <2>5, <2>6, <4>1
      <4> QED
        BY <1>0, <2>1, <2>3, <2>4, <2>6, <3>3, <4>1, <4>2 DEF AsyncOf
    <3> QED
      BY <3>2, <3>3
  <2>7. CASE handling.to # a
    <3>1. outcome'[a] = outcome[a]
      BY <1>0, <2>2, <2>5, <2>7 DEF Tell, RequestTypeOK
    <3> QED
      BY <1>0, <2>1, <2>3, <2>4, <2>7, <3>1 DEF AsyncOf
  <2> QED
    BY <2>6, <2>7
<1>5. CASE storeReply \/ notifyOne
  <2>1. /\ handling.step # "call" /\ handling'.step # "call"
        /\ UNCHANGED <<slotInstances, errorHandles, timer, outcome>>
    BY <1>0, <1>5 DEF storeReply, notifyOne, Idle, RequestTypeOK
  <2>2. pc'[a] = pc[a]
    BY <1>0, <1>5 DEF storeReply, notifyOne, NotifyWaiting, RequestTypeOK, AsyncOf
  <2> QED
    BY <1>0, <2>1, <2>2 DEF AsyncOf
<1>6. CASE Answering
  BY <1>0, <1>6, Answers DEF Answer, AsyncOf
<1>7. CASE loseMessage
  BY <1>0, <1>7 DEF loseMessage, AsyncOf
<1>8. CASE UNCHANGED requestVars
  BY <1>0, <1>8 DEF requestVars, AsyncOf
<1> QED
  BY <1>1, <1>2, <1>3, <1>4, <1>5, <1>6, <1>7, <1>8 DEF RequestNext, HandlingReply

(* Every step keeps what holds of synchronous requests.                    *)
LEMMA SyncStep == RequestInv /\ [RequestNext]_requestVars => SyncInv'
<1> SUFFICES ASSUME RequestInv, [RequestNext]_requestVars PROVE SyncInv'
  OBVIOUS
<1> USE DEF requestor, answerer
<1>0. RequestTypeOK /\ OneReply /\ SyncInv /\ None \notin Requests /\ Sync \subseteq Requests
  BY DEF RequestInv, Requests
<1>a. ASSUME NEW s \in Sync PROVE SyncOf(s)
  BY <1>0 DEF SyncInv
<1>1. ASSUME NEW r \in Requests, Requesting(r) PROVE SyncInv'
  <2>1. UNCHANGED <<handling, later, replies>> /\ Answered' = Answered
    BY <1>1 DEF Answered, Requesting, registerSlot, startTimer, addReceiveAsyncErrorHandles,
       registerSynchronousReply, sendRequest, sendingFails, hasReceivedReply, waitTimesOut, receiveResponse
  <2>2. SUFFICES ASSUME NEW s \in Sync PROVE SyncOf(s)'
    BY <1>0, <2>1 DEF SyncInv
  <2>3. SyncOf(s) /\ s \in Requests
    BY <1>0, <1>a
  <2>4. CASE r = s
    <3>1. CASE registerSynchronousReply(r)
      BY <1>0, <2>1, <2>3, <2>4, <3>1 DEF registerSynchronousReply, SyncOf, RequestTypeOK, Goto
    <3>2. CASE sendRequest(r)
      BY <1>0, <2>1, <2>3, <2>4, <3>2 DEF sendRequest, SyncOf, RequestTypeOK, Goto
    <3>6. CASE sendingFails(r)
      BY <1>0, <2>1, <2>3, <2>4, <3>6 DEF sendingFails, SyncOf, RequestTypeOK, Goto
    <3>3. CASE hasReceivedReply(r)
      BY <1>0, <2>1, <2>3, <2>4, <3>3 DEF hasReceivedReply, SyncOf, RequestTypeOK, Goto
    <3>4. CASE waitTimesOut(r)
      BY <1>0, <2>1, <2>3, <2>4, <3>4 DEF waitTimesOut, SyncOf, RequestTypeOK, Goto
    <3>5. CASE receiveResponse(r)
      <4>1. outcome[s] = <<>>
        BY <2>3, <2>4, <3>5 DEF receiveResponse, SyncOf
      <4>2. /\ pc[s] = "ready" => outcome'[s] = <<"reply">>
            /\ pc[s] = "late" => outcome'[s] = <<"timeout">>
        BY <1>0, <2>4, <3>5, <4>1 DEF receiveResponse, Tell, RequestTypeOK
      <4>3. <<"reply">> # <<"timeout">>
        OBVIOUS
      <4>4. /\ pc'[s] = "over" /\ s \notin bmc' /\ requests' = requests
            /\ pc[s] = "ready" => s \notin received'
            /\ pc[s] # "ready" => received' = received
            /\ pc[s] \in {"ready", "late"}
        BY <1>0, <2>4, <3>5 DEF receiveResponse, Goto, RequestTypeOK
      <4> QED
        BY <2>1, <2>3, <4>2, <4>3, <4>4 DEF SyncOf
    <3> QED
      BY <1>0, <1>1, <2>4, <3>1, <3>2, <3>3, <3>4, <3>5, <3>6 DEF Requesting, registerSlot, startTimer,
         addReceiveAsyncErrorHandles
  <2>5. CASE r # s
    <3>1. /\ pc'[s] = pc[s] /\ outcome'[s] = outcome[s]
          /\ s \in bmc' <=> s \in bmc
          /\ s \in received' <=> s \in received
          /\ s \in requests' <=> s \in requests
      BY <1>0, <1>1, <2>3, <2>5 DEF Requesting, registerSlot, startTimer, StartedTimer,
         addReceiveAsyncErrorHandles, registerSynchronousReply, sendRequest, sendingFails,
         hasReceivedReply, waitTimesOut, receiveResponse, Goto, Tell, RequestTypeOK
    <3> QED
      BY <2>1, <2>3, <3>1 DEF SyncOf
  <2> QED
    BY <2>4, <2>5
<1>2. ASSUME NEW r \in Async, Timing(r) PROVE SyncInv'
  <2>1. /\ UNCHANGED <<pc, bmc, received, handling, requests, later, replies>>
        /\ \A s \in Sync : outcome'[s] = outcome[s]
    BY <1>0, <1>2 DEF Timing, timerExpires, receiveAsyncTimeoutHandler, Tell, RequestTypeOK
  <2> QED
    BY <1>0, <2>1 DEF SyncInv, SyncOf, Answered
<1>3. CASE handleReply
  <2>1. Answered = Answered' \cup {Head(replies).to} /\ Head(replies).to \notin Answered'
    BY <1>0, <1>3, Taken DEF handleReply
  <2>2. /\ handling'.to \in {None, Head(replies).to}
        /\ handling'.step \notin {"store", "notify"}
    BY <1>0, <1>3 DEF handleReply, Idle
  <2>3. UNCHANGED <<pc, bmc, received, outcome, requests, later>>
    BY <1>3 DEF handleReply
  <2> QED
    BY <1>0, <2>1, <2>2, <2>3 DEF SyncInv, SyncOf
<1>4. CASE callRegisteredSlotFunctions
  <2>1. /\ handling.step = "call"
        /\ UNCHANGED <<pc, bmc, received, requests, later, replies>>
    BY <1>4 DEF callRegisteredSlotFunctions
  <2>2. handling \in [step : {"call", "store", "notify"}, to : Requests,
                      of : Requests \cup {"empty", "error"}]
    BY <1>0, <2>1 DEF RequestTypeOK, Idle
  <2>3. \/ handling.to \in Sync /\ handling' = [handling EXCEPT !.step = "store"]
        \/ handling' = Idle
    BY <1>0, <1>4 DEF callRegisteredSlotFunctions, RequestTypeOK
  <2>4. \/ outcome' = outcome
        \/ handling.to \in slotInstances \cup errorHandles /\ \E w : Tell(handling.to, w)
    BY <1>4 DEF callRegisteredSlotFunctions
  <2>5. \A s \in Sync : outcome'[s] = outcome[s]
    BY <1>0, <2>2, <2>4 DEF Tell, RequestTypeOK
  <2>6. handling'.to \in {None, handling.to}
        /\ (handling'.step \in {"store", "notify"} => handling'.to \in Sync)
    BY <2>2, <2>3 DEF Idle
  <2>7. \A s \in Sync : s = handling.to => s \notin received /\ outcome[s] # <<"reply">>
    BY <1>0, <2>1 DEF SyncInv, SyncOf
  <2> QED
    BY <1>0, <2>1, <2>5, <2>6, <2>7 DEF SyncInv, SyncOf, Answered
<1>5. CASE storeReply
  <2>1. /\ handling.step = "store" /\ handling.to \in Sync
        /\ received' = received \cup {handling.to}
        /\ UNCHANGED <<pc, bmc, outcome, requests, later, replies>>
    BY <1>0, <1>5 DEF storeReply, SyncInv
  <2>2. handling'.to = handling.to /\ handling'.step = "notify"
    BY <1>0, <1>5, <2>1 DEF storeReply, RequestTypeOK, Idle
  <2>3. /\ handling.to \notin requests \cup later \cup Answered
        /\ pc[handling.to] \notin {"new", "registered", "failed"}
        /\ outcome[handling.to] # <<"reply">>
    BY <1>0, <2>1 DEF OneReply, SyncInv, SyncOf
  <2> QED
    BY <1>0, <2>1, <2>2, <2>3 DEF SyncInv, SyncOf, Answered
<1>6. CASE notifyOne
  <2>1. /\ handling' = Idle
        /\ \A s \in Sync : pc'[s] = pc[s] \/ (pc[s] = "asleep" /\ pc'[s] = "awake")
        /\ UNCHANGED <<bmc, received, outcome, requests, later, replies>>
    <3>1. \/ pc' = pc
          \/ pc[handling.to] = "asleep" /\ pc' = [pc EXCEPT ![handling.to] = "awake"]
      BY <1>6 DEF notifyOne, NotifyWaiting
    <3> QED
      BY <1>0, <1>6, <3>1 DEF notifyOne, RequestTypeOK, Idle
  <2> QED
    BY <1>0, <2>1 DEF SyncInv, SyncOf, Answered, Idle
<1>7. CASE Answering
  <2>1. PICK r \in Requests : Answer(r)
    BY <1>0, <1>7, Answers
  <2>2. Answered' \subseteq Answered \cup {r}
    BY <1>0, <2>1, Appended DEF Answer, Answered
  <2>3. r \in requests \cup later /\ requests' \subseteq requests /\ later' \subseteq later \cup {r}
    BY <2>1 DEF Answer
  <2> QED
    BY <1>0, <2>1, <2>2, <2>3 DEF Answer, SyncInv, SyncOf
<1>8. CASE loseMessage
  <2>1. requests' \subseteq requests /\ Answered' \subseteq Answered
    BY <1>0, <1>8, Taken DEF loseMessage, Answered
  <2> QED
    BY <1>0, <1>8, <2>1 DEF loseMessage, SyncInv, SyncOf
<1>9. CASE UNCHANGED requestVars
  BY <1>0, <1>9 DEF requestVars, SyncInv, SyncOf, Answered
<1> QED
  BY <1>1, <1>2, <1>3, <1>4, <1>5, <1>6, <1>7, <1>8, <1>9 DEF RequestNext, HandlingReply

(* Every step keeps the account of what is placed on the threads.          *)
LEMMA PlacedStep == RequestInv /\ [RequestNext]_requestVars => PlacedInv'
<1> SUFFICES ASSUME RequestInv, [RequestNext]_requestVars PROVE PlacedInv'
  OBVIOUS
<1>1. CASE Answering
  BY <1>1, Answers DEF RequestInv
<1>2. CASE ~Answering
  <2>1. UNCHANGED <<placed, spoilt>>
    BY <1>2 DEF RequestNext, Requesting, registerSlot, startTimer, addReceiveAsyncErrorHandles,
       registerSynchronousReply, sendRequest, sendingFails, hasReceivedReply, waitTimesOut, receiveResponse,
       Timing, timerExpires, receiveAsyncTimeoutHandler, HandlingReply, handleReply,
       callRegisteredSlotFunctions, storeReply, notifyOne, loseMessage, answerer, requestVars
  <2> QED
    BY <2>1 DEF RequestInv, PlacedInv
<1> QED
  BY <1>1, <1>2

-----------------------------------------------------------------------------
(* What holds initially and is kept by every step holds always.            *)
THEOREM RequestInvariance == RequestSpec => []RequestInv
<1>1. RequestInit => RequestInv
  <2> SUFFICES ASSUME RequestInit PROVE RequestInv
    OBVIOUS
  <2>1. RequestTypeOK
    BY DEF RequestInit, RequestTypeOK, Requests, Idle
  <2>2. Answered = {}
    BY DEF RequestInit, Answered
  <2>3. OneReply
    BY <2>2 DEF RequestInit, OneReply, Idle, Requests
  <2>4. AsyncInv
    BY DEF RequestInit, AsyncInv, AsyncOf, Requests, Idle
  <2>5. SyncInv
    <3>1. <<>> # <<"reply">>
      OBVIOUS
    <3> QED
      BY <3>1 DEF RequestInit, SyncInv, SyncOf, Requests, Idle
  <2>6. PlacedInv
    BY DEF RequestInit, PlacedInv
  <2> QED
    BY <2>1, <2>3, <2>4, <2>5, <2>6 DEF RequestInv
<1>2. RequestInv /\ [RequestNext]_requestVars => RequestInv'
  BY RequestTypeStep, OneReplyStep, AsyncStep, SyncStep, PlacedStep DEF RequestInv
<1> QED
  BY <1>1, <1>2, PTL DEF RequestSpec

(* The variables keep their types; a reply slot and an error handler only  *)
(* exist for asynchronous requests, an entry to wait for only for          *)
(* synchronous ones.                                                       *)
THEOREM RequestTypeCorrect == RequestSpec => []RequestTypeOK
<1>1. RequestInv => RequestTypeOK
  BY DEF RequestInv
<1> QED
  BY <1>1, RequestInvariance, PTL

(* However the reply races the timer, the requestor is told one thing; of  *)
(* a request that could not be sent at most the timeout is still told.     *)
THEOREM ToldOnce == RequestSpec => []OneOutcome
<1>1. RequestInv => OneOutcome
  <2> SUFFICES ASSUME RequestInv, NEW r \in Requests
               PROVE  /\ Len(outcome[r]) <= 1
                      /\ pc[r] = "failed" =>
                            outcome[r] = <<>> \/ (r \in Async /\ outcome[r] = <<"timeout">>)
    BY DEF OneOutcome
  <2>0. \A x \in {<<>>, <<"timeout">>, <<"reply">>} : Len(x) <= 1
    <3>1. Len(<<>>) <= 1
      OBVIOUS
    <3>2. Len(<<"timeout">>) <= 1
      OBVIOUS
    <3>3. Len(<<"reply">>) <= 1
      OBVIOUS
    <3> QED
      BY <3>1, <3>2, <3>3, Zenon
  <2>1. CASE r \in Async
    <3>1. AsyncOf(r) /\ timer[r] \in {"off", "running", "expired", "cancelled", "done"}
      BY <2>1 DEF RequestInv, RequestTypeOK, AsyncInv
    <3> QED
      <4>1. CASE timer[r] = "cancelled"
        <5>1. pc[r] = "sent"
          BY <3>1, <4>1 DEF AsyncOf
        <5>2. CASE outcome[r] = <<>>
          BY <2>0, <5>1, <5>2, Zenon
        <5> QED
          BY <3>1, <4>1, <5>1, <5>2 DEF AsyncOf
      <4>2. CASE timer[r] # "cancelled"
        <5>1. outcome[r] \in {<<>>, <<"timeout">>}
          BY <3>1, <4>2 DEF AsyncOf
        <5> QED
          BY <2>0, <2>1, <5>1, Zenon
      <4> QED
        BY <4>1, <4>2
  <2>2. CASE r \in Sync
    <3>1. SyncOf(r)
      BY <2>2 DEF RequestInv, SyncInv
    <3> QED
      <4>1. outcome[r] \in {<<>>, <<"timeout">>, <<"reply">>}
        BY <3>1 DEF SyncOf
      <4>2. pc[r] = "failed" => outcome[r] = <<>>
        BY <3>1 DEF SyncOf
      <4> QED
        BY <2>0, <4>1, <4>2, Zenon
  <2> QED
    BY <2>1, <2>2 DEF Requests
<1> QED
  BY <1>1, RequestInvariance, PTL

(* Only a request that timed out leaves an error handler or a reply behind *)
(* and only one that could not be sent a mark to wait.                     *)
THEOREM NoLeak == RequestSpec => []OnlyFailuresLeak
<1>1. RequestInv => OnlyFailuresLeak
  <2> SUFFICES ASSUME RequestInv PROVE OnlyFailuresLeak
    OBVIOUS
  <2>1. ASSUME NEW r \in Async, outcome[r] # <<>>
        PROVE  r \notin slotInstances /\ (outcome[r] # <<"timeout">> => r \notin errorHandles)
    <3>1. AsyncOf(r) /\ timer[r] \in {"off", "running", "expired", "cancelled", "done"}
      BY DEF RequestInv, RequestTypeOK, AsyncInv
    <3> QED
      BY <2>1, <3>1 DEF AsyncOf
  <2>2. ASSUME NEW r \in Sync
        PROVE  /\ pc[r] = "over" => r \notin bmc
               /\ pc[r] = "over" /\ outcome[r] # <<"timeout">> => r \notin received
               /\ pc[r] = "failed" => r \notin received
    <3>1. SyncOf(r)
      BY DEF RequestInv, SyncInv
    <3> QED
      BY <3>1 DEF SyncOf
  <2> QED
    BY <2>1, <2>2 DEF OnlyFailuresLeak
<1> QED
  BY <1>1, RequestInvariance, PTL

(* The reply to a slot call is the one that this call placed, unless a     *)
(* slot on the same thread had placed one and thrown.                      *)
THEOREM OwnReplies == RequestSpec => RepliesAreOwn
<1>1. RequestInv => \A r \in Requests, t \in Threads \ spoilt, body \in Bodies :
                slotReturns(r, t, body) => replies' = replies \o OwnReply(r, body)
  <2> SUFFICES ASSUME RequestInv, NEW r \in Requests, NEW t \in Threads \ spoilt,
                      NEW body \in Bodies, slotReturns(r, t, body)
               PROVE  replies' = replies \o OwnReply(r, body)
    OBVIOUS
  <2>1. placed[t] = None
    BY DEF RequestInv, PlacedInv
  <2>2. SentReply(r, PlacedBy(body, r, t)) = OwnReply(r, body)
    BY <2>1 DEF SentReply, PlacedBy, OwnReply, Bodies, Requests
  <2> QED
    BY <2>2 DEF slotReturns
<1> QED
  BY <1>1, RequestInvariance, PTL DEF RepliesAreOwn
=============================================================================
