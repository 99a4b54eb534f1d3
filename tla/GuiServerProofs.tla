-------------------------- MODULE GuiServerProofs --------------------------
EXTENDS GuiServer, TLAPS, FiniteSetTheorems, SequenceTheorems

-----------------------------------------------------------------------------
(* The invariant.                                                          *)

(* A slot that treats a change submits it at last, and only slots submit.  *)
WorkInv ==
    /\ todo = <<>> => work[Slots] = <<>>
    /\ work[Slots] # <<>> => work[Slots][Len(work[Slots])] = <<"submit">>
    /\ \A k \in 1 .. Len(work[Slots]) - 1 : work[Slots][k] # <<"submit">>
    /\ \A c \in Clients : \A k \in 1 .. Len(work[c]) : work[c][k] # <<"submit">>

(* The changes of a cycle are counted; an instance is not both new and     *)
(* updated, and one that is new without having been gone was not shown.    *)
With(f) == {i \in Instances : f[i] # None}

CycleInv ==
    /\ instChanges.total = Cardinality(With(instChanges.new)) +
                           Cardinality(With(instChanges.update)) +
                           Cardinality(instChanges.gone)
    /\ \A i \in Instances :
          /\ instChanges.new[i] = None \/ instChanges.update[i] = None
          /\ instChanges.new[i] # None /\ i \notin instChanges.gone => gui[i] = None

(* What a client will show of i after the changes of this cycle.           *)
Will(i) == topology_update(instChanges, gui)[i]

(* What the changes that are still to be submitted say of the description. *)
ChangeInv(k) ==
    LET c == todo[k] IN
    /\ c.what = "gone" => Shown[c.id] = None
    /\ c.what = "update" => Len(todo) = 1 /\ Shown[c.id] = c.info /\ c.info \in Infos
    /\ c.what = "new" =>
          /\ k = Len(todo) /\ c.info \in Infos
          /\ k > 1 => todo[k - 1].id = c.id /\ todo[k - 1].what = "gone"
          /\ k = 1 => Will(c.id) = None
          /\ k = 1 /\ work[Slots] # <<>> => Shown[c.id] = c.info
          /\ ~(k = 1 /\ work[Slots] # <<>>) => Shown[c.id] = None

AgreeInv ==
    setup.throttler =>
        /\ \A k \in 1 .. Len(todo) : ChangeInv(k)
        /\ \A i \in Instances :
              (\A k \in 1 .. Len(todo) : todo[k].id # i) => Will(i) = Shown[i]

Inv == TypeOK /\ WorkInv /\ CycleInv /\ AgreeInv /\ UsageIsTrue


-----------------------------------------------------------------------------
(* Sequences of steps.                                                     *)

Plain == Step \ {<<"submit">>}
Ends(w) ==
    /\ w # <<>> => w[Len(w)] = <<"submit">>
    /\ \A k \in 1 .. Len(w) - 1 : w[k] # <<"submit">>
Connects(w) == \E k \in 1 .. Len(w) : w[k][1] = "asyncConnect"

(* The steps that are not the submission of a change.                      *)
LEMMA PlainSteps ==
    /\ <<"stayConnected", "configuration">> \in Plain
    /\ <<"stayConnected", "schema">> \in Plain
    /\ <<"asyncConnect", "configuration">> \in Plain
    /\ <<"asyncConnect", "schema">> \in Plain
    /\ <<"immortalize">> \in Plain /\ <<"buryZombie">> \in Plain /\ <<"mortalize">> \in Plain
    /\ <<"goneHandler">> \in Plain /\ <<"newHandler">> \in Plain
    /\ <<"getConfiguration">> \in Plain /\ <<"answer">> \in Plain
    /\ <<"submit">> \in Step /\ Plain \subseteq Step
BY DEF Plain, Step

(* What the threads are told to do is made of such steps.                  *)
LEMMA Plans ==
    /\ <<>> \in Seq(Plain) /\ Register \in Seq(Plain) /\ Unregister \in Seq(Plain)
    /\ Resurrect \in Seq(Plain)
    /\ Append(Register, <<"getConfiguration">>) \in Seq(Plain)
    /\ <<<<"stayConnected", "schema">>, <<"answer">>>> \in Seq(Plain)
    /\ \A s \in Plain : <<s>> \in Seq(Plain)
<1>1. \A s \in Plain : <<s>> \in Seq(Plain)
  OBVIOUS
<1>2. \A s, t \in Plain : <<s, t>> \in Seq(Plain)
  OBVIOUS
<1>3. <<>> \in Seq(Plain)
  OBVIOUS
<1>4. Register \in Seq(Plain) /\ Unregister \in Seq(Plain)
  BY <1>2, PlainSteps DEF Register, Unregister
<1>5. Resurrect \in Seq(Plain)
  BY <1>1, <1>3, PlainSteps DEF Resurrect
<1>6. Append(Register, <<"getConfiguration">>) \in Seq(Plain)
  BY <1>4, PlainSteps
<1>7. <<<<"stayConnected", "schema">>, <<"answer">>>> \in Seq(Plain)
  BY <1>2, PlainSteps
<1> QED
  BY <1>1, <1>3, <1>4, <1>5, <1>6, <1>7

(* A thread has done its first step and goes on with others (Then()).      *)
LEMMA ThenGoesOn ==
    ASSUME NEW w \in Seq(Step), w # <<>>, NEW s \in Seq(Plain)
    PROVE  LET v == s \o Tail(w) IN
           /\ v \in Seq(Step)
           /\ Ends(w) /\ Head(w) # <<"submit">> => Ends(v) /\ v # <<>>
           /\ (\A k \in 1 .. Len(w) : w[k] # <<"submit">>)
                  => \A k \in 1 .. Len(v) : v[k] # <<"submit">>
           /\ Connects(w) /\ Head(w)[1] # "asyncConnect" => Connects(v)
           /\ Connects(s) => Connects(v)
<1> DEFINE v == s \o Tail(w)
<1>1. /\ Tail(w) \in Seq(Step) /\ Len(Tail(w)) = Len(w) - 1 /\ Len(w) \in Nat \ {0}
      /\ Head(w) = w[1] /\ \A k \in 1 .. Len(w) - 1 : Tail(w)[k] = w[k + 1]
  OBVIOUS
<1>2. s \in Seq(Step) /\ Len(s) \in Nat /\ \A k \in 1 .. Len(s) : s[k] \in Plain
  BY DEF Plain
<1>3. /\ v \in Seq(Step) /\ Len(v) = Len(s) + Len(w) - 1 /\ Len(v) \in Nat
      /\ \A k \in 1 .. Len(s) : v[k] = s[k]
      /\ \A k \in Len(s) + 1 .. Len(v) : v[k] = w[k - Len(s) + 1]
  <2>1. v \in Seq(Step) /\ Len(v) = Len(s) + Len(Tail(w))
    BY <1>1, <1>2
  <2>2. \A k \in 1 .. Len(v) : v[k] = IF k <= Len(s) THEN s[k] ELSE Tail(w)[k - Len(s)]
    BY <1>1, <1>2
  <2>3. \A k \in Len(s) + 1 .. Len(v) : k - Len(s) \in 1 .. Len(w) - 1 /\ k \in 1 .. Len(v) /\ ~(k <= Len(s))
    BY <2>1, <1>1, <1>2
  <2>4. \A k \in 1 .. Len(s) : k \in 1 .. Len(v) /\ k <= Len(s)
    BY <2>1, <1>1, <1>2
  <2> HIDE DEF v
  <2> QED
    BY <2>1, <2>2, <2>3, <2>4, <1>1, <1>2
<1> HIDE DEF v
<1>4. ASSUME Ends(w), Head(w) # <<"submit">> PROVE Ends(v) /\ v # <<>>
  <2>1. Len(w) >= 2
    BY <1>1, <1>4 DEF Ends
  <2>2. v # <<>> /\ Len(v) \in Len(s) + 1 .. Len(v) /\ v[Len(v)] = w[Len(w)]
    BY <2>1, <1>1, <1>2, <1>3
  <2>3. ASSUME NEW k \in 1 .. Len(v) - 1 PROVE v[k] # <<"submit">>
    <3>1. CASE k <= Len(s)
      <4>1. k \in 1 .. Len(s)
        BY <3>1, <1>2, <1>3
      <4> QED
        BY <4>1, <1>2, <1>3 DEF Plain
    <3>2. CASE ~(k <= Len(s))
      <4>1. k \in Len(s) + 1 .. Len(v) /\ k - Len(s) + 1 \in 1 .. Len(w) - 1
        BY <3>2, <1>1, <1>2, <1>3
      <4> QED
        BY <4>1, <1>3, <1>4 DEF Ends
    <3> QED
      BY <3>1, <3>2
  <2> QED
    BY <2>2, <2>3, <1>4 DEF Ends
<1>5. ASSUME \A k \in 1 .. Len(w) : w[k] # <<"submit">>, NEW k \in 1 .. Len(v)
      PROVE  v[k] # <<"submit">>
  <2>1. CASE k <= Len(s)
    <3>1. k \in 1 .. Len(s)
      BY <2>1, <1>2, <1>3
    <3> QED
      BY <3>1, <1>2, <1>3 DEF Plain
  <2>2. CASE ~(k <= Len(s))
    <3>1. k \in Len(s) + 1 .. Len(v) /\ k - Len(s) + 1 \in 1 .. Len(w)
      BY <2>2, <1>1, <1>2, <1>3
    <3> QED
      BY <3>1, <1>3, <1>5
  <2> QED
    BY <2>1, <2>2
<1>6. ASSUME Connects(w), Head(w)[1] # "asyncConnect" PROVE Connects(v)
  <2>1. PICK k \in 1 .. Len(w) : w[k][1] = "asyncConnect"
    BY <1>6 DEF Connects
  <2>2. k # 1
    BY <2>1, <1>1, <1>6
  <2>3. k + Len(s) - 1 \in Len(s) + 1 .. Len(v) /\ k + Len(s) - 1 \in 1 .. Len(v)
        /\ (k + Len(s) - 1) - Len(s) + 1 = k
    BY <2>2, <1>1, <1>2, <1>3
  <2>4. v[k + Len(s) - 1] = w[k]
    BY <2>3, <1>3
  <2> QED
    BY <2>1, <2>3, <2>4 DEF Connects
<1>7. ASSUME Connects(s) PROVE Connects(v)
  <2>1. PICK k \in 1 .. Len(s) : s[k][1] = "asyncConnect"
    BY <1>7 DEF Connects
  <2>2. k \in 1 .. Len(v) /\ v[k] = s[k]
    BY <1>1, <1>2, <1>3
  <2> QED
    BY <2>1, <2>2 DEF Connects
<1> QED
  BY <1>3, <1>4, <1>5, <1>6, <1>7 DEF v

-----------------------------------------------------------------------------
(* The changes of a cycle.                                                 *)

Changes == [new : [Instances -> MaybeInfo], update : [Instances -> MaybeInfo],
            gone : SUBSET Instances, total : Nat]

Counted(ch) ==
    ch.total = Cardinality(With(ch.new)) + Cardinality(With(ch.update)) + Cardinality(ch.gone)

Consistent(ch) ==
    /\ Counted(ch)
    /\ \A i \in Instances :
          /\ ch.new[i] = None \/ ch.update[i] = None
          /\ ch.new[i] # None /\ i \notin ch.gone => gui[i] = None

(* A set of instances grows or shrinks by one.                             *)
LEMMA OneMore ==
    ASSUME NEW S \in SUBSET Instances, NEW i \in Instances
    PROVE  /\ Cardinality(S) \in Nat
           /\ i \notin S => Cardinality(S \cup {i}) = Cardinality(S) + 1
           /\ i \in S => Cardinality(S \ {i}) = Cardinality(S) - 1 /\ Cardinality(S) > 0
<1>1. IsFiniteSet(S)
  BY ThrottlerAssumption, FS_Subset
<1>2. Cardinality(S) \in Nat
  BY <1>1, FS_CardinalityType
<1>3. ASSUME i \notin S PROVE Cardinality(S \cup {i}) = Cardinality(S) + 1
  BY <1>1, <1>3, FS_AddElement
<1>4. ASSUME i \in S PROVE Cardinality(S \ {i}) = Cardinality(S) - 1 /\ Cardinality(S) > 0
  <2>1. Cardinality(S \ {i}) = Cardinality(S) - 1
    BY <1>1, <1>4, FS_RemoveElement
  <2>2. Cardinality(S) # 0
    BY <1>1, <1>4, FS_EmptySet
  <2> QED
    BY <2>1, <2>2, <1>2
<1> QED
  BY <1>2, <1>3, <1>4

(* An empty cycle changes nothing.                                         *)
LEMMA EmptyCycle ==
    ASSUME NEW ch \in Changes, Counted(ch), gui \in [Instances -> MaybeInfo]
    PROVE  /\ ch.total = 0 => topology_update(ch, gui) = gui
           /\ topology_update(initCycleInstChanges, gui) = gui
           /\ topology_update(ch, gui) \in [Instances -> MaybeInfo]
           /\ initCycleInstChanges \in Changes
           /\ Counted(initCycleInstChanges)
<1>1. /\ ch.new \in [Instances -> MaybeInfo] /\ ch.update \in [Instances -> MaybeInfo]
      /\ ch.gone \in SUBSET Instances /\ ch.total \in Nat
  BY DEF Changes
<1>2. /\ With(ch.new) \in SUBSET Instances /\ With(ch.update) \in SUBSET Instances
      /\ IsFiniteSet(With(ch.new)) /\ IsFiniteSet(With(ch.update)) /\ IsFiniteSet(ch.gone)
  BY <1>1, ThrottlerAssumption, FS_Subset DEF With
<1>3. /\ Cardinality(With(ch.new)) \in Nat /\ Cardinality(With(ch.update)) \in Nat
      /\ Cardinality(ch.gone) \in Nat
  BY <1>2, FS_CardinalityType
<1>4. ASSUME ch.total = 0 PROVE topology_update(ch, gui) = gui
  <2>1. Cardinality(With(ch.new)) = 0 /\ Cardinality(With(ch.update)) = 0 /\ Cardinality(ch.gone) = 0
    BY <1>3, <1>4 DEF Counted
  <2>2. With(ch.new) = {} /\ With(ch.update) = {} /\ ch.gone = {}
    BY <2>1, <1>2, FS_EmptySet
  <2>3. \A i \in Instances : ch.new[i] = None /\ ch.update[i] = None /\ i \notin ch.gone
    BY <2>2 DEF With
  <2> QED
    BY <2>3 DEF topology_update
<1>5. /\ NoEntry \in [Instances -> MaybeInfo] /\ \A i \in Instances : NoEntry[i] = None
      /\ With(NoEntry) = {}
  BY DEF NoEntry, MaybeInfo, With
<1>6. /\ initCycleInstChanges.new = NoEntry /\ initCycleInstChanges.update = NoEntry
      /\ initCycleInstChanges.gone = {} /\ initCycleInstChanges.total = 0
      /\ initCycleInstChanges \in Changes
  BY <1>5 DEF initCycleInstChanges, Changes
<1>7. topology_update(initCycleInstChanges, gui) = gui
  BY <1>5, <1>6 DEF topology_update
<1>8. Counted(initCycleInstChanges)
  <2>1. Cardinality({}) = 0
    BY FS_EmptySet
  <2> QED
    BY <2>1, <1>5, <1>6 DEF Counted
<1>9. topology_update(ch, gui) \in [Instances -> MaybeInfo]
  BY <1>1 DEF topology_update, MaybeInfo
<1> QED
  BY <1>4, <1>6, <1>7, <1>8, <1>9

(* The end of a cycle, whyever: what the client will show is what it would *)
(* have shown.                                                             *)
LEMMA Flushed ==
    ASSUME NEW ch \in Changes, Consistent(ch), gui \in [Instances -> MaybeInfo],
           flushThrottler(ch)
    PROVE  /\ instChanges' \in Changes /\ gui' \in [Instances -> MaybeInfo]
           /\ timer' = "waiting"
           /\ Consistent(instChanges)'
           /\ topology_update(instChanges', gui') = topology_update(ch, gui)
<1>1. Counted(ch)
  BY DEF Consistent
<1>2. ch.total \in Nat
  BY DEF Changes
<1>3. gui' = topology_update(ch, gui)
  <2>1. CASE ch.total > 0
    BY <2>1 DEF flushThrottler
  <2>2. CASE ~(ch.total > 0)
    <3>1. ch.total = 0 /\ gui' = gui
      BY <2>2, <1>2 DEF flushThrottler
    <3> QED
      BY <3>1, <1>1, EmptyCycle
  <2> QED
    BY <2>1, <2>2
<1>4. gui' \in [Instances -> MaybeInfo]
  BY <1>1, <1>3, EmptyCycle
<1>5. instChanges' = initCycleInstChanges /\ timer' = "waiting"
  BY DEF flushThrottler, kickNextThrottlerCycleAsync
<1>6. initCycleInstChanges \in Changes /\ Counted(initCycleInstChanges)
  BY <1>1, EmptyCycle
<1>7. topology_update(initCycleInstChanges, gui') = gui'
  <2>1. topology_update(initCycleInstChanges, gui') = [i \in Instances |-> gui'[i]]
    BY DEF topology_update, initCycleInstChanges, NoEntry
  <2> QED
    BY <2>1, <1>4
<1>8. Consistent(instChanges)'
  <2>1. \A i \in Instances : initCycleInstChanges.new[i] = None
    BY DEF initCycleInstChanges, NoEntry
  <2>2. Counted(instChanges)'
    BY <1>5, <1>6 DEF Counted, With
  <2> QED
    BY <2>1, <2>2, <1>5 DEF Consistent
<1> QED
  BY <1>3, <1>4, <1>5, <1>6, <1>7, <1>8

(* So does a full cycle.                                                   *)
LEMMA FlushedIfFull ==
    ASSUME NEW ch \in Changes, Consistent(ch), gui \in [Instances -> MaybeInfo],
           timer \in {"waiting", "over"}, flushIfFull(ch)
    PROVE  /\ instChanges' \in Changes /\ gui' \in [Instances -> MaybeInfo]
           /\ timer' \in {"waiting", "over"} /\ queued' = queued
           /\ Consistent(instChanges)'
           /\ topology_update(instChanges', gui') = topology_update(ch, gui)
<1>1. CASE ch.total >= MaxChangesPerCycle /\ timer = "waiting"
  <2>1. flushThrottler(ch) /\ queued' = queued
    BY <1>1 DEF flushIfFull
  <2> QED
    BY <2>1, Flushed
<1>2. CASE ~(ch.total >= MaxChangesPerCycle /\ timer = "waiting")
  <2>1. instChanges' = ch /\ timer' = timer /\ queued' = queued /\ gui' = gui
    BY <1>2 DEF flushIfFull
  <2>2. Consistent(instChanges)'
    BY <2>1 DEF Consistent, Counted, With
  <2> QED
    BY <2>1, <2>2
<1> QED
  BY <1>1, <1>2

-----------------------------------------------------------------------------
(* Changes that are added to a cycle or removed from it.                   *)

(* The parts of the changes, and their numbers.                            *)
LEMMA Parts ==
    ASSUME NEW ch \in Changes
    PROVE  /\ ch.new \in [Instances -> MaybeInfo] /\ ch.update \in [Instances -> MaybeInfo]
           /\ ch.gone \in SUBSET Instances /\ ch.total \in Nat
           /\ With(ch.new) \in SUBSET Instances /\ With(ch.update) \in SUBSET Instances
           /\ Cardinality(With(ch.new)) \in Nat /\ Cardinality(With(ch.update)) \in Nat
           /\ Cardinality(ch.gone) \in Nat
<1>1. /\ ch.new \in [Instances -> MaybeInfo] /\ ch.update \in [Instances -> MaybeInfo]
      /\ ch.gone \in SUBSET Instances /\ ch.total \in Nat
  BY DEF Changes
<1>2. With(ch.new) \in SUBSET Instances /\ With(ch.update) \in SUBSET Instances
  BY DEF With
<1>3. IsFiniteSet(With(ch.new)) /\ IsFiniteSet(With(ch.update)) /\ IsFiniteSet(ch.gone)
  BY <1>1, <1>2, ThrottlerAssumption, FS_Subset
<1> QED
  BY <1>1, <1>2, <1>3, FS_CardinalityType

(* One entry of a part is set or erased.                                   *)
LEMMA OneEntry ==
    ASSUME NEW f \in [Instances -> MaybeInfo], NEW i \in Instances
    PROVE  /\ \A x \in Infos : [f EXCEPT ![i] = x] \in [Instances -> MaybeInfo]
           /\ [f EXCEPT ![i] = None] \in [Instances -> MaybeInfo]
           /\ \A x \in Infos : With([f EXCEPT ![i] = x]) = With(f) \cup {i}
           /\ With([f EXCEPT ![i] = None]) = With(f) \ {i}
           /\ i \in With(f) <=> f[i] # None
           /\ With(f) \in SUBSET Instances
BY ThrottlerAssumption DEF With, MaybeInfo

(* An instance is new in this cycle.                                       *)
LEMMA WithNew ==
    ASSUME NEW ch \in Changes, Counted(ch), NEW i \in Instances, NEW info \in Infos,
           ch.new[i] = None
    PROVE  LET r == withNew(ch, i, info) IN
           /\ r \in Changes /\ Counted(r)
           /\ r.new = [ch.new EXCEPT ![i] = info] /\ r.update = ch.update /\ r.gone = ch.gone
<1> DEFINE r == withNew(ch, i, info)
<1> DEFINE f == [ch.new EXCEPT ![i] = info]
<1>1. r = [ch EXCEPT !.new[i] = info, !.total = @ + 1]
  BY DEF withNew
<1>2. /\ r.new = f /\ r.update = ch.update
      /\ r.gone = ch.gone /\ r.total = ch.total + 1
      /\ r = [new |-> r.new, update |-> r.update, gone |-> r.gone, total |-> r.total]
  BY <1>1, Parts DEF Changes
<1>3. f \in [Instances -> MaybeInfo] /\ With(f) = With(ch.new) \cup {i} /\ i \notin With(ch.new)
  BY Parts, OneEntry
<1>4. Cardinality(With(f)) = Cardinality(With(ch.new)) + 1
  BY <1>3, Parts, OneMore
<1> HIDE DEF r, f
<1>5. r \in Changes
  BY <1>2, <1>3, Parts DEF Changes
<1>6. Counted(r)
  BY <1>2, <1>4, Parts DEF Counted
<1> QED
  BY <1>2, <1>5, <1>6 DEF r, f

(* It is updated in this cycle.                                            *)
LEMMA WithUpdate ==
    ASSUME NEW ch \in Changes, Counted(ch), NEW i \in Instances, NEW info \in Infos,
           ch.update[i] = None
    PROVE  LET r == withUpdate(ch, i, info) IN
           /\ r \in Changes /\ Counted(r)
           /\ r.update = [ch.update EXCEPT ![i] = info] /\ r.new = ch.new /\ r.gone = ch.gone
<1> DEFINE r == withUpdate(ch, i, info)
<1> DEFINE f == [ch.update EXCEPT ![i] = info]
<1>1. r = [ch EXCEPT !.update[i] = info, !.total = @ + 1]
  BY DEF withUpdate
<1>2. /\ r.update = f /\ r.new = ch.new
      /\ r.gone = ch.gone /\ r.total = ch.total + 1
      /\ r = [new |-> r.new, update |-> r.update, gone |-> r.gone, total |-> r.total]
  BY <1>1, Parts DEF Changes
<1>3. f \in [Instances -> MaybeInfo] /\ With(f) = With(ch.update) \cup {i} /\ i \notin With(ch.update)
  BY Parts, OneEntry
<1>4. Cardinality(With(f)) = Cardinality(With(ch.update)) + 1
  BY <1>3, Parts, OneMore
<1> HIDE DEF r, f
<1>5. r \in Changes
  BY <1>2, <1>3, Parts DEF Changes
<1>6. Counted(r)
  BY <1>2, <1>4, Parts DEF Counted
<1> QED
  BY <1>2, <1>5, <1>6 DEF r, f

(* It is no longer new in this cycle.                                      *)
LEMMA WithoutNew ==
    ASSUME NEW ch \in Changes, Counted(ch), NEW i \in Instances
    PROVE  LET r == withoutNew(ch, i) IN
           /\ r \in Changes /\ Counted(r)
           /\ r.new = [ch.new EXCEPT ![i] = None] /\ r.update = ch.update /\ r.gone = ch.gone
<1> DEFINE r == withoutNew(ch, i)
<1> DEFINE f == [ch.new EXCEPT ![i] = None]
<1>1. CASE ch.new[i] = None
  <2>1. r = ch
    BY <1>1 DEF withoutNew
  <2>2. f = ch.new
    BY <1>1, Parts
  <2> QED
    BY <2>1, <2>2
<1>2. CASE ch.new[i] # None
  <2>1. r = [ch EXCEPT !.new[i] = None, !.total = @ - 1]
    BY <1>2 DEF withoutNew
  <2>2. /\ r.new = f /\ r.update = ch.update
        /\ r.gone = ch.gone /\ r.total = ch.total - 1
        /\ r = [new |-> r.new, update |-> r.update, gone |-> r.gone, total |-> r.total]
    BY <2>1, Parts DEF Changes
  <2>3. f \in [Instances -> MaybeInfo] /\ With(f) = With(ch.new) \ {i} /\ i \in With(ch.new)
    BY <1>2, Parts, OneEntry
  <2>4. Cardinality(With(f)) = Cardinality(With(ch.new)) - 1 /\ Cardinality(With(ch.new)) > 0
    BY <2>3, Parts, OneMore
  <2> HIDE DEF r, f
  <2>5. Counted(r) /\ r.total \in Nat
    BY <2>2, <2>4, Parts DEF Counted
  <2>6. r \in Changes
    BY <2>2, <2>3, <2>5, Parts DEF Changes
  <2> QED
    BY <2>2, <2>5, <2>6 DEF r, f
<1> QED
  BY <1>1, <1>2

(* It is no longer updated in this cycle.                                  *)
LEMMA WithoutUpdate ==
    ASSUME NEW ch \in Changes, Counted(ch), NEW i \in Instances
    PROVE  LET r == withoutUpdate(ch, i) IN
           /\ r \in Changes /\ Counted(r)
           /\ r.update = [ch.update EXCEPT ![i] = None] /\ r.new = ch.new /\ r.gone = ch.gone
<1> DEFINE r == withoutUpdate(ch, i)
<1> DEFINE f == [ch.update EXCEPT ![i] = None]
<1>1. CASE ch.update[i] = None
  <2>1. r = ch
    BY <1>1 DEF withoutUpdate
  <2>2. f = ch.update
    BY <1>1, Parts
  <2> QED
    BY <2>1, <2>2
<1>2. CASE ch.update[i] # None
  <2>1. r = [ch EXCEPT !.update[i] = None, !.total = @ - 1]
    BY <1>2 DEF withoutUpdate
  <2>2. /\ r.update = f /\ r.new = ch.new
        /\ r.gone = ch.gone /\ r.total = ch.total - 1
        /\ r = [new |-> r.new, update |-> r.update, gone |-> r.gone, total |-> r.total]
    BY <2>1, Parts DEF Changes
  <2>3. f \in [Instances -> MaybeInfo] /\ With(f) = With(ch.update) \ {i} /\ i \in With(ch.update)
    BY <1>2, Parts, OneEntry
  <2>4. Cardinality(With(f)) = Cardinality(With(ch.update)) - 1 /\ Cardinality(With(ch.update)) > 0
    BY <2>3, Parts, OneMore
  <2> HIDE DEF r, f
  <2>5. Counted(r) /\ r.total \in Nat
    BY <2>2, <2>4, Parts DEF Counted
  <2>6. r \in Changes
    BY <2>2, <2>3, <2>5, Parts DEF Changes
  <2> QED
    BY <2>2, <2>5, <2>6 DEF r, f
<1> QED
  BY <1>1, <1>2

(* It is gone in this cycle.                                               *)
LEMMA WithGone ==
    ASSUME NEW ch \in Changes, Counted(ch), NEW i \in Instances
    PROVE  LET r == withGone(ch, i) IN
           /\ r \in Changes /\ Counted(r)
           /\ r.gone = ch.gone \cup {i} /\ r.new = ch.new /\ r.update = ch.update
<1> DEFINE r == withGone(ch, i)
<1>1. CASE i \in ch.gone
  <2>1. r = ch /\ ch.gone \cup {i} = ch.gone
    BY <1>1 DEF withGone
  <2> QED
    BY <2>1
<1>2. CASE i \notin ch.gone
  <2>1. r = [ch EXCEPT !.gone = @ \cup {i}, !.total = @ + 1]
    BY <1>2 DEF withGone
  <2>2. /\ r.new = ch.new /\ r.update = ch.update
        /\ r.gone = ch.gone \cup {i} /\ r.total = ch.total + 1
        /\ r = [new |-> r.new, update |-> r.update, gone |-> r.gone, total |-> r.total]
    BY <2>1, Parts DEF Changes
  <2>3. Cardinality(ch.gone \cup {i}) = Cardinality(ch.gone) + 1
    BY <1>2, Parts, OneMore
  <2> HIDE DEF r
  <2>4. Counted(r) /\ r.total \in Nat
    BY <2>2, <2>3, Parts DEF Counted
  <2>5. r \in Changes
    BY <2>2, <2>4, Parts DEF Changes
  <2> QED
    BY <2>2, <2>4, <2>5 DEF r
<1> QED
  BY <1>1, <1>2

-----------------------------------------------------------------------------
(* Changes are submitted: the client will show each one, and the rest as   *)
(* before.                                                                 *)

ThrottlerOK ==
    /\ instChanges \in Changes /\ Consistent(instChanges)
    /\ gui \in [Instances -> MaybeInfo] /\ timer \in {"waiting", "over"}

(* An instance is reported as new that is not shown.                       *)
LEMMA SubmitNew ==
    ASSUME ThrottlerOK, NEW i \in Instances, NEW info \in Infos,
           topology_update(instChanges, gui)[i] = None, submitInstanceNew(i, info)
    PROVE  /\ ThrottlerOK' /\ queued' = queued
           /\ \A j \in Instances : topology_update(instChanges', gui')[j] =
                 IF j = i THEN info ELSE topology_update(instChanges, gui)[j]
<1> DEFINE ch == instChanges
<1> DEFINE r == withoutUpdate(ch, i)
<1> DEFINE s == withNew(r, i, info)
<1>1. /\ ch \in Changes /\ Consistent(ch) /\ Counted(ch) /\ gui \in [Instances -> MaybeInfo]
      /\ timer \in {"waiting", "over"}
  BY DEF ThrottlerOK, Consistent
<1>2. info # None /\ None \notin Infos
  BY ThrottlerAssumption
<1>3. ch.update[i] = None /\ ch.new[i] = None /\ (i \in ch.gone \/ gui[i] = None)
  BY DEF topology_update
<1>4. /\ r \in Changes /\ Counted(r)
      /\ r.update = [ch.update EXCEPT ![i] = None] /\ r.new = ch.new /\ r.gone = ch.gone
  BY <1>1, WithoutUpdate
<1>5. r.new[i] = None
  BY <1>3, <1>4
<1> HIDE DEF r
<1>6. /\ s \in Changes /\ Counted(s)
      /\ s.new = [r.new EXCEPT ![i] = info] /\ s.update = r.update /\ s.gone = r.gone
  BY <1>4, <1>5, WithNew
<1> HIDE DEF s
<1>7. /\ s.new = [ch.new EXCEPT ![i] = info] /\ s.update = [ch.update EXCEPT ![i] = None]
      /\ s.gone = ch.gone
  BY <1>4, <1>6
<1>8. Consistent(s)
  BY <1>1, <1>3, <1>6, <1>7, Parts DEF Consistent
<1>9. flushIfFull(s)
  BY DEF submitInstanceNew, s, r
<1>10. /\ instChanges' \in Changes /\ gui' \in [Instances -> MaybeInfo]
       /\ timer' \in {"waiting", "over"} /\ queued' = queued
       /\ Consistent(instChanges)'
       /\ topology_update(instChanges', gui') = topology_update(s, gui)
  BY <1>1, <1>6, <1>8, <1>9, FlushedIfFull
<1>11. \A j \in Instances : topology_update(s, gui)[j] =
            IF j = i THEN info ELSE topology_update(instChanges, gui)[j]
  BY <1>1, <1>2, <1>7, Parts DEF topology_update
<1> QED
  BY <1>10, <1>11 DEF ThrottlerOK

(* An instance is reported as updated.                                     *)
LEMMA SubmitUpdate ==
    ASSUME ThrottlerOK, NEW i \in Instances, NEW info \in Infos, submitInstanceUpdate(i, info)
    PROVE  /\ ThrottlerOK' /\ queued' = queued
           /\ \A j \in Instances : topology_update(instChanges', gui')[j] =
                 IF j = i THEN info ELSE topology_update(instChanges, gui)[j]
<1> DEFINE ch == instChanges
<1>1. /\ ch \in Changes /\ Consistent(ch) /\ Counted(ch) /\ gui \in [Instances -> MaybeInfo]
      /\ timer \in {"waiting", "over"}
  BY DEF ThrottlerOK, Consistent
<1>2. info # None /\ None \notin Infos
  BY ThrottlerAssumption
<1>3. /\ ch.new \in [Instances -> MaybeInfo] /\ ch.update \in [Instances -> MaybeInfo]
      /\ ch.gone \in SUBSET Instances /\ ch.total \in Nat
  BY <1>1, Parts
<1>4. CASE ch.new[i] # None
  <2> DEFINE s == [ch EXCEPT !.new[i] = info]
  <2>1. instChanges' = s /\ timer' = timer /\ queued' = queued /\ gui' = gui
    BY <1>4 DEF submitInstanceUpdate
  <2>2. /\ s.new = [ch.new EXCEPT ![i] = info] /\ s.update = ch.update
        /\ s.gone = ch.gone /\ s.total = ch.total
        /\ s = [new |-> s.new, update |-> s.update, gone |-> s.gone, total |-> s.total]
    BY <1>1 DEF Changes
  <2> HIDE DEF s
  <2>3. s.new \in [Instances -> MaybeInfo] /\ With(s.new) = With(ch.new)
    <3>1. /\ [ch.new EXCEPT ![i] = info] \in [Instances -> MaybeInfo]
          /\ With([ch.new EXCEPT ![i] = info]) = With(ch.new) \cup {i}
      BY <1>3, OneEntry
    <3>2. i \in With(ch.new)
      BY <1>4 DEF With
    <3> QED
      BY <3>1, <3>2, <2>2
  <2>4. s \in Changes
    BY <2>2, <2>3, <1>3 DEF Changes
  <2>5. Counted(s)
    BY <2>2, <2>3, <1>1 DEF Counted
  <2>6. Consistent(instChanges)'
    <3>1. Counted(instChanges)'
      BY <2>1, <2>5 DEF Counted, With
    <3>2. \A j \in Instances : /\ s.new[j] = None \/ s.update[j] = None
                               /\ s.new[j] # None /\ j \notin s.gone => gui[j] = None
      BY <2>2, <1>1, <1>3, <1>4 DEF Consistent
    <3> QED
      BY <3>1, <3>2, <2>1 DEF Consistent
  <2>7. \A j \in Instances : topology_update(s, gui)[j] =
            IF j = i THEN info ELSE topology_update(instChanges, gui)[j]
    BY <2>2, <1>1, <1>2, <1>3, <1>4 DEF topology_update, Consistent
  <2> QED
    BY <2>1, <2>4, <2>6, <2>7, <1>1 DEF ThrottlerOK
<1>5. CASE ch.new[i] = None /\ ch.update[i] # None
  <2> DEFINE s == [ch EXCEPT !.update[i] = info]
  <2>1. instChanges' = s /\ timer' = timer /\ queued' = queued /\ gui' = gui
    BY <1>5 DEF submitInstanceUpdate
  <2>2. /\ s.update = [ch.update EXCEPT ![i] = info] /\ s.new = ch.new
        /\ s.gone = ch.gone /\ s.total = ch.total
        /\ s = [new |-> s.new, update |-> s.update, gone |-> s.gone, total |-> s.total]
    BY <1>1 DEF Changes
  <2> HIDE DEF s
  <2>3. s.update \in [Instances -> MaybeInfo] /\ With(s.update) = With(ch.update)
    <3>1. /\ [ch.update EXCEPT ![i] = info] \in [Instances -> MaybeInfo]
          /\ With([ch.update EXCEPT ![i] = info]) = With(ch.update) \cup {i}
      BY <1>3, OneEntry
    <3>2. i \in With(ch.update)
      BY <1>5 DEF With
    <3> QED
      BY <3>1, <3>2, <2>2
  <2>4. s \in Changes
    BY <2>2, <2>3, <1>3 DEF Changes
  <2>5. Counted(s)
    BY <2>2, <2>3, <1>1 DEF Counted
  <2>6. Consistent(instChanges)'
    <3>1. Counted(instChanges)'
      BY <2>1, <2>5 DEF Counted, With
    <3>2. \A j \in Instances : /\ s.new[j] = None \/ s.update[j] = None
                               /\ s.new[j] # None /\ j \notin s.gone => gui[j] = None
      BY <2>2, <1>1, <1>3, <1>5 DEF Consistent
    <3> QED
      BY <3>1, <3>2, <2>1 DEF Consistent
  <2>7. \A j \in Instances : topology_update(s, gui)[j] =
            IF j = i THEN info ELSE topology_update(instChanges, gui)[j]
    BY <2>2, <1>1, <1>2, <1>3, <1>5 DEF topology_update
  <2> QED
    BY <2>1, <2>4, <2>6, <2>7, <1>1 DEF ThrottlerOK
<1>6. CASE ch.new[i] = None /\ ch.update[i] = None
  <2> DEFINE s == withUpdate(ch, i, info)
  <2>1. flushIfFull(s)
    BY <1>6 DEF submitInstanceUpdate
  <2>2. /\ s \in Changes /\ Counted(s)
        /\ s.update = [ch.update EXCEPT ![i] = info] /\ s.new = ch.new /\ s.gone = ch.gone
    BY <1>1, <1>6, WithUpdate
  <2> HIDE DEF s
  <2>3. Consistent(s)
    BY <2>2, <1>1, <1>3, <1>6 DEF Consistent
  <2>4. /\ instChanges' \in Changes /\ gui' \in [Instances -> MaybeInfo]
        /\ timer' \in {"waiting", "over"} /\ queued' = queued
        /\ Consistent(instChanges)'
        /\ topology_update(instChanges', gui') = topology_update(s, gui)
    BY <1>1, <2>1, <2>2, <2>3, FlushedIfFull
  <2>5. \A j \in Instances : topology_update(s, gui)[j] =
            IF j = i THEN info ELSE topology_update(instChanges, gui)[j]
    BY <2>2, <1>1, <1>2, <1>3, <1>6 DEF topology_update
  <2> QED
    BY <2>4, <2>5 DEF ThrottlerOK
<1> QED
  BY <1>4, <1>5, <1>6

(* An instance is reported as gone: also one that came in this cycle,      *)
(* which was not shown before or is to be removed anyway.                  *)
LEMMA SubmitGone ==
    ASSUME ThrottlerOK, NEW i \in Instances, submitInstanceGone(i)
    PROVE  /\ ThrottlerOK' /\ queued' = queued
           /\ \A j \in Instances : topology_update(instChanges', gui')[j] =
                 IF j = i THEN None ELSE topology_update(instChanges, gui)[j]
<1> DEFINE ch == instChanges
<1>1. /\ ch \in Changes /\ Consistent(ch) /\ Counted(ch) /\ gui \in [Instances -> MaybeInfo]
      /\ timer \in {"waiting", "over"}
  BY DEF ThrottlerOK, Consistent
<1>2. /\ ch.new \in [Instances -> MaybeInfo] /\ ch.update \in [Instances -> MaybeInfo]
      /\ ch.gone \in SUBSET Instances /\ ch.total \in Nat
  BY <1>1, Parts
<1>3. CASE ch.new[i] # None
  <2> DEFINE r == withoutNew(ch, i)
  <2> DEFINE s == withoutUpdate(r, i)
  <2>1. instChanges' = s /\ timer' = timer /\ queued' = queued /\ gui' = gui
    BY <1>3 DEF submitInstanceGone
  <2>2. /\ r \in Changes /\ Counted(r)
        /\ r.new = [ch.new EXCEPT ![i] = None] /\ r.update = ch.update /\ r.gone = ch.gone
    BY <1>1, WithoutNew
  <2> HIDE DEF r
  <2>3. /\ s \in Changes /\ Counted(s)
        /\ s.update = [r.update EXCEPT ![i] = None] /\ s.new = r.new /\ s.gone = r.gone
    BY <2>2, WithoutUpdate
  <2> HIDE DEF s
  <2>4. Consistent(instChanges)'
    <3>1. Counted(instChanges)'
      BY <2>1, <2>3 DEF Counted, With
    <3>2. \A j \in Instances : /\ s.new[j] = None \/ s.update[j] = None
                               /\ s.new[j] # None /\ j \notin s.gone => gui[j] = None
      BY <2>2, <2>3, <1>1, <1>2 DEF Consistent
    <3> QED
      BY <3>1, <3>2, <2>1 DEF Consistent
  <2>5. i \in ch.gone \/ gui[i] = None
    BY <1>1, <1>3 DEF Consistent
  <2>6. \A j \in Instances : topology_update(s, gui)[j] =
            IF j = i THEN None ELSE topology_update(instChanges, gui)[j]
    BY <2>2, <2>3, <2>5, <1>1, <1>2 DEF topology_update
  <2> QED
    BY <2>1, <2>3, <2>4, <2>6, <1>1 DEF ThrottlerOK
<1>4. CASE ch.new[i] = None
  <2> DEFINE r == withoutUpdate(ch, i)
  <2> DEFINE s == withGone(r, i)
  <2>1. flushIfFull(s)
    BY <1>4 DEF submitInstanceGone
  <2>2. /\ r \in Changes /\ Counted(r)
        /\ r.update = [ch.update EXCEPT ![i] = None] /\ r.new = ch.new /\ r.gone = ch.gone
    BY <1>1, WithoutUpdate
  <2> HIDE DEF r
  <2>3. /\ s \in Changes /\ Counted(s)
        /\ s.gone = r.gone \cup {i} /\ s.new = r.new /\ s.update = r.update
    BY <2>2, WithGone
  <2> HIDE DEF s
  <2>4. Consistent(s)
    BY <2>2, <2>3, <1>1, <1>2 DEF Consistent
  <2>5. /\ instChanges' \in Changes /\ gui' \in [Instances -> MaybeInfo]
        /\ timer' \in {"waiting", "over"} /\ queued' = queued
        /\ Consistent(instChanges)'
        /\ topology_update(instChanges', gui') = topology_update(s, gui)
    BY <1>1, <2>1, <2>3, <2>4, FlushedIfFull
  <2>6. \A j \in Instances : topology_update(s, gui)[j] =
            IF j = i THEN None ELSE topology_update(instChanges, gui)[j]
    BY <2>2, <2>3, <1>1, <1>2, <1>4 DEF topology_update
  <2> QED
    BY <2>5, <2>6 DEF ThrottlerOK
<1> QED
  BY <1>3, <1>4

-----------------------------------------------------------------------------
(* What a step does to the work of the threads.                            *)

Rests == work' = work /\ todo' = todo
SlotBegins == work' = work /\ work[Slots] = <<>> /\ todo = <<>>
Treats ==
    /\ treat /\ work[Slots] = <<>> /\ todo # <<>> /\ todo' = todo
    /\ \E s \in Seq(Plain) : work' = [work EXCEPT ![Slots] = Append(s, <<"submit">>)]
Submits ==
    /\ work[Slots] # <<>> /\ Head(work[Slots]) = <<"submit">>
    /\ work' = [work EXCEPT ![Slots] = Tail(work[Slots])] /\ todo' = Tail(todo)
GoesOn ==
    /\ todo' = todo
    /\ \E t \in Threads, s \in Seq(Plain) :
          /\ work[t] # <<>> /\ Head(work[t]) # <<"submit">>
          /\ Head(work[t])[1] = "asyncConnect" => asyncConnect(t)
          /\ work' = [work EXCEPT ![t] = s \o Tail(work[t])]
ClientBegins ==
    /\ todo' = todo
    /\ \E c \in Clients, s \in Seq(Plain) :
          work[c] = <<>> /\ work' = [work EXCEPT ![c] = s]

Kinds == Rests \/ SlotBegins \/ Treats \/ Submits \/ GoesOn \/ ClientBegins

(* Then(), for a step that is not the submission.                          *)
LEMMA ThenIsGoingOn ==
    ASSUME NEW t \in Threads, work \in [Threads -> Seq(Step)], NEW x \in Plain, NEW s \in Seq(Plain),
           Does(t, x), Then(t, s), todo' = todo, x[1] = "asyncConnect" => asyncConnect(t)
    PROVE  Kinds
<1>1. /\ work[t] # <<>> /\ Head(work[t]) # <<"submit">>
      /\ Head(work[t])[1] = "asyncConnect" => asyncConnect(t)
  BY DEF Does, Plain
<1>2. work' = [work EXCEPT ![t] = s \o Tail(work[t])]
  BY DEF Then
<1> QED
  BY <1>1, <1>2 DEF Kinds, GoesOn

(* Every step is of one of these kinds.                                    *)
LEMMA StepKinds ==
    ASSUME TypeOK, [Next]_vars
    PROVE  Kinds
<1>0. work \in [Threads -> Seq(Step)] /\ Slots \in Threads /\ Clients \subseteq Threads
  BY DEF TypeOK, MonitoringTypeOK, Threads
<1>1. ASSUME UNCHANGED work, UNCHANGED todo PROVE Kinds
  BY <1>1 DEF Kinds, Rests
<1>2. CASE slotCalled
  <2>1. work' = work /\ work[Slots] = <<>>
    BY <1>2 DEF slotCalled
  <2>2. todo = <<>>
    BY <1>2 DEF slotCalled, _slotInstanceGone, _slotInstanceUpdated, _slotInstanceNew, Called
  <2> QED
    BY <2>1, <2>2 DEF Kinds, SlotBegins
<1>3. CASE throttlerCalled
  BY <1>3, <1>1 DEF throttlerCalled, monitoring
<1>4. ASSUME NEW c \in Clients,
             \/ registerConnect(c) \/ onError(c) \/ onGetDeviceSchema(c)
             \/ onStartMonitoringDevice(c) \/ onStopMonitoringDevice(c)
      PROVE Kinds
  <2>1. Message(c)
    BY <1>4 DEF registerConnect, onError, onGetDeviceSchema, onStartMonitoringDevice,
                onStopMonitoringDevice
  <2>2. work[c] = <<>> /\ todo' = todo
    BY <2>1 DEF Message, topology
  <2>3. ASSUME NEW s \in Seq(Plain), work' = [work EXCEPT ![c] = s] PROVE Kinds
    BY <2>2, <2>3 DEF Kinds, ClientBegins
  <2>4. CASE registerConnect(c)
    BY <2>4, <2>2, <1>1 DEF registerConnect
  <2>5. ASSUME NEW b \in BOOLEAN, Leave(c, b) PROVE Kinds
    <3>1. CASE b
      BY <3>1, <2>3, <2>5, Plans DEF Leave
    <3>2. CASE ~b
      BY <3>2, <2>2, <2>5, <1>1 DEF Leave
    <3> QED
      BY <3>1, <3>2
  <2>6. CASE onError(c)
    <3>1. Leave(c, c \in visible /\ OnlyOne(c)) /\ (c \in visible /\ OnlyOne(c)) \in BOOLEAN
      BY <2>6 DEF onError
    <3> QED
      BY <3>1, <2>5
  <2>7. CASE onStopMonitoringDevice(c)
    <3>1. Leave(c, OnlyOne(c)) /\ OnlyOne(c) \in BOOLEAN
      BY <2>7 DEF onStopMonitoringDevice, OnlyOne
    <3> QED
      BY <3>1, <2>5
  <2>8. CASE onGetDeviceSchema(c)
    BY <2>8, <2>3, Plans, PlainSteps DEF onGetDeviceSchema
  <2>9. CASE onStartMonitoringDevice(c)
    <3>1. CASE visible # {}
      <4>1. work' = [work EXCEPT ![c] = <<<<"getConfiguration">>>>]
        BY <2>9, <3>1 DEF onStartMonitoringDevice
      <4> QED
        BY <4>1, <2>3, Plans, PlainSteps
    <3>2. CASE visible = {}
      <4>1. work' = [work EXCEPT ![c] = Append(Register, <<"getConfiguration">>)]
        BY <2>9, <3>2 DEF onStartMonitoringDevice
      <4> QED
        BY <4>1, <2>3, Plans
    <3> QED
      BY <3>1, <3>2
  <2> QED
    BY <1>4, <2>4, <2>6, <2>7, <2>8, <2>9
<1>5. CASE deviceLife
  BY <1>5, <1>1 DEF deviceLife, deviceStarts, deviceEnds, topology
<1>6. CASE treat
  <2>1. todo # <<>> /\ work[Slots] = <<>> /\ todo' = todo
    BY <1>6 DEF treat
  <2>2. \A s \in Plain : <<s>> \in Seq(Plain)
    BY Plans
  <2>3. PICK s \in Seq(Plain) : work' = [work EXCEPT ![Slots] = Append(s, <<"submit">>)]
    <3>1. CASE Head(todo).id # Device \/ Head(todo).what = "update"
      <4>1. work' = [work EXCEPT ![Slots] = <<<<"submit">>>>]
        BY <1>6, <3>1 DEF treat
      <4>2. <<<<"submit">>>> = Append(<<>>, <<"submit">>)
        OBVIOUS
      <4> QED
        BY <4>1, <4>2, Plans
    <3>2. CASE Head(todo).id = Device /\ Head(todo).what = "gone"
      <4>1. work' = [work EXCEPT ![Slots] = <<<<"goneHandler">>, <<"submit">>>>]
        BY <1>6, <3>2 DEF treat
      <4>2. <<<<"goneHandler">>, <<"submit">>>> = Append(<<<<"goneHandler">>>>, <<"submit">>)
        OBVIOUS
      <4> QED
        BY <4>1, <4>2, <2>2, PlainSteps
    <3>3. CASE Head(todo).id = Device /\ Head(todo).what = "new"
      <4>1. work' = [work EXCEPT ![Slots] = Resurrect \o <<<<"newHandler">>, <<"submit">>>>]
        BY <1>6, <3>3 DEF treat
      <4>2. Resurrect \o <<<<"newHandler">>, <<"submit">>>> =
               Append(Resurrect \o <<<<"newHandler">>>>, <<"submit">>)
        BY Plans DEF Resurrect
      <4>3. Resurrect \o <<<<"newHandler">>>> \in Seq(Plain)
        BY Plans, <2>2, PlainSteps
      <4> QED
        BY <4>1, <4>2, <4>3
    <3>4. Head(todo).what \in {"new", "update", "gone"}
      <4>1. todo \in Seq(Change)
        BY DEF TypeOK, TopologyTypeOK
      <4>2. Head(todo) \in Change
        BY <4>1, <2>1
      <4> QED
        BY <4>2 DEF Change
    <3> QED
      BY <3>1, <3>2, <3>3, <3>4
  <2> QED
    BY <1>6, <2>1, <2>3 DEF Kinds, Treats
<1>7. CASE instanceNewHandler
  <2>1. todo' = todo /\ Does(Slots, <<"newHandler">>) /\ (Then(Slots, Register) \/ Then(Slots, <<>>))
    BY <1>7 DEF instanceNewHandler, topology
  <2> QED
    BY <2>1, <1>0, Plans, PlainSteps, ThenIsGoingOn
<1>8. CASE instanceGoneHandler
  <2>1. todo' = todo /\ Does(Slots, <<"goneHandler">>) /\ (Then(Slots, Unregister) \/ Then(Slots, <<>>))
    BY <1>8 DEF instanceGoneHandler, topology
  <2> QED
    BY <2>1, <1>0, Plans, PlainSteps, ThenIsGoingOn
<1>9. CASE submitChange
  <2>1. Does(Slots, <<"submit">>) /\ Then(Slots, <<>>) /\ todo' = Tail(todo)
    BY <1>9 DEF submitChange, submit
  <2>2. <<>> \o Tail(work[Slots]) = Tail(work[Slots])
    BY <1>0, <2>1 DEF Does
  <2> QED
    BY <2>1, <2>2 DEF Kinds, Submits, Does, Then
<1>10. CASE threadStep
  <2>1. PICK t \in Threads :
           \/ connectAndRequest(t) \/ getDeviceSchemaNoWait(t) \/ asyncConnect(t)
           \/ immortalize(t) \/ buryZombie(t) \/ mortalize(t)
    BY <1>10 DEF threadStep
  <2>2. todo' = todo
    BY <1>10 DEF threadStep, topology
  <2>3. ASSUME NEW h \in {"configuration", "schema"}, Does(t, <<"stayConnected", h>>), stayConnected(t, h)
        PROVE Kinds
    <3>1. <<"stayConnected", h>> \in Plain /\ <<"asyncConnect", h>> \in Plain
      BY PlainSteps
    <3>2. <<<<"asyncConnect", h>>>> \in Seq(Plain) /\ <<>> \in Seq(Plain)
      BY <3>1, Plans
    <3>3. Then(t, <<<<"asyncConnect", h>>>>) \/ Then(t, <<>>)
      BY <2>3 DEF stayConnected
    <3> QED
      BY <3>1, <3>2, <3>3, <2>2, <2>3, <1>0, ThenIsGoingOn
  <2>4. CASE connectAndRequest(t)
    BY <2>4, <2>3 DEF connectAndRequest
  <2>5. CASE getDeviceSchemaNoWait(t)
    BY <2>5, <2>3 DEF getDeviceSchemaNoWait
  <2>6. ASSUME NEW x \in Plain, Does(t, x), Then(t, <<>>), x[1] = "asyncConnect" => asyncConnect(t)
        PROVE  Kinds
    BY <2>6, <2>2, <1>0, Plans, ThenIsGoingOn
  <2>7. CASE asyncConnect(t)
    BY <2>7, <2>6, PlainSteps DEF asyncConnect
  <2>8. CASE immortalize(t)
    BY <2>8, <2>6, PlainSteps DEF immortalize
  <2>9. CASE buryZombie(t)
    BY <2>9, <2>6, PlainSteps DEF buryZombie
  <2>10. CASE mortalize(t)
    BY <2>10, <2>6, PlainSteps DEF mortalize
  <2> QED
    BY <2>1, <2>4, <2>5, <2>7, <2>8, <2>9, <2>10
<1>11. ASSUME NEW c \in Clients, onGetDeviceConfiguration(c) PROVE Kinds
  <2>1. /\ todo' = todo /\ (Does(c, <<"getConfiguration">>) \/ Does(c, <<"answer">>))
        /\ \/ Then(c, <<>>) \/ Then(c, <<<<"stayConnected", "configuration">>>>)
           \/ Then(c, <<<<"stayConnected", "schema">>, <<"answer">>>>)
    BY <1>11 DEF onGetDeviceConfiguration, topology
  <2>2. <<<<"stayConnected", "configuration">>>> \in Seq(Plain)
    BY Plans, PlainSteps
  <2> QED
    BY <2>1, <2>2, <1>0, Plans, PlainSteps, ThenIsGoingOn
<1>12. CASE cycle
  BY <1>12, <1>1 DEF cycle, topology, monitoring
<1>13. CASE ageing
  BY <1>13, <1>1 DEF ageing, age, topology
<1>14. CASE answer
  BY <1>14, <1>1 DEF answer, brokerAnswers, topology
<1>15. CASE configuration
  BY <1>15, <1>1 DEF configuration, _slotChanged
<1>16. CASE sendSignalsChanged
  BY <1>16, <1>1 DEF sendSignalsChanged, topology
<1>17. CASE UNCHANGED vars
  BY <1>17, <1>1 DEF vars, topology, monitoring
<1> QED
  BY <1>2, <1>3, <1>4, <1>5, <1>6, <1>7, <1>8, <1>9, <1>10, <1>11, <1>12, <1>13, <1>14,
     <1>15, <1>16, <1>17 DEF Next, Messages, Slot, Thread

(* Work that ends with a submission, and work that has nothing else.       *)
LEMMA SubmitIsLast ==
    ASSUME NEW w \in Seq(Step)
    PROVE  /\ Ends(w) /\ w # <<>> /\ Head(w) = <<"submit">> => Tail(w) = <<>>
           /\ w \in Seq(Plain) =>
                 /\ Append(w, <<"submit">>) \in Seq(Step) /\ Append(w, <<"submit">>) # <<>>
                 /\ Ends(Append(w, <<"submit">>))
<1>1. ASSUME Ends(w), w # <<>>, Head(w) = <<"submit">> PROVE Tail(w) = <<>>
  <2>1. Len(w) \in Nat /\ Len(w) >= 1 /\ Head(w) = w[1]
    BY <1>1
  <2>2. \A k \in 1 .. Len(w) - 1 : k # 1
    BY <1>1, <2>1 DEF Ends
  <2>3. ASSUME NEW n \in Nat, n >= 1, \A k \in 1 .. n - 1 : k # 1 PROVE n = 1
    <3>1. ~(n >= 2)
      BY <2>3
    <3> QED
      BY <3>1, <2>3
  <2>4. Len(w) = 1
    BY <2>1, <2>2, <2>3
  <2>5. Tail(w) \in Seq(Step) /\ Len(Tail(w)) = 0
    BY <2>4, <1>1
  <2> QED
    BY <2>5, EmptySeq
<1>2. ASSUME w \in Seq(Plain)
      PROVE  /\ Append(w, <<"submit">>) \in Seq(Step) /\ Append(w, <<"submit">>) # <<>>
             /\ Ends(Append(w, <<"submit">>))
  <2> DEFINE x == <<"submit">>
  <2> DEFINE v == Append(w, x)
  <2>1. x \in Step
    BY PlainSteps
  <2> HIDE DEF x
  <2>2. v \in Seq(Step) /\ Len(v) = Len(w) + 1 /\ Len(w) \in Nat
    BY <2>1
  <2>3. v[Len(w) + 1] = x
    BY <2>1
  <2>4. \A k \in 1 .. Len(w) : v[k] = w[k] /\ w[k] \in Plain
    BY <2>1, <1>2
  <2> HIDE DEF v
  <2>5. v # <<>> /\ Len(v) - 1 = Len(w)
    BY <2>2
  <2>6. Ends(v)
    BY <2>2, <2>3, <2>4, <2>5 DEF Ends, Plain, x
  <2> QED
    BY <2>2, <2>5, <2>6 DEF v, x
<1> QED
  BY <1>1, <1>2

(* The work of the threads is well-formed after each step.                 *)
LEMMA WorkStep ==
    ASSUME TypeOK, WorkInv, [Next]_vars
    PROVE  /\ work' \in [Threads -> Seq(Step)] /\ WorkInv'
           /\ Submits => work[Slots] # <<>> /\ work'[Slots] = <<>> /\ todo # <<>>
           /\ Rests \/ GoesOn \/ ClientBegins =>
                 (work'[Slots] = <<>> <=> work[Slots] = <<>>)
           /\ Treats => work'[Slots] # <<>>
<1>0. /\ work \in [Threads -> Seq(Step)] /\ Slots \in Threads /\ Clients \subseteq Threads
      /\ Slots \notin Clients /\ Threads = Clients \cup {Slots}
  BY MonitoringAssumption DEF TypeOK, MonitoringTypeOK, Threads
<1>1. Kinds
  BY StepKinds
<1>2. /\ Ends(work[Slots]) /\ (todo = <<>> => work[Slots] = <<>>)
      /\ \A c \in Clients : \A k \in 1 .. Len(work[c]) : work[c][k] # <<"submit">>
  BY DEF WorkInv, Ends
<1>3. ASSUME work' \in [Threads -> Seq(Step)], Ends(work'[Slots]), todo' = <<>> => work'[Slots] = <<>>,
             \A c \in Clients : \A k \in 1 .. Len(work'[c]) : work'[c][k] # <<"submit">>
      PROVE work' \in [Threads -> Seq(Step)] /\ WorkInv'
  BY <1>3 DEF WorkInv, Ends
<1>4. ASSUME Rests \/ SlotBegins
      PROVE  work' \in [Threads -> Seq(Step)] /\ WorkInv'
  <2>1. work' = work /\ (todo' = <<>> => work[Slots] = <<>>)
    BY <1>4, <1>2 DEF Rests, SlotBegins
  <2>2. work' \in [Threads -> Seq(Step)] /\ Ends(work'[Slots])
    BY <2>1, <1>0, <1>2
  <2>3. \A c \in Clients : \A k \in 1 .. Len(work'[c]) : work'[c][k] # <<"submit">>
    BY <2>1, <1>2
  <2> QED
    BY <2>1, <2>2, <2>3, <1>3
<1>5. ASSUME Treats
      PROVE  work' \in [Threads -> Seq(Step)] /\ WorkInv' /\ work'[Slots] # <<>>
  <2>1. PICK s \in Seq(Plain) : work' = [work EXCEPT ![Slots] = Append(s, <<"submit">>)]
    BY <1>5 DEF Treats
  <2> DEFINE v == Append(s, <<"submit">>)
  <2>2. s \in Seq(Step)
    BY PlainSteps
  <2>3. v \in Seq(Step) /\ v # <<>> /\ Ends(v)
    BY <2>2, SubmitIsLast
  <2> HIDE DEF v
  <2>5. work' = [work EXCEPT ![Slots] = v] /\ todo' # <<>>
    BY <2>1, <1>5 DEF v, Treats
  <2> QED
    BY <2>3, <2>5, <1>0, <1>2, <1>3
<1>6. ASSUME Submits
      PROVE  /\ work' \in [Threads -> Seq(Step)] /\ WorkInv'
             /\ work[Slots] # <<>> /\ work'[Slots] = <<>> /\ todo # <<>>
  <2>1. work[Slots] # <<>> /\ Head(work[Slots]) = <<"submit">> /\ todo # <<>>
        /\ work' = [work EXCEPT ![Slots] = Tail(work[Slots])]
    BY <1>6, <1>2 DEF Submits
  <2>2. work[Slots] \in Seq(Step)
    BY <1>0
  <2>4. Tail(work[Slots]) = <<>>
    BY <2>1, <2>2, <1>2, SubmitIsLast
  <2>5. work' = [work EXCEPT ![Slots] = <<>>]
    BY <2>1, <2>4
  <2>6. Ends(<<>>) /\ <<>> \in Seq(Step)
    BY DEF Ends
  <2> QED
    BY <2>1, <2>5, <2>6, <1>0, <1>2, <1>3
<1>7. ASSUME GoesOn
      PROVE  /\ work' \in [Threads -> Seq(Step)] /\ WorkInv'
             /\ work'[Slots] = <<>> <=> work[Slots] = <<>>
  <2>1. PICK t \in Threads, s \in Seq(Plain) :
           /\ work[t] # <<>> /\ Head(work[t]) # <<"submit">>
           /\ work' = [work EXCEPT ![t] = s \o Tail(work[t])]
    BY <1>7 DEF GoesOn
  <2> DEFINE v == s \o Tail(work[t])
  <2>2. todo' = todo /\ work[t] \in Seq(Step)
    BY <1>7, <1>0 DEF GoesOn
  <2>3. /\ v \in Seq(Step)
        /\ Ends(work[t]) => Ends(v) /\ v # <<>>
        /\ (\A k \in 1 .. Len(work[t]) : work[t][k] # <<"submit">>)
                  => \A k \in 1 .. Len(v) : v[k] # <<"submit">>
    BY <2>1, <2>2, ThenGoesOn
  <2>4. work' = [work EXCEPT ![t] = v]
    BY <2>1
  <2> HIDE DEF v
  <2>5. CASE t = Slots
    <3>1. Ends(v) /\ v # <<>> /\ todo # <<>>
      BY <2>1, <2>3, <2>5, <1>2
    <3>2. /\ work' \in [Threads -> Seq(Step)] /\ work'[Slots] = v
          /\ \A c \in Clients : work'[c] = work[c]
      BY <2>3, <2>4, <2>5, <1>0
    <3>3. work' \in [Threads -> Seq(Step)] /\ WorkInv'
      BY <3>1, <3>2, <2>2, <1>2, <1>3
    <3> QED
      BY <3>1, <3>2, <3>3, <2>1, <2>5
  <2>6. CASE t # Slots
    <3>1. t \in Clients
      BY <2>6, <1>0
    <3>2. \A k \in 1 .. Len(v) : v[k] # <<"submit">>
      BY <3>1, <2>3, <1>2
    <3>3. work'[Slots] = work[Slots] /\ work' \in [Threads -> Seq(Step)]
      BY <2>3, <2>4, <2>6, <1>0
    <3>4. \A c \in Clients : \A k \in 1 .. Len(work'[c]) : work'[c][k] # <<"submit">>
      BY <3>1, <3>2, <2>4, <1>0, <1>2
    <3> QED
      BY <3>3, <3>4, <2>2, <1>2, <1>3
  <2> QED
    BY <2>5, <2>6
<1>8. ASSUME ClientBegins
      PROVE  /\ work' \in [Threads -> Seq(Step)] /\ WorkInv'
             /\ work'[Slots] = <<>> <=> work[Slots] = <<>>
  <2>1. PICK c \in Clients, s \in Seq(Plain) : work' = [work EXCEPT ![c] = s]
    BY <1>8 DEF ClientBegins
  <2>2. s \in Seq(Step) /\ \A k \in 1 .. Len(s) : s[k] # <<"submit">>
    <3>1. s \in Seq(Step) /\ \A k \in 1 .. Len(s) : s[k] \in Plain
      BY PlainSteps
    <3> QED
      BY <3>1 DEF Plain
  <2>3. work'[Slots] = work[Slots] /\ work' \in [Threads -> Seq(Step)] /\ todo' = todo
    BY <2>1, <2>2, <1>0, <1>8 DEF ClientBegins
  <2>4. \A b \in Clients : \A k \in 1 .. Len(work'[b]) : work'[b][k] # <<"submit">>
    BY <2>1, <2>2, <1>0, <1>2
  <2> QED
    BY <2>3, <2>4, <1>2, <1>3
<1>9. Rests => (work'[Slots] = <<>> <=> work[Slots] = <<>>)
  BY DEF Rests
<1> QED
  BY <1>1, <1>4, <1>5, <1>6, <1>7, <1>8, <1>9 DEF Kinds

-----------------------------------------------------------------------------
(* The changes that a slot has to treat.                                   *)

(* An instance that is gone comes last, after all its devices.             *)
LEMMA GoneInOrder ==
    ASSUME NEW i \in Instances, NEW g \in GoneChanges(i)
    PROVE  /\ g \in Seq(Change) /\ Len(g) \in Nat \ {0}
           /\ g[Len(g)].id = i
           /\ \A k \in 1 .. Len(g) : g[k].what = "gone" /\ g[k].id \in {i} \cup devicesOfServer(i)
           /\ \A j \in {i} \cup devicesOfServer(i) : \E k \in 1 .. Len(g) : g[k].id = j
<1> DEFINE D == devicesOfServer(i)
<1>1. D \in SUBSET Instances
  BY DEF devicesOfServer
<1> DEFINE n == Cardinality(D)
<1>2. IsFiniteSet(D) /\ n \in Nat
  BY <1>1, ThrottlerAssumption, FS_Subset, FS_CardinalityType
<1>3. PICK d \in SetToSeqs(D) :
         g = [k \in DOMAIN Append(d, i) |-> GoneChange(Append(d, i)[k])]
  BY DEF GoneChanges
<1> HIDE DEF D
<1>4. d \in [1 .. n -> D] /\ \A k, l \in 1 .. n : k # l => d[k] # d[l]
  BY DEF SetToSeqs
<1>5. \A j \in D : \E k \in 1 .. n : d[k] = j
  <2>1. d \in Injection(1 .. n, D)
    BY <1>4 DEF Injection, IsInjective
  <2>2. IsFiniteSet(1 .. n) /\ Cardinality(1 .. n) = n
    BY <1>2, FS_Interval
  <2>3. d \in Surjection(1 .. n, D)
    BY <2>1, <2>2, <1>2, FS_Injection
  <2> QED
    BY <2>3 DEF Surjection
<1> HIDE DEF n
<1>6. d \in Seq(Instances) /\ Len(d) = n
  BY <1>1, <1>2, <1>4
<1> DEFINE s == Append(d, i)
<1>7. /\ s \in Seq(Instances) /\ Len(s) = n + 1 /\ s[n + 1] = i
      /\ \A k \in 1 .. n : s[k] = d[k]
  BY <1>6
<1>8. DOMAIN s = 1 .. n + 1
  BY <1>7
<1> HIDE DEF s
<1>9. /\ DOMAIN g = 1 .. n + 1
      /\ \A k \in 1 .. n + 1 : g[k] = GoneChange(s[k])
  BY <1>3, <1>8 DEF s
<1>10. \A k \in 1 .. n + 1 : s[k] \in {i} \cup D /\ s[k] \in Instances
  <2>1. \A k \in 1 .. n + 1 : k \in 1 .. n \/ k = n + 1
    BY <1>2
  <2> QED
    BY <2>1, <1>1, <1>4, <1>7
<1>11. \A k \in 1 .. n + 1 : /\ g[k].what = "gone" /\ g[k].id = s[k]
                             /\ g[k] \in Change
  BY <1>9, <1>10 DEF GoneChange, Change, MaybeInfo
<1>12. g \in Seq(Change) /\ Len(g) = n + 1 /\ n + 1 \in Nat \ {0}
  <2>1. g = [k \in 1 .. n + 1 |-> g[k]]
    BY <1>3, <1>8, <1>9 DEF s
  <2>2. n + 1 \in Nat
    BY <1>2
  <2>3. g \in [1 .. n + 1 -> Change]
    BY <2>1, <1>11
  <2>4. g \in Seq(Change)
    BY <2>2, <2>3
  <2>5. Len(g) = n + 1
    BY <2>2, <2>4, <1>9
  <2> QED
    BY <2>4, <2>5, <1>2
<1>13. ASSUME NEW j \in {i} \cup D PROVE \E k \in 1 .. n + 1 : g[k].id = j
  <2>1. CASE j = i
    <3>1. n + 1 \in 1 .. n + 1
      BY <1>2
    <3> QED
      BY <3>1, <2>1, <1>7, <1>11
  <2>2. CASE j \in D
    <3>1. PICK k \in 1 .. n : d[k] = j
      BY <2>2, <1>5
    <3>2. k \in 1 .. n + 1
      BY <1>2
    <3> QED
      BY <3>1, <3>2, <1>7, <1>11
  <2> QED
    BY <2>1, <2>2
<1>14. g[n + 1].id = i
  <2>1. n + 1 \in 1 .. n + 1
    BY <1>2
  <2> QED
    BY <2>1, <1>7, <1>11
<1> QED
  BY <1>10, <1>11, <1>12, <1>13, <1>14 DEF D

(* With a "new" behind them.                                               *)
LEMMA GoneThenNew ==
    ASSUME NEW i \in Instances, NEW g \in GoneChanges(i), NEW info \in Infos
    PROVE  LET t == Append(g, [what |-> "new", id |-> i, info |-> info]) IN
           /\ t \in Seq(Change) /\ Len(t) = Len(g) + 1 /\ Len(g) \in Nat \ {0}
           /\ t[Len(t)] = [what |-> "new", id |-> i, info |-> info]
           /\ \A k \in 1 .. Len(g) : t[k] = g[k]
<1> DEFINE c == [what |-> "new", id |-> i, info |-> info]
<1>1. c \in Change
  BY DEF Change, MaybeInfo
<1> HIDE DEF c
<1>2. g \in Seq(Change) /\ Len(g) \in Nat \ {0}
  BY GoneInOrder
<1>3. Append(g, c) \in Seq(Change) /\ Len(Append(g, c)) = Len(g) + 1
  BY <1>1, <1>2
<1>4. Append(g, c)[Len(g) + 1] = c /\ \A k \in 1 .. Len(g) : Append(g, c)[k] = g[k]
  BY <1>1, <1>2
<1> QED
  BY <1>2, <1>3, <1>4 DEF c

(* What is left of the description when an instance is gone.               *)
LEMMA WithoutInstance ==
    ASSUME NEW i \in Instances, listed \in [Instances -> MaybeInfo \cup {Bare}]
    PROVE  /\ Without(i) \in [Instances -> MaybeInfo \cup {Bare}]
           /\ \A j \in Instances : Without(i)[j] =
                 IF j \in {i} \cup devicesOfServer(i) THEN None ELSE listed[j]
BY DEF Without, MaybeInfo

(* The types of the description and of the changes.                        *)
LEMMA TopologyTypes ==
    ASSUME TypeOK, WorkInv, [Next]_vars
    PROVE  /\ listed' \in [Instances -> MaybeInfo \cup {Bare}] /\ todo' \in Seq(Change)
           /\ setup' = setup /\ calls' \in 0 .. setup'.calls
<1>0. /\ listed \in [Instances -> MaybeInfo \cup {Bare}] /\ todo \in Seq(Change)
      /\ setup \in Setups /\ calls \in 0 .. setup.calls
      /\ setup.calls \in Nat /\ setup.instances \subseteq Instances /\ setup.infos \subseteq Infos
  BY SystemAssumption DEF TypeOK, TopologyTypeOK
<1>1. ASSUME UNCHANGED <<listed, todo, calls, setup>>
      PROVE  /\ listed' \in [Instances -> MaybeInfo \cup {Bare}] /\ todo' \in Seq(Change)
             /\ setup' = setup /\ calls' \in 0 .. setup'.calls
  BY <1>0, <1>1
<1>2. CASE slotCalled
  <2>1. PICK i \in setup.instances, info \in setup.infos :
           _slotInstanceGone(i) \/ _slotInstanceUpdated(i, info) \/ _slotInstanceNew(i, info)
    BY <1>2 DEF slotCalled
  <2>2. i \in Instances /\ info \in Infos /\ info \in MaybeInfo
    BY <1>0 DEF MaybeInfo
  <2>3. setup' = setup
    BY <1>2 DEF slotCalled
  <2>4. calls' \in 0 .. setup'.calls
    <3>1. calls < setup.calls /\ calls' = calls + 1
      BY <2>1 DEF _slotInstanceGone, _slotInstanceUpdated, _slotInstanceNew, Called
    <3> QED
      BY <3>1, <2>3, <1>0
  <2>5. ASSUME NEW x \in {"new", "update"} PROVE <<[what |-> x, id |-> i, info |-> info]>> \in Seq(Change)
    <3>1. [what |-> x, id |-> i, info |-> info] \in Change
      BY <2>2 DEF Change
    <3> QED
      BY <3>1
  <2>6. CASE _slotInstanceGone(i)
    <3>1. CASE listed[i] = None
      BY <3>1, <2>3, <2>4, <2>6, <1>0 DEF _slotInstanceGone
    <3>2. CASE listed[i] # None
      <4>1. listed' = Without(i) /\ todo' \in GoneChanges(i)
        BY <3>2, <2>6 DEF _slotInstanceGone
      <4> QED
        BY <4>1, <2>2, <2>3, <2>4, <1>0, GoneInOrder, WithoutInstance
    <3> QED
      BY <3>1, <3>2
  <2>7. CASE _slotInstanceUpdated(i, info)
    <3>1. CASE listed[i] = None
      BY <3>1, <2>3, <2>4, <2>7, <1>0 DEF _slotInstanceUpdated
    <3>2. CASE listed[i] # None
      <4>1. /\ listed' = [listed EXCEPT ![i] = info]
            /\ todo' = <<[what |-> "update", id |-> i, info |-> info]>>
        BY <3>2, <2>7 DEF _slotInstanceUpdated
      <4>2. listed' \in [Instances -> MaybeInfo \cup {Bare}]
        BY <4>1, <2>2, <1>0
      <4>3. todo' \in Seq(Change)
        BY <4>1, <2>5
      <4> QED
        BY <4>2, <4>3, <2>3, <2>4
    <3> QED
      BY <3>1, <3>2
  <2>8. CASE _slotInstanceNew(i, info)
    <3>1. CASE listed[i] = None
      <4>1. listed' = listed /\ todo' = <<[what |-> "new", id |-> i, info |-> info]>>
        BY <3>1, <2>8 DEF _slotInstanceNew
      <4>2. todo' \in Seq(Change)
        BY <4>1, <2>5
      <4> QED
        BY <4>1, <4>2, <2>3, <2>4, <1>0
    <3>2. CASE listed[i] # None
      <4>1. PICK g \in GoneChanges(i) :
               /\ listed' = Without(i)
               /\ todo' = Append(g, [what |-> "new", id |-> i, info |-> info])
        BY <3>2, <2>8 DEF _slotInstanceNew
      <4>2. todo' \in Seq(Change)
        BY <4>1, <2>2, GoneThenNew
      <4> QED
        BY <4>1, <4>2, <2>2, <2>3, <2>4, <1>0, WithoutInstance
    <3> QED
      BY <3>1, <3>2
  <2> QED
    BY <2>1, <2>6, <2>7, <2>8
<1>3. CASE throttlerCalled
  <2>1. /\ listed' = listed /\ todo' = todo /\ setup' = setup
        /\ calls < setup.calls /\ calls' = calls + 1
    BY <1>3 DEF throttlerCalled
  <2> QED
    BY <2>1, <1>0
<1>4. ASSUME NEW c \in Clients,
             \/ registerConnect(c) \/ onError(c) \/ onGetDeviceSchema(c)
             \/ onStartMonitoringDevice(c) \/ onStopMonitoringDevice(c)
      PROVE UNCHANGED <<listed, todo, calls, setup>>
  <2>1. Message(c)
    BY <1>4 DEF registerConnect, onError, onGetDeviceSchema, onStartMonitoringDevice,
                onStopMonitoringDevice
  <2> QED
    BY <2>1 DEF Message, topology
<1>5. CASE deviceLife
  BY <1>5, <1>1 DEF deviceLife, topology
<1>6. CASE treat
  <2>1. todo' = todo /\ calls' = calls /\ setup' = setup /\ todo # <<>>
    BY <1>6 DEF treat
  <2>2. CASE Head(todo).what = "new"
    <3>1. listed' = [listed EXCEPT ![Head(todo).id] = Head(todo).info]
      BY <1>6, <2>2 DEF treat, mergeEntry
    <3>2. Head(todo) \in Change
      BY <2>1, <1>0
    <3>3. Head(todo).id \in Instances /\ Head(todo).info \in MaybeInfo
      BY <3>2 DEF Change
    <3>4. listed' \in [Instances -> MaybeInfo \cup {Bare}]
      BY <3>1, <3>3, <1>0
    <3> QED
      BY <3>4, <2>1, <1>0
  <2>3. CASE Head(todo).what # "new"
    <3>1. listed' = listed
      BY <1>6, <2>3 DEF treat
    <3> QED
      BY <3>1, <2>1, <1>0
  <2> QED
    BY <2>2, <2>3
<1>7. CASE instanceNewHandler
  BY <1>7, <1>1 DEF instanceNewHandler, topology
<1>8. CASE instanceGoneHandler
  BY <1>8, <1>1 DEF instanceGoneHandler, topology
<1>9. CASE submitChange
  <2>1. listed' = listed /\ calls' = calls /\ setup' = setup /\ todo' = Tail(todo)
    BY <1>9 DEF submitChange, submit
  <2>2. todo # <<>>
    <3>1. work[Slots] # <<>>
      BY <1>9 DEF submitChange, Does
    <3> QED
      BY <3>1 DEF WorkInv
  <2>3. todo' \in Seq(Change)
    BY <2>1, <2>2, <1>0
  <2> QED
    BY <2>1, <2>3, <1>0
<1>10. CASE threadStep
  BY <1>10, <1>1 DEF threadStep, topology
<1>11. ASSUME NEW c \in Clients, onGetDeviceConfiguration(c) PROVE UNCHANGED <<listed, todo, calls, setup>>
  BY <1>11 DEF onGetDeviceConfiguration, topology
<1>12. CASE cycle
  BY <1>12, <1>1 DEF cycle, topology
<1>13. CASE ageing
  BY <1>13, <1>1 DEF ageing, topology
<1>14. CASE answer
  BY <1>14, <1>1 DEF answer, topology
<1>15. CASE configuration
  <2>1. /\ todo' = todo /\ calls' = calls /\ setup' = setup
        /\ listed' = listed \/ listed' = [listed EXCEPT ![Device] = Bare]
    BY <1>15 DEF configuration, _slotChanged
  <2>2. listed' \in [Instances -> MaybeInfo \cup {Bare}]
    BY <2>1, <1>0
  <2> QED
    BY <2>1, <2>2, <1>0
<1>16. CASE sendSignalsChanged
  BY <1>16, <1>1 DEF sendSignalsChanged, topology
<1>17. CASE UNCHANGED vars
  BY <1>17, <1>1 DEF vars, topology
<1> QED
  BY <1>1, <1>2, <1>3, <1>4, <1>5, <1>6, <1>7, <1>8, <1>9, <1>10, <1>11, <1>12, <1>13, <1>14,
     <1>15, <1>16, <1>17 DEF Next, Messages, Slot, Thread

-----------------------------------------------------------------------------
(* The client and the description.                                         *)

(* The parts of the invariant that the throttler needs.                    *)
LEMMA ThrottlerParts ==
    TypeOK /\ CycleInv => ThrottlerOK /\ queued \in Nat
BY DEF TypeOK, TopologyTypeOK, ThrottlerTypeOK, ThrottlerOK, CycleInv, Consistent, Counted, Changes

(* Unless a change is submitted, what a client will show stays the same.   *)
LEMMA ThrottlerSteps ==
    ASSUME TypeOK, CycleInv, [Next]_vars
    PROVE  \/ submitChange
           \/ /\ ThrottlerOK' /\ queued' \in Nat
              /\ \A i \in Instances : Will(i)' = Will(i)
<1>0. ThrottlerOK /\ queued \in Nat
  BY ThrottlerParts
<1> DEFINE Goal == /\ ThrottlerOK' /\ queued' \in Nat
                   /\ \A i \in Instances : Will(i)' = Will(i)
<1>1. ASSUME UNCHANGED throttler PROVE Goal
  <2>1. instChanges' = instChanges /\ timer' = timer /\ queued' = queued /\ gui' = gui
    BY <1>1 DEF throttler
  <2>2. ThrottlerOK'
    BY <2>1, <1>0 DEF ThrottlerOK, Consistent, Counted, With
  <2> QED
    BY <2>1, <2>2, <1>0 DEF Will
<1>2. ASSUME flushThrottler(instChanges), queued' \in Nat PROVE Goal
  <2>1. /\ instChanges' \in Changes /\ gui' \in [Instances -> MaybeInfo]
        /\ timer' = "waiting"
        /\ Consistent(instChanges)'
        /\ topology_update(instChanges', gui') = topology_update(instChanges, gui)
    BY <1>0, <1>2, Flushed DEF ThrottlerOK
  <2> QED
    BY <2>1, <1>2 DEF ThrottlerOK, Will
<1>3. CASE throttlerCalled
  <2>1. flushThrottler(instChanges) /\ queued' \in Nat
    BY <1>3, <1>0 DEF throttlerCalled, flush, createThrottler
  <2> QED
    BY <2>1, <1>2
<1>4. CASE cycle
  <2>1. CASE throttlerTimerExpires
    <3>1. instChanges' = instChanges /\ timer' = "over" /\ queued' = queued + 1 /\ gui' = gui
      BY <2>1 DEF throttlerTimerExpires
    <3>2. ThrottlerOK'
      BY <3>1, <1>0 DEF ThrottlerOK, Consistent, Counted, With
    <3> QED
      BY <3>1, <3>2, <1>0 DEF Will
  <2>2. CASE runThrottlerCycleAsync
    <3>1. flushThrottler(instChanges) /\ queued' \in Nat
      BY <2>2, <1>0 DEF runThrottlerCycleAsync
    <3> QED
      BY <3>1, <1>2
  <2> QED
    BY <1>4, <2>1, <2>2 DEF cycle
<1>5. ASSUME NEW c \in Clients,
             \/ registerConnect(c) \/ onError(c) \/ onGetDeviceSchema(c)
             \/ onStartMonitoringDevice(c) \/ onStopMonitoringDevice(c)
      PROVE UNCHANGED throttler
  <2>1. Message(c)
    BY <1>5 DEF registerConnect, onError, onGetDeviceSchema, onStartMonitoringDevice,
                onStopMonitoringDevice
  <2> QED
    BY <2>1 DEF Message
<1>6. CASE slotCalled \/ deviceLife \/ treat \/ instanceNewHandler \/ instanceGoneHandler \/ threadStep
  <2>1. UNCHANGED throttler
    BY <1>6 DEF slotCalled, deviceLife, treat, instanceNewHandler, instanceGoneHandler, threadStep
  <2> QED
    BY <2>1, <1>1
<1>7. CASE ageing \/ answer \/ configuration \/ sendSignalsChanged \/ UNCHANGED vars
  <2>1. UNCHANGED throttler
    BY <1>7 DEF ageing, answer, configuration, sendSignalsChanged, vars
  <2> QED
    BY <2>1, <1>1
<1>8. ASSUME NEW c \in Clients, onGetDeviceConfiguration(c) PROVE UNCHANGED throttler
  BY <1>8 DEF onGetDeviceConfiguration
<1> QED
  BY <1>1, <1>3, <1>4, <1>5, <1>6, <1>7, <1>8 DEF Next, Messages, Slot, Thread

(* When nothing changes but work that is going on.                         *)
LEMMA SteadyAgrees ==
    ASSUME AgreeInv, todo' = todo, todo \in Seq(Change), setup' = setup,
           \A i \in Instances : Shown'[i] = Shown[i],
           \A i \in Instances : Will(i)' = Will(i),
           work'[Slots] = <<>> <=> work[Slots] = <<>>
    PROVE  AgreeInv'
<1> SUFFICES ASSUME setup.throttler PROVE
        /\ \A k \in 1 .. Len(todo) : ChangeInv(k)'
        /\ \A i \in Instances :
              (\A k \in 1 .. Len(todo) : todo[k].id # i) => Will(i)' = Shown'[i]
  BY DEF AgreeInv
<1>0. \A k \in 1 .. Len(todo) : todo[k] \in Change
  OBVIOUS
<1>1. \A k \in 1 .. Len(todo) : todo[k].id \in Instances
  BY <1>0 DEF Change
<1>2. ASSUME NEW k \in 1 .. Len(todo) PROVE ChangeInv(k)'
  <2>1. ChangeInv(k)
    BY DEF AgreeInv
  <2> QED
    BY <2>1, <1>1 DEF ChangeInv
<1>3. \A i \in Instances : (\A k \in 1 .. Len(todo) : todo[k].id # i) => Will(i) = Shown[i]
  BY DEF AgreeInv
<1> QED
  BY <1>2, <1>3


(* A slot is called: the description changes at once, and for each change  *)
(* there is one to be submitted.                                           *)
LEMMA SlotCalledAgrees ==
    ASSUME TypeOK, AgreeInv, slotCalled, \A i \in Instances : Will(i)' = Will(i)
    PROVE  AgreeInv'
<1>0. /\ listed \in [Instances -> MaybeInfo \cup {Bare}] /\ todo \in Seq(Change)
      /\ setup \in Setups /\ setup.instances \subseteq Instances /\ setup.infos \subseteq Infos
      /\ Bare \notin MaybeInfo /\ None \notin Infos /\ Bare # None
  BY SystemAssumption, ThrottlerAssumption DEF TypeOK, TopologyTypeOK, MaybeInfo
<1>1. PICK i \in setup.instances, info \in setup.infos :
         _slotInstanceGone(i) \/ _slotInstanceUpdated(i, info) \/ _slotInstanceNew(i, info)
  BY DEF slotCalled
<1>2. /\ i \in Instances /\ info \in Infos /\ info # Bare /\ info # None
      /\ setup' = setup /\ work' = work /\ work[Slots] = <<>> /\ todo = <<>>
  <2>1. todo = <<>>
    BY <1>1 DEF _slotInstanceGone, _slotInstanceUpdated, _slotInstanceNew, Called
  <2>2. setup' = setup /\ work' = work /\ work[Slots] = <<>>
    BY DEF slotCalled
  <2> QED
    BY <2>1, <2>2, <1>0 DEF MaybeInfo
<1> SUFFICES ASSUME setup.throttler PROVE
        /\ \A k \in 1 .. Len(todo') : ChangeInv(k)'
        /\ \A j \in Instances :
              (\A k \in 1 .. Len(todo') : todo'[k].id # j) => Will(j) = Shown'[j]
  BY <1>2 DEF AgreeInv
<1>3. \A j \in Instances : Will(j) = Shown[j]
  <2>1. \A k \in 1 .. Len(todo) : FALSE
    BY <1>2
  <2> QED
    BY <2>1 DEF AgreeInv
<1>4. \A j \in Instances : /\ Shown[j] = IF listed[j] = Bare THEN None ELSE listed[j]
                           /\ Shown'[j] = IF listed'[j] = Bare THEN None ELSE listed'[j]
  BY DEF Shown
<1>5. ASSUME UNCHANGED <<listed, todo>>
      PROVE  /\ \A k \in 1 .. Len(todo') : ChangeInv(k)'
             /\ \A j \in Instances :
                   (\A k \in 1 .. Len(todo') : todo'[k].id # j) => Will(j) = Shown'[j]
  <2>1. \A k \in 1 .. Len(todo') : FALSE
    BY <1>2, <1>5
  <2> QED
    BY <2>1, <1>3, <1>4, <1>5
<1>6. ASSUME listed' = Without(i)
      PROVE  \A j \in Instances : Shown'[j] =
                IF j \in {i} \cup devicesOfServer(i) THEN None ELSE Shown[j]
  BY <1>0, <1>2, <1>4, <1>6, WithoutInstance
<1>7. CASE _slotInstanceGone(i)
  <2>1. CASE listed[i] = None
    BY <2>1, <1>5, <1>7 DEF _slotInstanceGone
  <2>2. CASE listed[i] # None
    <3>1. listed' = Without(i) /\ todo' \in GoneChanges(i)
      BY <2>2, <1>7 DEF _slotInstanceGone
    <3>2. /\ \A k \in 1 .. Len(todo') : /\ todo'[k].what = "gone"
                                        /\ todo'[k].id \in {i} \cup devicesOfServer(i)
          /\ \A j \in {i} \cup devicesOfServer(i) : \E k \in 1 .. Len(todo') : todo'[k].id = j
      BY <3>1, <1>2, GoneInOrder
    <3>3. \A j \in {i} \cup devicesOfServer(i) : j \in Instances
      BY <1>2 DEF devicesOfServer
    <3>4. ASSUME NEW k \in 1 .. Len(todo') PROVE ChangeInv(k)'
      BY <3>1, <3>2, <3>3, <1>6 DEF ChangeInv
    <3> QED
      BY <3>1, <3>2, <3>4, <1>3, <1>6
  <2> QED
    BY <2>1, <2>2
<1>8. CASE _slotInstanceUpdated(i, info)
  <2>1. CASE listed[i] = None
    BY <2>1, <1>5, <1>8 DEF _slotInstanceUpdated
  <2>2. CASE listed[i] # None
    <3> DEFINE c == [what |-> "update", id |-> i, info |-> info]
    <3>1. listed' = [listed EXCEPT ![i] = info] /\ todo' = <<c>>
      BY <2>2, <1>8 DEF _slotInstanceUpdated
    <3>2. Len(todo') = 1 /\ todo'[1] = c /\ c.what = "update" /\ c.id = i /\ c.info = info
          /\ \A k \in 1 .. Len(todo') : k = 1
      BY <3>1
    <3> HIDE DEF c
    <3>3. \A j \in Instances : Shown'[j] = IF j = i THEN info ELSE Shown[j]
      BY <3>1, <1>0, <1>2, <1>4
    <3>4. ChangeInv(1)'
      BY <3>2, <3>3, <1>2 DEF ChangeInv
    <3>5. \A j \in Instances : (\A k \in 1 .. Len(todo') : todo'[k].id # j) => j # i
      BY <3>2
    <3> QED
      BY <3>2, <3>3, <3>4, <3>5, <1>3
  <2> QED
    BY <2>1, <2>2
<1>9. CASE _slotInstanceNew(i, info)
  <2> DEFINE c == [what |-> "new", id |-> i, info |-> info]
  <2>0. c.what = "new" /\ c.id = i /\ c.info = info
    OBVIOUS
  <2>1. CASE listed[i] = None
    <3>1. listed' = listed /\ todo' = <<c>>
      BY <2>1, <1>9 DEF _slotInstanceNew
    <3>2. Len(todo') = 1 /\ todo'[1] = c /\ \A k \in 1 .. Len(todo') : k = 1
      BY <3>1
    <3> HIDE DEF c
    <3>3. \A j \in Instances : Shown'[j] = Shown[j]
      BY <3>1, <1>4
    <3>4. Shown[i] = None /\ Will(i) = None
      BY <2>1, <1>2, <1>3, <1>4
    <3>5. ChangeInv(1)'
      BY <3>2, <3>3, <3>4, <2>0, <1>2 DEF ChangeInv
    <3> QED
      BY <3>2, <3>3, <3>5, <1>3
  <2>2. CASE listed[i] # None
    <3>1. PICK g \in GoneChanges(i) : listed' = Without(i) /\ todo' = Append(g, c)
      BY <2>2, <1>9 DEF _slotInstanceNew
    <3>2. /\ Len(todo') = Len(g) + 1 /\ Len(g) \in Nat \ {0}
          /\ todo'[Len(todo')] = c
          /\ \A k \in 1 .. Len(g) : todo'[k] = g[k]
      BY <3>1, <1>2, GoneThenNew
    <3> HIDE DEF c
    <3>3. /\ g[Len(g)].id = i
          /\ \A k \in 1 .. Len(g) : g[k].what = "gone" /\ g[k].id \in {i} \cup devicesOfServer(i)
          /\ \A j \in {i} \cup devicesOfServer(i) : \E k \in 1 .. Len(g) : g[k].id = j
      BY <1>2, GoneInOrder
    <3>4. \A j \in {i} \cup devicesOfServer(i) : j \in Instances /\ Shown'[j] = None
      BY <3>1, <1>2, <1>6 DEF devicesOfServer
    <3>5. ASSUME NEW k \in 1 .. Len(todo') PROVE ChangeInv(k)'
      <4>1. CASE k \in 1 .. Len(g)
        BY <4>1, <3>2, <3>3, <3>4 DEF ChangeInv
      <4>2. CASE k = Len(todo')
        <5>1. k > 1 /\ k - 1 = Len(g) /\ Len(g) \in 1 .. Len(g)
          BY <4>2, <3>2
        <5>2. todo'[k - 1].id = i /\ todo'[k - 1].what = "gone"
          BY <5>1, <3>2, <3>3
        <5> QED
          BY <4>2, <5>1, <5>2, <3>2, <3>4, <2>0, <1>2 DEF ChangeInv
      <4> QED
        BY <4>1, <4>2, <3>2
    <3>6. \A k \in 1 .. Len(g) : k \in 1 .. Len(todo')
      BY <3>2
    <3>7. ASSUME NEW j \in Instances, \A k \in 1 .. Len(todo') : todo'[k].id # j
          PROVE  j \notin {i} \cup devicesOfServer(i)
      BY <3>2, <3>3, <3>6, <3>7
    <3> QED
      BY <3>1, <3>5, <3>7, <1>3, <1>6
  <2> QED
    BY <2>1, <2>2
<1> QED
  BY <1>1, <1>7, <1>8, <1>9

(* A change is treated: a new instance is listed.                          *)
LEMMA TreatAgrees ==
    ASSUME TypeOK, AgreeInv, treat, \A i \in Instances : Will(i)' = Will(i),
           work'[Slots] # <<>>
    PROVE  AgreeInv'
<1>0. /\ listed \in [Instances -> MaybeInfo \cup {Bare}] /\ todo \in Seq(Change)
      /\ Bare \notin MaybeInfo /\ None \notin Infos /\ Bare # None
  BY SystemAssumption, ThrottlerAssumption DEF TypeOK, TopologyTypeOK, MaybeInfo
<1>1. todo # <<>> /\ work[Slots] = <<>> /\ todo' = todo /\ setup' = setup
  BY DEF treat
<1>2. /\ Len(todo) \in Nat \ {0} /\ 1 \in 1 .. Len(todo) /\ Head(todo) = todo[1]
      /\ \A k \in 1 .. Len(todo) : todo[k] \in Change
  BY <1>0, <1>1
<1>3. \A k \in 1 .. Len(todo) : todo[k].id \in Instances
  BY <1>2 DEF Change
<1> SUFFICES ASSUME setup.throttler PROVE
        /\ \A k \in 1 .. Len(todo) : ChangeInv(k)'
        /\ \A j \in Instances :
              (\A k \in 1 .. Len(todo) : todo[k].id # j) => Will(j) = Shown'[j]
  BY <1>1 DEF AgreeInv
<1>4. /\ \A k \in 1 .. Len(todo) : ChangeInv(k)
      /\ \A j \in Instances : (\A k \in 1 .. Len(todo) : todo[k].id # j) => Will(j) = Shown[j]
  BY DEF AgreeInv
<1>5. \A j \in Instances : /\ Shown[j] = IF listed[j] = Bare THEN None ELSE listed[j]
                           /\ Shown'[j] = IF listed'[j] = Bare THEN None ELSE listed'[j]
  BY DEF Shown
<1>6. CASE todo[1].what = "new"
  <2>1. listed' = [listed EXCEPT ![todo[1].id] = todo[1].info]
    BY <1>2, <1>6 DEF treat, mergeEntry
  <2>2. ChangeInv(1)
    BY <1>2, <1>4
  <2>3. Len(todo) = 1 /\ todo[1].info \in Infos /\ Will(todo[1].id) = None
    BY <2>2, <1>6 DEF ChangeInv
  <2>4. todo[1].info # Bare
    BY <2>3, <1>0 DEF MaybeInfo
  <2>5. \A j \in Instances : Shown'[j] = IF j = todo[1].id THEN todo[1].info ELSE Shown[j]
    BY <2>1, <2>4, <1>0, <1>2, <1>3, <1>5
  <2>6. ChangeInv(1)'
    BY <2>3, <2>5, <1>1, <1>2, <1>3, <1>6 DEF ChangeInv
  <2>7. \A k \in 1 .. Len(todo) : k = 1
    BY <2>3
  <2> QED
    BY <2>3, <2>5, <2>6, <2>7, <1>2, <1>4
<1>7. CASE todo[1].what # "new"
  <2>1. listed' = listed
    BY <1>2, <1>7 DEF treat
  <2>2. \A j \in Instances : Shown'[j] = Shown[j]
    BY <2>1, <1>5
  <2>3. ASSUME NEW k \in 1 .. Len(todo) PROVE ChangeInv(k)'
    <3>1. ChangeInv(k)
      BY <1>4
    <3> QED
      BY <3>1, <2>2, <1>1, <1>3, <1>7 DEF ChangeInv
  <2> QED
    BY <2>2, <2>3, <1>4
<1> QED
  BY <1>6, <1>7


(* A change is submitted: then the client will show it.                    *)
LEMMA SubmitAgrees ==
    ASSUME TypeOK, CycleInv, WorkInv, AgreeInv, submitChange, work'[Slots] = <<>>
    PROVE  ThrottlerOK' /\ queued' \in Nat /\ AgreeInv'
<1>0. ThrottlerOK /\ queued \in Nat
  BY ThrottlerParts
<1>1. /\ listed \in [Instances -> MaybeInfo \cup {Bare}] /\ todo \in Seq(Change)
      /\ setup \in Setups /\ setup.throttler \in BOOLEAN
  BY SystemAssumption DEF TypeOK, TopologyTypeOK
<1>2. /\ listed' = listed /\ setup' = setup /\ todo' = Tail(todo) /\ work[Slots] # <<>>
      /\ \A j \in Instances : Shown'[j] = Shown[j]
  BY DEF submitChange, submit, Does, Shown
<1>3. todo # <<>>
  BY <1>2 DEF WorkInv
<1>4. /\ Len(todo) \in Nat \ {0} /\ 1 \in 1 .. Len(todo) /\ Head(todo) = todo[1]
      /\ \A k \in 1 .. Len(todo) : todo[k] \in Change
      /\ Len(todo') = Len(todo) - 1
      /\ \A k \in 1 .. Len(todo) - 1 : todo'[k] = todo[k + 1] /\ k + 1 \in 1 .. Len(todo)
  BY <1>1, <1>2, <1>3
<1>5. \A k \in 1 .. Len(todo) : todo[k].id \in Instances /\ todo[k].what \in {"new", "update", "gone"}
  BY <1>4 DEF Change
<1> DEFINE c == todo[1]
<1>6. CASE ~setup.throttler
  <2>1. UNCHANGED throttler
    BY <1>6 DEF submitChange, submit
  <2>2. instChanges' = instChanges /\ timer' = timer /\ queued' = queued /\ gui' = gui
    BY <2>1 DEF throttler
  <2>3. ThrottlerOK'
    BY <2>2, <1>0 DEF ThrottlerOK, Consistent, Counted, With
  <2>4. AgreeInv'
    BY <1>2, <1>6 DEF AgreeInv
  <2> QED
    BY <2>2, <2>3, <2>4, <1>0
<1>7. CASE setup.throttler
  <2>1. /\ \A k \in 1 .. Len(todo) : ChangeInv(k)
        /\ \A j \in Instances : (\A k \in 1 .. Len(todo) : todo[k].id # j) => Will(j) = Shown[j]
    BY <1>7 DEF AgreeInv
  <2>2. ChangeInv(1)
    BY <2>1, <1>4
  <2>3. /\ ThrottlerOK' /\ queued' = queued
        /\ \A j \in Instances : Will(j)' =
              IF j # c.id THEN Will(j) ELSE IF c.what = "gone" THEN None ELSE c.info
    <3>1. CASE c.what = "new"
      <4>1. c.info \in Infos /\ Will(c.id) = None
        BY <2>2, <3>1 DEF ChangeInv
      <4>2. submitInstanceNew(c.id, c.info)
        BY <3>1, <1>4, <1>7 DEF submitChange, submit
      <4>3. /\ ThrottlerOK' /\ queued' = queued
            /\ \A j \in Instances : topology_update(instChanges', gui')[j] =
                 IF j = c.id THEN c.info ELSE topology_update(instChanges, gui)[j]
        BY <4>1, <4>2, <1>0, <1>4, <1>5, SubmitNew DEF Will
      <4> QED
        BY <4>3, <3>1 DEF Will
    <3>2. CASE c.what = "update"
      <4>1. c.info \in Infos
        BY <2>2, <3>2 DEF ChangeInv
      <4>2. submitInstanceUpdate(c.id, c.info)
        BY <3>2, <1>4, <1>7 DEF submitChange, submit
      <4>3. /\ ThrottlerOK' /\ queued' = queued
            /\ \A j \in Instances : topology_update(instChanges', gui')[j] =
                 IF j = c.id THEN c.info ELSE topology_update(instChanges, gui)[j]
        BY <4>1, <4>2, <1>0, <1>4, <1>5, SubmitUpdate
      <4> QED
        BY <4>3, <3>2 DEF Will
    <3>3. CASE c.what = "gone"
      <4>2. submitInstanceGone(c.id)
        BY <3>3, <1>4, <1>7 DEF submitChange, submit
      <4>3. /\ ThrottlerOK' /\ queued' = queued
            /\ \A j \in Instances : topology_update(instChanges', gui')[j] =
                 IF j = c.id THEN None ELSE topology_update(instChanges, gui)[j]
        BY <4>2, <1>0, <1>4, <1>5, SubmitGone
      <4> QED
        BY <4>3, <3>3 DEF Will
    <3> QED
      BY <3>1, <3>2, <3>3, <1>4, <1>5
  <2> HIDE DEF c
  <2>4. Shown[c.id] = IF c.what = "gone" THEN None ELSE c.info
    BY <2>2, <1>2, <1>4, <1>5 DEF ChangeInv, c
  <2>5. ASSUME NEW k \in 1 .. Len(todo') PROVE ChangeInv(k)'
    <3>1. k + 1 \in 1 .. Len(todo) /\ todo'[k] = todo[k + 1] /\ k \in Nat /\ Len(todo) \in Nat
      BY <1>4
    <3>2. ChangeInv(k + 1)
      BY <3>1, <2>1
    <3>3. Len(todo) # 1 /\ k + 1 # 1
      BY <3>1
    <3>4. todo[k + 1].what # "update"
      BY <3>2, <3>3 DEF ChangeInv
    <3>5. CASE todo[k + 1].what = "gone"
      BY <3>1, <3>2, <3>5, <1>2, <1>5 DEF ChangeInv
    <3>6. CASE todo[k + 1].what = "new"
      <4>1. /\ k + 1 = Len(todo) /\ todo[k + 1].info \in Infos
            /\ todo[k].id = todo[k + 1].id /\ todo[k].what = "gone"
            /\ Shown[todo[k + 1].id] = None
        <5>1. (k + 1) - 1 = k /\ k + 1 > 1
          BY <3>1
        <5> QED
          BY <5>1, <3>2, <3>3, <3>6 DEF ChangeInv
      <4>2. k = Len(todo')
        BY <4>1, <3>1, <1>4
      <4>3. k = 1 => topology_update(instChanges', gui')[todo[k + 1].id] = None
        <5>1. k = 1 => todo[k + 1].id = c.id /\ c.what = "gone" /\ c.id \in Instances
          BY <4>1, <1>4, <1>5 DEF c
        <5> QED
          BY <5>1, <2>3 DEF Will
      <4>4. k > 1 => todo'[k - 1].id = todo[k + 1].id /\ todo'[k - 1].what = "gone"
        <5>1. k > 1 => k - 1 \in 1 .. Len(todo) - 1 /\ (k - 1) + 1 = k
          BY <3>1
        <5>2. k > 1 => todo'[k - 1] = todo[k]
          BY <5>1, <1>4
        <5> QED
          BY <5>2, <4>1
      <4> QED
        BY <4>1, <4>2, <4>3, <4>4, <3>1, <3>6, <1>2, <1>5 DEF ChangeInv, Will
    <3> QED
      BY <3>1, <3>4, <3>5, <3>6, <1>5
  <2>6. ASSUME NEW j \in Instances, \A k \in 1 .. Len(todo') : todo'[k].id # j
        PROVE  Will(j)' = Shown'[j]
    <3>1. CASE j = c.id
      BY <3>1, <2>3, <2>4, <1>2
    <3>2. CASE j # c.id
      <4>1. ASSUME NEW k \in 1 .. Len(todo) PROVE todo[k].id # j
        <5>1. CASE k = 1
          BY <5>1, <3>2 DEF c
        <5>2. CASE k # 1
          <6>1. k - 1 \in 1 .. Len(todo) - 1 /\ (k - 1) + 1 = k
            BY <5>2, <1>4
          <6>2. todo'[k - 1] = todo[k] /\ k - 1 \in 1 .. Len(todo')
            BY <6>1, <1>4
          <6> QED
            BY <6>2, <2>6
        <5> QED
          BY <5>1, <5>2
      <4> QED
        BY <4>1, <3>2, <2>1, <2>3, <1>2
    <3> QED
      BY <3>1, <3>2
  <2>7. AgreeInv'
    BY <2>5, <2>6 DEF AgreeInv
  <2> QED
    BY <2>3, <2>7, <1>0
<1> QED
  BY <1>1, <1>6, <1>7

(* So the client and the description agree after each step.                *)
LEMMA AgreeStep ==
    ASSUME TypeOK, CycleInv, WorkInv, AgreeInv, [Next]_vars
    PROVE  ThrottlerOK' /\ queued' \in Nat /\ AgreeInv'
<1>0. /\ listed \in [Instances -> MaybeInfo \cup {Bare}] /\ todo \in Seq(Change) /\ setup' = setup
      /\ Bare # None
  BY TopologyTypes, SystemAssumption DEF TypeOK, TopologyTypeOK, MaybeInfo
<1>1. /\ Submits => work'[Slots] = <<>>
      /\ Rests \/ GoesOn \/ ClientBegins => (work'[Slots] = <<>> <=> work[Slots] = <<>>)
      /\ Treats => work'[Slots] # <<>>
      /\ Rests \/ SlotBegins \/ Treats \/ Submits \/ GoesOn \/ ClientBegins
  BY WorkStep, StepKinds DEF Kinds
<1>2. CASE submitChange
  <2>1. Does(Slots, <<"submit">>) /\ Then(Slots, <<>>) /\ todo' = Tail(todo)
    BY <1>2 DEF submitChange, submit
  <2>2. work[Slots] \in Seq(Step) /\ Slots \in Threads
    BY DEF TypeOK, MonitoringTypeOK, Threads
  <2>3. <<>> \o Tail(work[Slots]) = Tail(work[Slots])
    BY <2>1, <2>2 DEF Does
  <2>4. Submits
    BY <2>1, <2>3 DEF Submits, Does, Then
  <2> QED
    BY <2>4, <1>1, <1>2, SubmitAgrees
<1>3. CASE ~submitChange
  <2>1. ThrottlerOK' /\ queued' \in Nat /\ \A i \in Instances : Will(i)' = Will(i)
    BY <1>3, ThrottlerSteps
  <2>2. CASE slotCalled
    BY <2>1, <2>2, SlotCalledAgrees
  <2>3. CASE treat
    <3>1. work[Slots] = <<>> /\ todo # <<>>
      BY <2>3 DEF treat
    <3>2. Slots \in Threads /\ work \in [Threads -> Seq(Step)]
      BY DEF TypeOK, MonitoringTypeOK, Threads
    <3>3. work'[Slots] # <<>>
      <4>1. \/ work' = [work EXCEPT ![Slots] = <<<<"submit">>>>]
            \/ work' = [work EXCEPT ![Slots] = <<<<"goneHandler">>, <<"submit">>>>]
            \/ work' = [work EXCEPT ![Slots] = Resurrect \o <<<<"newHandler">>, <<"submit">>>>]
        <5>1. Head(todo) \in Change
          BY <3>1, <1>0
        <5>2. Head(todo).what \in {"new", "update", "gone"}
          BY <5>1 DEF Change
        <5> QED
          BY <5>2, <2>3 DEF treat
      <4>2. Resurrect \o <<<<"newHandler">>, <<"submit">>>> # <<>>
        BY DEF Resurrect
      <4> QED
        BY <4>1, <4>2, <3>2
    <3> QED
      BY <3>3, <2>1, <2>3, TreatAgrees
  <2>4. CASE ~slotCalled /\ ~treat
    <3>1. todo' = todo /\ \A i \in Instances : Shown'[i] = Shown[i]
      <4>1. ASSUME UNCHANGED <<listed, todo>>
            PROVE  todo' = todo /\ \A i \in Instances : Shown'[i] = Shown[i]
        BY <4>1 DEF Shown
      <4>2. CASE configuration
        <5>1. /\ todo' = todo
              /\ listed' = IF listed[Device] = None THEN [listed EXCEPT ![Device] = Bare] ELSE listed
          BY <4>2 DEF configuration, _slotChanged
        <5>2. \A i \in Instances : /\ Shown[i] = IF listed[i] = Bare THEN None ELSE listed[i]
                                   /\ Shown'[i] = IF listed'[i] = Bare THEN None ELSE listed'[i]
          BY DEF Shown
        <5> QED
          BY <5>1, <5>2, <1>0
      <4>3. ASSUME NEW c \in Clients,
                   \/ registerConnect(c) \/ onError(c) \/ onGetDeviceSchema(c)
                   \/ onStartMonitoringDevice(c) \/ onStopMonitoringDevice(c)
            PROVE UNCHANGED <<listed, todo>>
        <5>1. Message(c)
          BY <4>3 DEF registerConnect, onError, onGetDeviceSchema, onStartMonitoringDevice,
                      onStopMonitoringDevice
        <5> QED
          BY <5>1 DEF Message, topology
      <4>4. ASSUME throttlerCalled \/ deviceLife \/ instanceNewHandler \/ instanceGoneHandler \/ threadStep
            PROVE UNCHANGED <<listed, todo>>
        BY <4>4 DEF throttlerCalled, deviceLife, instanceNewHandler, instanceGoneHandler, threadStep, topology
      <4>5. ASSUME cycle \/ ageing \/ answer \/ sendSignalsChanged \/ UNCHANGED vars
            PROVE UNCHANGED <<listed, todo>>
        BY <4>5 DEF cycle, ageing, answer, sendSignalsChanged, vars, topology
      <4>6. ASSUME NEW c \in Clients, onGetDeviceConfiguration(c) PROVE UNCHANGED <<listed, todo>>
        BY <4>6 DEF onGetDeviceConfiguration, topology
      <4> QED
        BY <1>3, <2>4, <4>1, <4>2, <4>3, <4>4, <4>5, <4>6 DEF Next, Messages, Slot, Thread
    <3>2. work'[Slots] = <<>> <=> work[Slots] = <<>>
      <4>1. ~Treats
        BY <2>4 DEF Treats
      <4>2. SlotBegins => work' = work
        BY DEF SlotBegins
      <4>3. ~Submits
        <5>1. Submits => todo # <<>> /\ todo' = Tail(todo)
          BY DEF Submits, WorkInv
        <5>2. todo # <<>> => Tail(todo) # todo
          <6>1. todo # <<>> => Len(Tail(todo)) = Len(todo) - 1 /\ Len(todo) \in Nat
            BY <1>0
          <6>2. todo # <<>> => Len(Tail(todo)) # Len(todo)
            BY <6>1
          <6> QED
            BY <6>2
        <5> QED
          BY <5>1, <5>2, <3>1
      <4> QED
        BY <1>1, <4>1, <4>2, <4>3
    <3> QED
      BY <3>1, <3>2, <2>1, <1>0, SteadyAgrees
  <2> QED
    BY <2>1, <2>2, <2>3, <2>4
<1> QED
  BY <1>2, <1>3

-----------------------------------------------------------------------------
(* The connection to the device.                                           *)

Requests == {"configuration", "schema", "reconnect", "disconnect"}

(* What was asked for last.                                                *)
LEMMA StoredFacts ==
    ASSUME requests \in Seq(Requests)
    PROVE  /\ \A x \in Requests : requests' = Append(requests, x) => (Stored' <=> x # "disconnect")
           /\ requests' = requests /\ registered' = registered => (Stored' <=> Stored)
           /\ brokerAnswers => (Stored' <=> Stored)
<1>1. ASSUME NEW x \in Requests, requests' = Append(requests, x) PROVE Stored' <=> x # "disconnect"
  <2>1. requests' # <<>> /\ Len(requests') = Len(requests) + 1
        /\ requests'[Len(requests) + 1] = x
    BY <1>1
  <2> QED
    BY <2>1 DEF Stored, Last
<1>2. requests' = requests /\ registered' = registered => (Stored' <=> Stored)
  BY DEF Stored
<1>3. ASSUME brokerAnswers PROVE Stored' <=> Stored
  <2>1. requests # <<>> /\ requests' = Tail(requests) /\ registered' = (Head(requests) # "disconnect")
    BY <1>3 DEF brokerAnswers
  <2>2. /\ Len(requests) \in Nat \ {0} /\ Head(requests) = requests[1]
        /\ requests' \in Seq(Requests) /\ Len(requests') = Len(requests) - 1
        /\ \A k \in 1 .. Len(requests) - 1 : requests'[k] = requests[k + 1]
    BY <2>1
  <2>3. CASE Len(requests) = 1
    <3>1. requests' = <<>>
      BY <2>2, <2>3, EmptySeq
    <3> QED
      BY <3>1, <2>1, <2>2, <2>3 DEF Stored, Last
  <2>4. CASE Len(requests) # 1
    <3>1. Len(requests) - 1 \in 1 .. Len(requests) - 1 /\ (Len(requests) - 1) + 1 = Len(requests)
          /\ Len(requests') # 0
      BY <2>2, <2>4
    <3>2. requests' # <<>> /\ requests'[Len(requests')] = requests[Len(requests)]
      BY <3>1, <2>2
    <3> QED
      BY <3>2, <2>1 DEF Stored, Last
  <2> QED
    BY <2>3, <2>4
<1> QED
  BY <1>1, <1>2, <1>3

(* Who is about to ask for a connection does not give that up.             *)
LEMMA ConnectingKept ==
    ASSUME work \in [Threads -> Seq(Step)], Kinds, Connecting,
           work' \in [Threads -> Seq(Step)], \A t \in Threads : ~asyncConnect(t)
    PROVE  Connecting'
<1>1. PICK t \in Threads : Connects(work[t])
  <2>1. \A t \in Threads : DOMAIN work[t] = 1 .. Len(work[t])
    OBVIOUS
  <2> QED
    BY <2>1 DEF Connecting, Connects
<1>2. work[t] \in Seq(Step) /\ work[t] # <<>> /\ DOMAIN work'[t] = 1 .. Len(work'[t])
  <2>1. work[t] \in Seq(Step)
    OBVIOUS
  <2>2. 1 .. Len(work[t]) # {}
    BY <1>1 DEF Connects
  <2>3. Len(work[t]) # 0
    BY <2>1, <2>2
  <2> QED
    BY <2>1, <2>3
<1> SUFFICES Connects(work'[t])
  BY <1>2 DEF Connecting, Connects
<1>3. ASSUME work'[t] = work[t] PROVE Connects(work'[t])
  BY <1>1, <1>3
<1>4. CASE Rests \/ SlotBegins
  BY <1>3, <1>4 DEF Rests, SlotBegins
<1>5. CASE Treats
  <2>1. t # Slots /\ work'[t] = work[t]
    BY <1>2, <1>5 DEF Treats
  <2> QED
    BY <2>1, <1>3
<1>6. CASE ClientBegins
  <2>1. work'[t] = work[t]
    BY <1>2, <1>6 DEF ClientBegins
  <2> QED
    BY <2>1, <1>3
<1>7. CASE Submits
  <2>1. CASE t = Slots
    <3>1. Head(work[t]) = <<"submit">> /\ work'[t] = Tail(work[t])
      BY <2>1, <1>7 DEF Submits
    <3>2. Head(work[t])[1] # "asyncConnect"
      BY <3>1
    <3>3. <<>> \in Seq(Plain) /\ <<>> \o Tail(work[t]) = Tail(work[t])
      BY <1>2
    <3> QED
      BY <3>1, <3>2, <3>3, <1>1, <1>2, ThenGoesOn
  <2>2. CASE t # Slots
    BY <2>2, <1>3, <1>7 DEF Submits
  <2> QED
    BY <2>1, <2>2
<1>8. CASE GoesOn
  <2>1. PICK u \in Threads, s \in Seq(Plain) :
           /\ work[u] # <<>> /\ Head(work[u])[1] # "asyncConnect"
           /\ work' = [work EXCEPT ![u] = s \o Tail(work[u])]
    BY <1>8 DEF GoesOn
  <2>2. CASE t = u
    <3>1. work'[t] = s \o Tail(work[t]) /\ Head(work[t])[1] # "asyncConnect"
      BY <2>1, <2>2
    <3> QED
      BY <3>1, <1>1, <1>2, ThenGoesOn
  <2>3. CASE t # u
    BY <2>1, <2>3, <1>3
  <2> QED
    BY <2>2, <2>3
<1> QED
  BY <1>4, <1>5, <1>6, <1>7, <1>8 DEF Kinds

(* What the usage says stays true.                                         *)
LEMMA UsageStep ==
    ASSUME TypeOK, WorkInv, UsageIsTrue, [Next]_vars
    PROVE  UsageIsTrue'
<1>0. /\ work \in [Threads -> Seq(Step)] /\ work' \in [Threads -> Seq(Step)] /\ Kinds
      /\ requests \in Seq(Requests) /\ usage \in {None} \cup -1 .. KeepAlive - 1
      /\ KeepAlive \in Nat \ {0, 1} /\ fooled \in BOOLEAN
      /\ Slots \in Threads /\ Clients \subseteq Threads
  BY StepKinds, WorkStep, MonitoringAssumption DEF TypeOK, MonitoringTypeOK, Requests, Threads
<1>1. ASSUME (\A t \in Threads : ~asyncConnect(t)),
             usage' # None /\ usage' # -1 /\ ~fooled' => usage # None /\ usage # -1 /\ ~fooled,
             Stored => Stored'
      PROVE  UsageIsTrue'
  <2>1. Connecting => Connecting'
    BY <1>0, <1>1, ConnectingKept
  <2> QED
    BY <2>1, <1>1 DEF UsageIsTrue
<1>2. \/ \E t \in Threads : asyncConnect(t)
      \/ \A t \in Threads : ~asyncConnect(t)
  OBVIOUS
<1>3. CASE \E t \in Threads : asyncConnect(t)
  <2>1. PICK t \in Threads, h \in {"configuration", "schema"} : requests' = Append(requests, h)
    BY <1>3 DEF asyncConnect
  <2>2. Stored'
    BY <2>1, <1>0, StoredFacts DEF Requests
  <2> QED
    BY <2>2 DEF UsageIsTrue
<1> SUFFICES ASSUME \A t \in Threads : ~asyncConnect(t) PROVE UsageIsTrue'
  BY <1>2, <1>3
<1>4. ASSUME UNCHANGED <<usage, fooled, requests, registered>> PROVE UsageIsTrue'
  <2>1. Stored' <=> Stored
    BY <1>0, <1>4, StoredFacts
  <2> QED
    BY <2>1, <1>1, <1>4
<1>5. CASE slotCalled
  <2>1. usage' = usage /\ fooled' = fooled /\ registered' = registered
    BY <1>5 DEF slotCalled
  <2>2. requests' = requests \/ reconnectSignals
    BY <1>5 DEF slotCalled
  <2>3. Stored => Stored'
    <3>1. requests' = requests \/ (Stored /\ requests' = Append(requests, "reconnect"))
      BY <2>2 DEF reconnectSignals
    <3> QED
      BY <3>1, <2>1, <1>0, StoredFacts DEF Requests
  <2> QED
    BY <2>1, <2>3, <1>1
<1>6. CASE throttlerCalled \/ cycle \/ UNCHANGED vars
  BY <1>4, <1>6 DEF throttlerCalled, cycle, vars, monitoring
<1>7. ASSUME NEW c \in Clients,
             \/ registerConnect(c) \/ onError(c) \/ onGetDeviceSchema(c)
             \/ onStartMonitoringDevice(c) \/ onStopMonitoringDevice(c)
      PROVE UNCHANGED <<usage, fooled, requests, registered>>
  <2>1. Message(c)
    BY <1>7 DEF registerConnect, onError, onGetDeviceSchema, onStartMonitoringDevice,
                onStopMonitoringDevice
  <2> QED
    BY <2>1 DEF Message
<1>8. CASE deviceLife \/ instanceNewHandler \/ instanceGoneHandler \/ submitChange
  BY <1>4, <1>8 DEF deviceLife, deviceStarts, deviceEnds, instanceNewHandler, instanceGoneHandler,
                    submitChange
<1>9. CASE configuration \/ sendSignalsChanged
  BY <1>4, <1>9 DEF configuration, _slotChanged, sendSignalsChanged
<1>10. ASSUME NEW c \in Clients, onGetDeviceConfiguration(c)
       PROVE UNCHANGED <<usage, fooled, requests, registered>>
  BY <1>10 DEF onGetDeviceConfiguration
<1>11. CASE treat
  <2>1. CASE Head(todo).what = "gone" /\ Head(todo).id = Device
    <3>1. treatInstanceAsGone
      BY <1>11, <2>1 DEF treat
    <3>2. usage' = None \/ usage' = -1
      BY <3>1 DEF treatInstanceAsGone, UsageIfGone
    <3> QED
      BY <3>2 DEF UsageIsTrue
  <2>2. CASE ~(Head(todo).what = "gone" /\ Head(todo).id = Device)
    <3>1. UNCHANGED <<usage, fooled, requests, registered>>
      BY <1>11, <2>2 DEF treat
    <3> QED
      BY <3>1, <1>4
  <2> QED
    BY <2>1, <2>2
<1>12. CASE ageing
  <2>1. /\ usage # None /\ registered' = registered /\ usage \in -1 .. KeepAlive - 1
    BY <1>0, <1>12 DEF ageing, age
  <2>2. CASE usage + 1 >= KeepAlive
    <3>1. usage' = None
      BY <1>12, <2>2 DEF ageing, age
    <3> QED
      BY <3>1 DEF UsageIsTrue
  <2>3. CASE ~(usage + 1 >= KeepAlive)
    <3>1. requests' = requests /\ fooled' = (fooled \/ usage < 0)
      BY <1>12, <2>3 DEF ageing, age
    <3>2. ~fooled' => ~fooled /\ usage # -1
      <4>1. usage = -1 => usage < 0
        OBVIOUS
      <4>2. fooled => fooled'
        BY <3>1, Zenon
      <4>3. usage < 0 => fooled'
        BY <3>1, Zenon
      <4> QED
        BY <4>1, <4>2, <4>3
    <3>3. Stored' <=> Stored
      BY <3>1, <2>1, <1>0, StoredFacts
    <3> QED
      BY <3>2, <3>3, <2>1, <1>1
  <2> QED
    BY <2>2, <2>3
<1>13. CASE answer
  <2>1. brokerAnswers /\ usage' = usage /\ fooled' = fooled
    BY <1>13 DEF answer, brokerAnswers
  <2>2. Stored' <=> Stored
    BY <2>1, <1>0, StoredFacts
  <2> QED
    BY <2>1, <2>2, <1>1
<1>14. CASE threadStep
  <2>1. PICK t \in Threads :
           \/ connectAndRequest(t) \/ getDeviceSchemaNoWait(t)
           \/ immortalize(t) \/ buryZombie(t) \/ mortalize(t)
    BY <1>14 DEF threadStep
  <2>2. CASE immortalize(t) \/ mortalize(t)
    BY <2>2, <1>4 DEF immortalize, mortalize
  <2>3. CASE buryZombie(t)
    <3>1. fooled' = fooled /\ requests' = requests /\ registered' = registered
          /\ (usage' = usage \/ usage' = None)
      BY <2>3 DEF buryZombie
    <3>2. Stored' <=> Stored
      BY <3>1, <1>0, StoredFacts
    <3> QED
      BY <3>1, <3>2, <1>1
  <2>4. ASSUME NEW h \in {"configuration", "schema"}, Does(t, <<"stayConnected", h>>),
               stayConnected(t, h), requests' = requests, registered' = registered
        PROVE  UsageIsTrue'
    <3>1. CASE Needed
      <4>1. Then(t, <<<<"asyncConnect", h>>>>)
        BY <2>4, <3>1 DEF stayConnected
      <4> DEFINE x == <<"asyncConnect", h>>
      <4>2. x \in Plain /\ x[1] = "asyncConnect"
        BY PlainSteps
      <4> HIDE DEF x
      <4>3. <<x>> \in Seq(Plain) /\ Connects(<<x>>)
        BY <4>2, Plans DEF Connects
      <4>4. work[t] \in Seq(Step) /\ work[t] # <<>>
        BY <1>0, <2>4 DEF Does
      <4>5. Connects(<<x>> \o Tail(work[t]))
        BY <4>3, <4>4, ThenGoesOn
      <4>6. work'[t] = <<x>> \o Tail(work[t])
        BY <4>1, <1>0 DEF Then, x
      <4>7. DOMAIN work'[t] = 1 .. Len(work'[t])
        BY <1>0
      <4>8. Connecting'
        BY <4>5, <4>6, <4>7 DEF Connecting, Connects
      <4> QED
        BY <4>8 DEF UsageIsTrue
    <3>2. CASE ~Needed
      <4>1. fooled' = fooled /\ usage # None /\ ~(usage < 0)
        BY <2>4, <3>2 DEF stayConnected, Needed
      <4>2. usage # -1
        BY <4>1
      <4>3. Stored' <=> Stored
        BY <2>4, <1>0, StoredFacts
      <4> QED
        BY <4>1, <4>2, <4>3, <1>1
    <3> QED
      BY <3>1, <3>2
  <2>5. CASE connectAndRequest(t)
    BY <2>4, <2>5 DEF connectAndRequest
  <2>6. CASE getDeviceSchemaNoWait(t)
    BY <2>4, <2>6 DEF getDeviceSchemaNoWait
  <2> QED
    BY <2>1, <2>2, <2>3, <2>5, <2>6
<1> QED
  BY <1>5, <1>6, <1>4, <1>7, <1>8, <1>9, <1>10, <1>11, <1>12, <1>13, <1>14
     DEF Next, Messages, Slot, Thread

-----------------------------------------------------------------------------
(* The types of the rest.                                                  *)

Flags == /\ immortal \in BOOLEAN /\ cached \in BOOLEAN /\ changed \in BOOLEAN
         /\ registered \in BOOLEAN /\ running \in BOOLEAN /\ announced \in BOOLEAN
         /\ early \in BOOLEAN /\ fooled \in BOOLEAN

Numbers == /\ mutex \in Threads \cup {None} /\ usage \in {None} \cup -1 .. KeepAlive - 1
           /\ requests \in Seq(Requests) /\ replies \in Nat

ClientTypes == /\ channels \subseteq Clients /\ visible \subseteq channels /\ got \subseteq visible
               /\ ops \in 0 .. setup.ops

(* The types, in parts.                                                    *)
LEMMA TypeParts ==
    TypeOK <=>
        /\ TopologyTypeOK /\ work \in [Threads -> Seq(Step)]
        /\ Flags /\ Numbers /\ ClientTypes
<1>1. {immortal, cached, changed, registered, running, announced, early, fooled} \subseteq BOOLEAN
        <=> Flags
  BY DEF Flags
<1> QED
  BY <1>1 DEF TypeOK, MonitoringTypeOK, Numbers, ClientTypes, Requests

(* Flags are true or false after each step.                                *)
LEMMA FlagTypes ==
    ASSUME TypeOK, [Next]_vars
    PROVE  Flags'
<1>0. Flags
  BY TypeParts
<1>1. ASSUME UNCHANGED <<immortal, cached, changed, registered, running, announced, early, fooled>>
      PROVE  Flags'
  BY <1>0, <1>1 DEF Flags
<1>2. CASE slotCalled
  <2>1. UNCHANGED <<immortal, changed, registered, running, early, fooled>>
    BY <1>2 DEF slotCalled
  <2>2. cached' \in BOOLEAN
    BY <1>2 DEF slotCalled, Forget
  <2>3. announced' = announced \/ announced' = running
    BY <1>2 DEF slotCalled
  <2> QED
    BY <2>1, <2>2, <2>3, <1>0 DEF Flags
<1>3. CASE throttlerCalled \/ cycle \/ UNCHANGED vars
  BY <1>1, <1>3 DEF throttlerCalled, cycle, vars, monitoring
<1>4. ASSUME NEW c \in Clients,
             \/ registerConnect(c) \/ onError(c) \/ onGetDeviceSchema(c)
             \/ onStartMonitoringDevice(c) \/ onStopMonitoringDevice(c)
      PROVE UNCHANGED <<immortal, cached, changed, registered, running, announced, early, fooled>>
  <2>1. Message(c)
    BY <1>4 DEF registerConnect, onError, onGetDeviceSchema, onStartMonitoringDevice,
                onStopMonitoringDevice
  <2> QED
    BY <2>1 DEF Message
<1>5. CASE deviceLife
  <2>1. UNCHANGED <<immortal, cached, changed, registered, early, fooled>>
    BY <1>5 DEF deviceLife, deviceStarts, deviceEnds
  <2>2. /\ running' = TRUE \/ running' = FALSE
        /\ announced' = FALSE \/ announced' = announced
    BY <1>5 DEF deviceLife, deviceStarts, deviceEnds
  <2> QED
    BY <2>1, <2>2, <1>0 DEF Flags
<1>6. CASE treat
  <2>1. UNCHANGED <<immortal, cached, changed, registered, running, announced, early>>
    BY <1>6 DEF treat
  <2>2. fooled' = fooled \/ fooled' = FALSE
    BY <1>6 DEF treat, treatInstanceAsGone
  <2> QED
    BY <2>1, <2>2, <1>0 DEF Flags
<1>7. CASE instanceNewHandler \/ instanceGoneHandler \/ submitChange
  BY <1>1, <1>7 DEF instanceNewHandler, instanceGoneHandler, submitChange
<1>8. CASE ageing
  <2>1. UNCHANGED <<immortal, cached, changed, registered, running, announced, early>>
    BY <1>8 DEF ageing, age
  <2>2. fooled' = FALSE \/ fooled' = (fooled \/ usage < 0)
    BY <1>8 DEF ageing, age
  <2>3. fooled' \in BOOLEAN
    BY <2>2, Zenon
  <2> QED
    BY <2>1, <2>3, <1>0 DEF Flags
<1>9. CASE answer
  <2>1. UNCHANGED <<immortal, changed, running, announced, fooled>>
    BY <1>9 DEF answer, brokerAnswers
  <2>2. registered' \in BOOLEAN /\ cached' \in BOOLEAN
    BY <1>9 DEF answer, brokerAnswers
  <2>3. early' = FALSE \/ early' = early
    BY <1>9 DEF answer, brokerAnswers
  <2> QED
    BY <2>1, <2>2, <2>3, <1>0 DEF Flags
<1>10. CASE configuration
  <2>1. UNCHANGED <<immortal, registered, running, announced, early, fooled>>
    BY <1>10 DEF configuration, _slotChanged
  <2>2. cached' = TRUE /\ changed' = TRUE
    BY <1>10 DEF configuration, _slotChanged
  <2> QED
    BY <2>1, <2>2, <1>0 DEF Flags
<1>11. CASE sendSignalsChanged
  <2>1. UNCHANGED <<immortal, cached, registered, running, announced, early, fooled>>
    BY <1>11 DEF sendSignalsChanged
  <2>2. changed' = FALSE
    BY <1>11 DEF sendSignalsChanged
  <2> QED
    BY <2>1, <2>2, <1>0 DEF Flags
<1>12. ASSUME NEW c \in Clients, onGetDeviceConfiguration(c)
       PROVE UNCHANGED <<immortal, cached, changed, registered, running, announced, early, fooled>>
  BY <1>12 DEF onGetDeviceConfiguration
<1>13. CASE threadStep
  <2>1. PICK t \in Threads :
           \/ connectAndRequest(t) \/ getDeviceSchemaNoWait(t) \/ asyncConnect(t)
           \/ immortalize(t) \/ buryZombie(t) \/ mortalize(t)
    BY <1>13 DEF threadStep
  <2>2. CASE connectAndRequest(t) \/ getDeviceSchemaNoWait(t)
    <3>1. UNCHANGED <<immortal, cached, changed, registered, running, announced>>
      BY <2>2 DEF connectAndRequest, getDeviceSchemaNoWait
    <3>2. PICK h : stayConnected(t, h)
      BY <2>2 DEF connectAndRequest, getDeviceSchemaNoWait
    <3>3. fooled' = FALSE \/ fooled' = fooled
      BY <3>2 DEF stayConnected
    <3>4. early' = early \/ early' = ~Reliable
      BY <3>2 DEF stayConnected
    <3>5. early' \in BOOLEAN
      BY <3>4, <1>0 DEF Flags
    <3> QED
      BY <3>1, <3>3, <3>5, <1>0 DEF Flags
  <2>3. CASE asyncConnect(t) \/ buryZombie(t)
    BY <2>3, <1>1 DEF asyncConnect, buryZombie
  <2>4. CASE immortalize(t) \/ mortalize(t)
    <3>1. UNCHANGED <<cached, changed, registered, running, announced, early, fooled>>
      BY <2>4 DEF immortalize, mortalize
    <3>2. immortal' = TRUE \/ immortal' = FALSE
      BY <2>4 DEF immortalize, mortalize
    <3> QED
      BY <3>1, <3>2, <1>0 DEF Flags
  <2> QED
    BY <2>1, <2>2, <2>3, <2>4
<1> QED
  BY <1>1, <1>2, <1>3, <1>4, <1>5, <1>6, <1>7, <1>8, <1>9, <1>10, <1>11, <1>12, <1>13
     DEF Next, Messages, Slot, Thread


(* So are the numbers and the requests what they should be.                *)
LEMMA NumberTypes ==
    ASSUME TypeOK, [Next]_vars
    PROVE  Numbers'
<1>0. /\ Numbers /\ KeepAlive \in Nat \ {0, 1} /\ Slots \in Threads /\ Clients \subseteq Threads
  BY TypeParts, MonitoringAssumption DEF Threads
<1>1. ASSUME UNCHANGED <<mutex, usage, requests, replies>> PROVE Numbers'
  BY <1>0, <1>1 DEF Numbers
<1>2. ASSUME NEW x \in Requests PROVE Append(requests, x) \in Seq(Requests)
  <2>1. requests \in Seq(Requests)
    BY <1>0 DEF Numbers
  <2> QED
    BY <2>1
<1>3. CASE slotCalled
  <2>1. UNCHANGED <<mutex, usage, replies>>
    BY <1>3 DEF slotCalled
  <2>2. requests' = requests \/ requests' = Append(requests, "reconnect")
    BY <1>3 DEF slotCalled, reconnectSignals
  <2>3. requests' \in Seq(Requests)
    BY <2>2, <1>0, <1>2 DEF Numbers, Requests
  <2> QED
    BY <2>1, <2>3, <1>0 DEF Numbers
<1>4. CASE throttlerCalled \/ cycle \/ UNCHANGED vars
  BY <1>1, <1>4 DEF throttlerCalled, cycle, vars, monitoring
<1>5. ASSUME NEW c \in Clients,
             \/ registerConnect(c) \/ onError(c) \/ onGetDeviceSchema(c)
             \/ onStartMonitoringDevice(c) \/ onStopMonitoringDevice(c)
      PROVE Numbers'
  <2>1. Message(c)
    BY <1>5 DEF registerConnect, onError, onGetDeviceSchema, onStartMonitoringDevice,
                onStopMonitoringDevice
  <2>2. UNCHANGED <<usage, requests, replies>>
    BY <2>1 DEF Message
  <2>3. mutex' = mutex \/ mutex' = c
    BY <1>5 DEF registerConnect, onError, onGetDeviceSchema, onStartMonitoringDevice,
                onStopMonitoringDevice, Leave
  <2> QED
    BY <2>2, <2>3, <1>0 DEF Numbers
<1>6. CASE deviceLife \/ submitChange
  BY <1>1, <1>6 DEF deviceLife, deviceStarts, deviceEnds, submitChange
<1>7. CASE instanceNewHandler \/ instanceGoneHandler
  <2>1. UNCHANGED <<usage, requests, replies>>
    BY <1>7 DEF instanceNewHandler, instanceGoneHandler
  <2>2. mutex' = mutex \/ mutex' = Slots
    BY <1>7 DEF instanceNewHandler, instanceGoneHandler
  <2> QED
    BY <2>1, <2>2, <1>0 DEF Numbers
<1>8. CASE treat
  <2>1. UNCHANGED <<mutex, replies>>
    BY <1>8 DEF treat
  <2>2. /\ usage' = usage \/ usage' = None \/ usage' = -1
        /\ requests' = requests \/ requests' = Append(requests, "disconnect")
    BY <1>8 DEF treat, treatInstanceAsGone, UsageIfGone
  <2>3. requests' \in Seq(Requests)
    BY <2>2, <1>0, <1>2 DEF Numbers, Requests
  <2>4. -1 \in -1 .. KeepAlive - 1
    BY <1>0
  <2> QED
    BY <2>1, <2>2, <2>3, <2>4, <1>0 DEF Numbers
<1>9. CASE ageing
  <2>1. UNCHANGED <<mutex, replies>> /\ usage \in -1 .. KeepAlive - 1
    BY <1>9, <1>0 DEF ageing, age, Numbers
  <2>2. CASE usage + 1 >= KeepAlive
    <3>1. usage' = None /\ requests' = Append(requests, "disconnect")
      BY <1>9, <2>2 DEF ageing, age
    <3>2. requests' \in Seq(Requests)
      BY <3>1, <1>2 DEF Requests
    <3> QED
      BY <3>1, <3>2, <2>1, <1>0 DEF Numbers
  <2>3. CASE ~(usage + 1 >= KeepAlive)
    <3>1. usage' = usage + 1 /\ requests' = requests
      BY <1>9, <2>3 DEF ageing, age
    <3>2. usage + 1 \in -1 .. KeepAlive - 1
      BY <2>1, <2>3, <1>0
    <3> QED
      BY <3>1, <3>2, <2>1, <1>0 DEF Numbers
  <2> QED
    BY <2>2, <2>3
<1>10. CASE answer
  <2>1. UNCHANGED <<mutex, usage>> /\ requests # <<>> /\ requests' = Tail(requests)
    BY <1>10 DEF answer, brokerAnswers
  <2>2. replies' = replies \/ replies' = replies + 1
    BY <1>10 DEF answer, brokerAnswers, slotGetConfiguration
  <2>3. requests' \in Seq(Requests)
    <3>1. requests \in Seq(Requests)
      BY <1>0 DEF Numbers
    <3> QED
      BY <3>1, <2>1
  <2> QED
    BY <2>1, <2>2, <2>3, <1>0 DEF Numbers
<1>11. CASE configuration
  <2>1. UNCHANGED <<mutex, usage, requests>> /\ replies > 0 /\ replies' = replies - 1
    BY <1>11 DEF configuration, _slotChanged
  <2> QED
    BY <2>1, <1>0 DEF Numbers
<1>12. CASE sendSignalsChanged
  BY <1>1, <1>12 DEF sendSignalsChanged
<1>13. ASSUME NEW c \in Clients, onGetDeviceConfiguration(c)
       PROVE UNCHANGED <<mutex, usage, requests, replies>>
  BY <1>13 DEF onGetDeviceConfiguration
<1>14. CASE threadStep
  <2>1. PICK t \in Threads :
           \/ connectAndRequest(t) \/ getDeviceSchemaNoWait(t) \/ asyncConnect(t)
           \/ immortalize(t) \/ buryZombie(t) \/ mortalize(t)
    BY <1>14 DEF threadStep
  <2>2. CASE connectAndRequest(t) \/ getDeviceSchemaNoWait(t)
    <3>1. UNCHANGED <<mutex, requests>>
      BY <2>2 DEF connectAndRequest, getDeviceSchemaNoWait
    <3>2. PICK h : stayConnected(t, h)
      BY <2>2 DEF connectAndRequest, getDeviceSchemaNoWait
    <3>3. usage' = 0 /\ (replies' = replies \/ replies' = replies + 1)
      BY <3>2 DEF stayConnected, slotGetConfiguration
    <3>4. 0 \in -1 .. KeepAlive - 1
      BY <1>0
    <3> QED
      BY <3>1, <3>3, <3>4, <1>0 DEF Numbers
  <2>3. CASE asyncConnect(t)
    <3>1. UNCHANGED <<mutex, usage, replies>>
      BY <2>3 DEF asyncConnect
    <3>2. PICK h \in {"configuration", "schema"} : requests' = Append(requests, h)
      BY <2>3 DEF asyncConnect
    <3>3. requests' \in Seq(Requests)
      BY <3>2, <1>2 DEF Requests
    <3> QED
      BY <3>1, <3>3, <1>0 DEF Numbers
  <2>4. CASE immortalize(t) \/ mortalize(t)
    <3>1. UNCHANGED <<usage, requests, replies>> /\ mutex' = None
      BY <2>4 DEF immortalize, mortalize
    <3> QED
      BY <3>1, <1>0 DEF Numbers
  <2>5. CASE buryZombie(t)
    <3>1. UNCHANGED <<mutex, requests, replies>> /\ (usage' = usage \/ usage' = None)
      BY <2>5 DEF buryZombie
    <3> QED
      BY <3>1, <1>0 DEF Numbers
  <2> QED
    BY <2>1, <2>2, <2>3, <2>4, <2>5
<1> QED
  BY <1>1, <1>3, <1>4, <1>5, <1>6, <1>7, <1>8, <1>9, <1>10, <1>11, <1>12, <1>13, <1>14
     DEF Next, Messages, Slot, Thread

(* Only clients that are logged in monitor, and only these get something.  *)
LEMMA ClientSteps ==
    ASSUME TypeOK, WorkInv, [Next]_vars
    PROVE  ClientTypes'
<1>0. ClientTypes /\ setup' = setup /\ setup.ops \in Nat
  BY TypeParts, TopologyTypes, SystemAssumption DEF TopologyTypeOK
<1>1. ASSUME UNCHANGED <<channels, visible, got, ops>> PROVE ClientTypes'
  BY <1>0, <1>1 DEF ClientTypes
<1>2. CASE slotCalled \/ throttlerCalled \/ cycle \/ UNCHANGED vars
  BY <1>1, <1>2 DEF slotCalled, throttlerCalled, cycle, vars
<1>3. ASSUME NEW c \in Clients,
             \/ registerConnect(c) \/ onError(c) \/ onGetDeviceSchema(c)
             \/ onStartMonitoringDevice(c) \/ onStopMonitoringDevice(c)
      PROVE ClientTypes'
  <2>1. Message(c)
    BY <1>3 DEF registerConnect, onError, onGetDeviceSchema, onStartMonitoringDevice,
                onStopMonitoringDevice
  <2>2. ops' \in 0 .. setup'.ops
    <3>1. ops < setup.ops /\ ops' = ops + 1
      BY <2>1 DEF Message
    <3> QED
      BY <3>1, <1>0 DEF ClientTypes
  <2>3. channels \subseteq Clients /\ visible \subseteq channels /\ got \subseteq visible
    BY <1>0 DEF ClientTypes
  <2>4. channels' \subseteq Clients /\ visible' \subseteq channels' /\ got' \subseteq visible'
    BY <1>3, <2>3 DEF registerConnect, onError, onGetDeviceSchema, onStartMonitoringDevice,
                      onStopMonitoringDevice, Leave
  <2> QED
    BY <2>2, <2>4 DEF ClientTypes
<1>4. CASE deviceLife
  <2>1. UNCHANGED <<channels, visible, got>> /\ ops < setup.ops /\ ops' = ops + 1
    BY <1>4 DEF deviceLife
  <2>2. ops' \in 0 .. setup'.ops
    BY <2>1, <1>0 DEF ClientTypes
  <2> QED
    BY <2>1, <2>2, <1>0 DEF ClientTypes
<1>5. CASE treat \/ instanceNewHandler \/ submitChange
  BY <1>1, <1>5 DEF treat, instanceNewHandler, submitChange
<1>6. CASE instanceGoneHandler
  <2>1. UNCHANGED <<channels, ops>> /\ visible' = {} /\ got' = {}
    BY <1>6 DEF instanceGoneHandler
  <2> QED
    BY <2>1, <1>0 DEF ClientTypes
<1>7. CASE ageing \/ answer \/ configuration \/ threadStep
  BY <1>1, <1>7 DEF ageing, answer, configuration, threadStep, client
<1>8. CASE sendSignalsChanged
  <2>1. UNCHANGED <<channels, visible, ops>> /\ (got' = visible \/ got' = got)
    BY <1>8 DEF sendSignalsChanged
  <2> QED
    BY <2>1, <1>0 DEF ClientTypes
<1>9. ASSUME NEW c \in Clients, onGetDeviceConfiguration(c) PROVE ClientTypes'
  <2>1. UNCHANGED <<channels, visible, ops>> /\ (got' = got \cup ({c} \cap visible) \/ got' = got)
    BY <1>9 DEF onGetDeviceConfiguration
  <2> QED
    BY <2>1, <1>0 DEF ClientTypes
<1> QED
  BY <1>2, <1>3, <1>4, <1>5, <1>6, <1>7, <1>8, <1>9
     DEF Next, Messages, Slot, Thread

-----------------------------------------------------------------------------
(* The theorems.                                                           *)

(* The invariant holds at first.                                           *)
LEMMA InitInv ==
    Init => Inv
<1> SUFFICES ASSUME Init PROVE Inv
  OBVIOUS
<1>0. /\ setup \in Setups /\ setup.calls \in Nat /\ setup.ops \in Nat /\ setup.infos \subseteq Infos
      /\ setup.watching \subseteq Clients /\ KeepAlive \in Nat \ {0, 1} /\ Device \in Instances
      /\ Slots \in Threads /\ None \notin Infos /\ Bare \notin MaybeInfo /\ Bare # None
  BY SystemAssumption, MonitoringAssumption, ThrottlerAssumption
     DEF Init, TopologyInit, Threads, MaybeInfo
<1>1. /\ instChanges = initCycleInstChanges /\ timer = "waiting" /\ queued = 0
      /\ todo = <<>> /\ calls = 0 /\ ops = 0 /\ gui = listed
      /\ visible = setup.watching /\ got = visible /\ MonitoringInit(visible # {})
  BY DEF Init, TopologyInit, ThrottlerInit
<1>2. (channels = {} /\ visible = {}) \/ channels = Clients
  BY <1>1 DEF Init
<1>3. listed \in [Instances -> MaybeInfo]
  <2>1. NoEntry \in [Instances -> MaybeInfo]
    BY DEF NoEntry, MaybeInfo
  <2>2. listed = NoEntry \/ \E info \in setup.infos : listed = [NoEntry EXCEPT ![Device] = info]
    BY DEF Init
  <2>3. \A info \in setup.infos : info \in MaybeInfo
    BY <1>0 DEF MaybeInfo
  <2> QED
    BY <2>1, <2>2, <2>3, <1>0
<1>4. /\ initCycleInstChanges.new = NoEntry /\ initCycleInstChanges.update = NoEntry
      /\ initCycleInstChanges.gone = {} /\ initCycleInstChanges.total = 0
      /\ initCycleInstChanges \in Changes /\ With(NoEntry) = {}
      /\ \A i \in Instances : NoEntry[i] = None
  BY DEF initCycleInstChanges, Changes, NoEntry, MaybeInfo, With
<1>5. /\ work = [t \in Threads |-> <<>>] /\ mutex = None
      /\ usage = (IF visible # {} THEN 0 ELSE None)
      /\ requests = <<>> /\ replies = 0
  BY <1>1 DEF MonitoringInit
<1>6. Flags
  BY <1>1 DEF MonitoringInit, Flags
<1>7. Numbers
  <2>1. 0 \in -1 .. KeepAlive - 1
    BY <1>0
  <2> QED
    BY <2>1, <1>5 DEF Numbers
<1>8. ClientTypes
  <2>1. 0 \in 0 .. setup.ops
    BY <1>0
  <2> QED
    BY <2>1, <1>0, <1>1, <1>2 DEF ClientTypes
<1>9. TopologyTypeOK
  <2>1. ThrottlerTypeOK
    BY <1>1, <1>3, <1>4 DEF ThrottlerTypeOK, Changes
  <2>2. 0 \in 0 .. setup.calls
    BY <1>0
  <2>3. <<>> \in Seq(Change)
    OBVIOUS
  <2>4. listed \in [Instances -> MaybeInfo \cup {Bare}]
    BY <1>3
  <2> QED
    BY <2>1, <2>2, <2>3, <2>4, <1>0, <1>1 DEF TopologyTypeOK
<1>10. TypeOK
  <2>1. work \in [Threads -> Seq(Step)]
    BY <1>5
  <2> QED
    BY <2>1, <1>6, <1>7, <1>8, <1>9, TypeParts
<1>11. WorkInv
  BY <1>0, <1>5 DEF WorkInv, Threads
<1>12. CycleInv
  <2>1. Cardinality({}) = 0
    BY FS_EmptySet
  <2> QED
    BY <2>1, <1>1, <1>4 DEF CycleInv
<1>13. AgreeInv
  <2>1. \A i \in Instances : Will(i) = gui[i]
    BY <1>1, <1>4 DEF Will, topology_update
  <2>2. \A i \in Instances : Shown[i] = listed[i]
    BY <1>0, <1>3 DEF Shown
  <2>3. \A k \in 1 .. Len(todo) : FALSE
    BY <1>1
  <2> QED
    BY <2>1, <2>2, <2>3, <1>1 DEF AgreeInv
<1>14. UsageIsTrue
  BY <1>1, <1>5 DEF UsageIsTrue, Stored, MonitoringInit
<1> QED
  BY <1>10, <1>11, <1>12, <1>13, <1>14 DEF Inv

(* It is kept by all steps of the server, its clients and the device.      *)
THEOREM Invariance == Spec => []Inv
<1>1. ASSUME Inv, [Next]_vars PROVE Inv'
  <2>0. TypeOK /\ WorkInv /\ CycleInv /\ AgreeInv /\ UsageIsTrue
    BY <1>1 DEF Inv
  <2>1. ThrottlerOK' /\ queued' \in Nat /\ AgreeInv'
    BY <1>1, <2>0, AgreeStep
  <2>2. work' \in [Threads -> Seq(Step)] /\ WorkInv'
    BY <1>1, <2>0, WorkStep
  <2>3. UsageIsTrue'
    BY <1>1, <2>0, UsageStep
  <2>4. Flags' /\ Numbers' /\ ClientTypes'
    BY <1>1, <2>0, FlagTypes, NumberTypes, ClientSteps
  <2>5. CycleInv'
    BY <2>1 DEF ThrottlerOK, Consistent, Counted, CycleInv
  <2>6. TopologyTypeOK'
    <3>1. /\ listed' \in [Instances -> MaybeInfo \cup {Bare}] /\ todo' \in Seq(Change)
          /\ setup' = setup /\ calls' \in 0 .. setup'.calls
      BY <1>1, <2>0, TopologyTypes
    <3>2. setup \in Setups
      BY <2>0 DEF TypeOK, TopologyTypeOK
    <3>3. ThrottlerTypeOK'
      BY <2>1 DEF ThrottlerOK, ThrottlerTypeOK, Changes
    <3> QED
      BY <3>1, <3>2, <3>3 DEF TopologyTypeOK
  <2>7. TypeOK'
    <3>1. {immortal', cached', changed', registered', running', announced', early', fooled'}
            \subseteq BOOLEAN
      BY <2>4 DEF Flags
    <3> QED
      BY <3>1, <2>2, <2>4, <2>6 DEF TypeOK, MonitoringTypeOK, Numbers, ClientTypes, Requests
  <2> QED
    BY <2>1, <2>2, <2>3, <2>5, <2>7 DEF Inv
<1> QED
  BY <1>1, InitInv, PTL DEF Spec

(* All variables keep their types.                                         *)
THEOREM TypeCorrect == Spec => []TypeOK
<1>1. Inv => TypeOK
  BY DEF Inv
<1> QED
  BY <1>1, Invariance, PTL

(* Whenever no slot is running, what a graphical client shows, together    *)
(* with the changes that the InstanceChangeThrottler still keeps, is what  *)
(* DeviceClient knows: merging, dropping and reordering changes within a   *)
(* cycle loses nothing, for any servers, devices, limit and number of      *)
(* changes.                                                                *)
THEOREM ClientsAgree == Spec => []GuiAgrees
<1>1. Inv => GuiAgrees
  <2> SUFFICES ASSUME Inv, setup.throttler, todo = <<>>
               PROVE  topology_update(instChanges, gui) = Shown
    BY DEF GuiAgrees
  <2>1. AgreeInv
    BY DEF Inv
  <2>2. \A k \in 1 .. Len(todo) : FALSE
    OBVIOUS
  <2>3. \A i \in Instances : topology_update(instChanges, gui)[i] = Shown[i]
    BY <2>1, <2>2 DEF AgreeInv, Will
  <2>4. /\ DOMAIN topology_update(instChanges, gui) = Instances /\ DOMAIN Shown = Instances
        /\ topology_update(instChanges, gui) = [i \in Instances |-> topology_update(instChanges, gui)[i]]
        /\ Shown = [i \in Instances |-> Shown[i]]
    BY DEF topology_update, Shown
  <2> QED
    BY <2>3, <2>4
<1> QED
  BY <1>1, Invariance, PTL

(* A device that m_instanceUsage counts as connected is connected, or will *)
(* be when what was asked for is done, however clients, slots and ageing   *)
(* interleave.                                                             *)
THEOREM UsageTold == Spec => []UsageIsTrue
<1>1. Inv => UsageIsTrue
  BY DEF Inv
<1> QED
  BY <1>1, Invariance, PTL
=============================================================================
