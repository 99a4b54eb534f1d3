------------------------- MODULE InputChannelProofs -------------------------
(***************************************************************************)
(* Proofs about the two pots of an input channel for any finite set of     *)
(* output channels, any "minData" and any number of messages.              *)
(***************************************************************************)
EXTENDS InputChannel, FiniteSetTheorems, SequenceTheorems, TLAPS

USE OutputsAssumption, BoundsAssumption

(* Only what is connected is read; the end of the stream is forgotten when *)
(* the connection ends.                                                    *)
LinkInv ==
    /\ ~handling.busy => handling = NotHandling
    /\ \A o \in Outputs :
          /\ link[o] = "up" => o \in open
          /\ link[o] # "up" => wire[o] = 0 /\ ~ready[o] /\ toInput[o] = <<>>
          /\ reading[o] \in {"markEos", "erase", "gone"} => link[o] # "up" /\ o \notin eosChannels

(* Messages on their way are numbered in order, without a gap.             *)
WireInv ==
    \A o \in Outputs :
        /\ \A i \in 1..Len(toInput[o]) : toInput[o][i] # 0 =>
              items[o].read < toInput[o][i] /\ toInput[o][i] <= items[o].sent
        /\ \A i, j \in 1..Len(toInput[o]) :
              i < j /\ toInput[o][i] # 0 /\ toInput[o][j] # 0 => toInput[o][i] < toInput[o][j]
        /\ link[o] = "up" => \A n \in (items[o].read + 1)..items[o].sent :
              \E i \in 1..Len(toInput[o]) : toInput[o][i] = n

(* A filled active pot will be handled, once.                              *)
TriggerInv ==
    /\ Filled(active) => Triggered
    /\ minData > 0 =>
          /\ Triggered => Filled(active)
          /\ posted <= 1
          /\ posted = 1 => ~handling.next /\ \A o \in Outputs : reading[o] # "post"
          /\ handling.next => \A o \in Outputs : reading[o] # "post"
          /\ \A o, p \in Outputs : reading[o] = "post" /\ reading[p] = "post" => o = p

(* Who is counted as having sent the end of the stream has done so, and is *)
(* connected unless disconnect() closed the connection.                    *)
NoneClosed == \A c \in outputs : link[c] = "closed" => eos.read[c] = 0

AllSent == \A o \in open : link[o] = "up" => eos.read[o] > 0

EosInv ==
    /\ eos.handled + eos.skipped + EosMarks <= eos.treated
    /\ \A c \in eosChannels : eos.read[c] > 0 /\ (c \in open \/ link[c] = "closed")
    /\ NoneClosed /\ eos.treated > 0 => AllSent
    /\ \A o \in Outputs : NoneClosed /\ reading[o] = "markEos" => AllSent

(* A single output channel is asked for one message at a time, and not     *)
(* while a complete pot waits.                                             *)
Credit(o) ==
    wire[o] + Mark(ready[o]) + Len(toInput[o]) + Mark(reading[o] \in {"notify", "post"})

SingleInv ==
    minData > 0 /\ Cardinality(outputs) = 1 =>
        /\ ~EosOverwritten
        /\ handling.next => ~Complete(inactive)
        /\ \A o \in Outputs : reading[o] # "markEos"
        /\ \A o \in outputs : /\ Credit(o) <= 1
                              /\ Complete(inactive) \/ handling.next => Credit(o) = 0

Inv ==
    /\ TypeOK /\ LinkInv /\ WireInv /\ HandledInOrder
    /\ TriggerInv /\ EosInv /\ NobodyStalls /\ SingleInv

-----------------------------------------------------------------------------
(* The items of an output channel are numbered from "first" to "last".     *)
Item == Outputs \X (1..MaxMsgs)

Numbered(o, data, first, last) ==
    /\ {data[i][2] : i \in ItemsOf(o, data)} = first..last
    /\ \A i, j \in ItemsOf(o, data) : i < j => data[i][2] < data[j][2]

(* The same as the property, channel by channel                            *)
LEMMA InOrderNumbered ==
    HandledInOrder <=>
        \A o \in Outputs : Numbered(o, Waiting, items[o].handled + 1, items[o].read)
  BY DEF HandledInOrder, Numbered

(* Adding the next item of a channel *)
LEMMA NumberedNext ==
    ASSUME NEW o \in Outputs, NEW d \in Seq(Item), NEW h \in Nat, NEW r \in Nat,
           Numbered(o, d, h + 1, r), h <= r, r + 1 <= MaxMsgs
    PROVE  Numbered(o, Append(d, <<o, r + 1>>), h + 1, r + 1)
  <1> DEFINE e == Append(d, <<o, r + 1>>)
  <1>1. /\ Len(d) \in Nat
        /\ Len(e) = Len(d) + 1
        /\ \A i \in 1..Len(d) : e[i] = d[i]
        /\ e[Len(d) + 1] = <<o, r + 1>>
    BY DEF Item
  <1> HIDE DEF e
  <1>2. ItemsOf(o, e) = ItemsOf(o, d) \cup {Len(d) + 1}
    BY <1>1 DEF ItemsOf
  <1>3. \A i \in ItemsOf(o, d) : i \in 1..Len(d) /\ e[i] = d[i]
    BY <1>1 DEF ItemsOf
  <1>4. {e[i][2] : i \in ItemsOf(o, e)} = {d[i][2] : i \in ItemsOf(o, d)} \cup {r + 1}
    BY <1>1, <1>2, <1>3
  <1>5. {e[i][2] : i \in ItemsOf(o, e)} = (h + 1)..(r + 1)
    <2>1. {d[i][2] : i \in ItemsOf(o, d)} = (h + 1)..r
      BY DEF Numbered
    <2>2. (h + 1)..r \cup {r + 1} = (h + 1)..(r + 1)
      OBVIOUS
    <2> QED  BY <1>4, <2>1, <2>2
  <1>6. \A i \in ItemsOf(o, d) : d[i][2] \in (h + 1)..r
    BY DEF Numbered
  <1>7. ASSUME NEW i \in ItemsOf(o, e), NEW j \in ItemsOf(o, e), i < j
        PROVE  e[i][2] < e[j][2]
    <2>1. i \in ItemsOf(o, d)
      BY <1>1, <1>2, <1>3, <1>7
    <2>2. CASE j \in ItemsOf(o, d)
      BY <1>3, <1>7, <2>1, <2>2 DEF Numbered
    <2>3. CASE j = Len(d) + 1
      <3>1. e[j][2] = r + 1
        BY <1>1, <2>3
      <3>2. e[i][2] \in (h + 1)..r
        BY <1>3, <1>6, <2>1
      <3> QED  BY <3>1, <3>2
    <2> QED  BY <1>2, <2>2, <2>3
  <1> QED  BY <1>5, <1>7 DEF Numbered, e

(* ... or of another one *)
LEMMA NumberedOther ==
    ASSUME NEW o \in Outputs, NEW p \in Outputs, p # o, NEW d \in Seq(Item),
           NEW n \in 1..MaxMsgs, NEW h, NEW r, Numbered(o, d, h, r)
    PROVE  Numbered(o, Append(d, <<p, n>>), h, r)
  <1> DEFINE e == Append(d, <<p, n>>)
  <1>1. /\ Len(d) \in Nat
        /\ Len(e) = Len(d) + 1
        /\ \A i \in 1..Len(d) : e[i] = d[i]
        /\ e[Len(d) + 1] = <<p, n>>
    BY DEF Item
  <1> HIDE DEF e
  <1>2. ItemsOf(o, e) = ItemsOf(o, d)
    BY <1>1 DEF ItemsOf
  <1>3. \A i \in ItemsOf(o, d) : i \in 1..Len(d) /\ e[i] = d[i]
    BY <1>1 DEF ItemsOf
  <1>4. {e[i][2] : i \in ItemsOf(o, e)} = {d[i][2] : i \in ItemsOf(o, d)}
    BY <1>2, <1>3
  <1>5. \A i, j \in ItemsOf(o, e) : i < j => e[i][2] < e[j][2]
    BY <1>2, <1>3 DEF Numbered
  <1>6. Numbered(o, e, h, r)
    BY <1>4, <1>5 DEF Numbered
  <1> QED  BY <1>6 DEF e

(* What is handled are the first items: the count tells where the rest     *)
(* starts.                                                                 *)
LEMMA NumberedRest ==
    ASSUME NEW o \in Outputs, NEW d \in Seq(Item), NEW rest \in Seq(Item),
           NEW h \in Nat, NEW r \in Nat, h <= r, Numbered(o, d \o rest, h + 1, r)
    PROVE  LET n == Cardinality(ItemsOf(o, d))
           IN  n \in Nat /\ h + n <= r /\ Numbered(o, rest, h + n + 1, r)
  <1> DEFINE w == d \o rest
             Idx == ItemsOf(o, d)
             D == {d[i][2] : i \in Idx}
             n == Cardinality(Idx)
             R == {rest[i][2] : i \in ItemsOf(o, rest)}
  <1>1. /\ Len(d) \in Nat /\ Len(rest) \in Nat
        /\ Len(w) = Len(d) + Len(rest)
        /\ \A i \in 1..Len(d) : w[i] = d[i]
        /\ \A i \in 1..Len(rest) : w[Len(d) + i] = rest[i]
    BY DEF Item
  <1> HIDE DEF w
  <1>2. \A i \in Idx : i \in 1..Len(d) /\ i \in ItemsOf(o, w) /\ w[i] = d[i]
    BY <1>1 DEF ItemsOf
  <1>3. \A i \in ItemsOf(o, rest) : /\ i \in 1..Len(rest) /\ Len(d) + i \in ItemsOf(o, w)
                                   /\ w[Len(d) + i] = rest[i]
    BY <1>1 DEF ItemsOf
  <1>4. ASSUME NEW i \in ItemsOf(o, w)
        PROVE  i \in Idx \/ (i - Len(d) \in ItemsOf(o, rest) /\ i = Len(d) + (i - Len(d)))
    <2>1. i \in 1..Len(w) /\ w[i][1] = o
      BY DEF ItemsOf
    <2>2. CASE i <= Len(d)
      BY <1>1, <2>1, <2>2 DEF ItemsOf
    <2>3. CASE i > Len(d)
      <3>1. i - Len(d) \in 1..Len(rest) /\ i = Len(d) + (i - Len(d))
        BY <1>1, <2>1, <2>3
      <3>2. w[i] = rest[i - Len(d)]
        BY <1>1, <3>1
      <3> QED  BY <2>1, <3>1, <3>2 DEF ItemsOf
    <2> QED  BY <1>1, <2>1, <2>2, <2>3
  <1>5. /\ {w[i][2] : i \in ItemsOf(o, w)} = (h + 1)..r
        /\ \A i, j \in ItemsOf(o, w) : i < j => w[i][2] < w[j][2]
    BY DEF Numbered, w
  <1>6. D \subseteq (h + 1)..r
    BY <1>2, <1>5
  <1>7. R \subseteq (h + 1)..r
    BY <1>3, <1>5
  <1>8. \A x \in D, y \in R : x < y
    <2> SUFFICES ASSUME NEW i \in Idx, NEW j \in ItemsOf(o, rest)
                 PROVE  d[i][2] < rest[j][2]
      OBVIOUS
    <2>1. i < Len(d) + j
      BY <1>1, <1>2, <1>3
    <2> QED  BY <1>2, <1>3, <1>5, <2>1
  <1>9. (h + 1)..r \subseteq D \cup R
    <2> SUFFICES ASSUME NEW x \in (h + 1)..r  PROVE x \in D \cup R
      OBVIOUS
    <2>1. PICK i \in ItemsOf(o, w) : w[i][2] = x
      BY <1>5
    <2>2. CASE i \in Idx
      BY <1>2, <2>1, <2>2
    <2>3. CASE i - Len(d) \in ItemsOf(o, rest) /\ i = Len(d) + (i - Len(d))
      BY <1>3, <2>1, <2>3
    <2> QED  BY <1>4, <2>2, <2>3
  <1>10. IsFiniteSet(Idx) /\ n \in Nat
    <2>1. Idx \in SUBSET (1..Len(d))
      BY <1>2
    <2>2. IsFiniteSet(1..Len(d))
      BY <1>1, FS_Interval
    <2>3. IsFiniteSet(Idx)
      BY <2>1, <2>2, FS_Subset
    <2> QED  BY <2>3, FS_CardinalityType
  <1>11. IsFiniteSet(D) /\ Cardinality(D) = n
    <2> DEFINE f == [i \in Idx |-> d[i][2]]
    <2>1. f \in Bijection(Idx, D)
      <3>1. f \in [Idx -> D]
        OBVIOUS
      <3>2. \A i, j \in Idx : i < j => f[i] < f[j]
        BY <1>2, <1>5
      <3>3. \A i, j \in Idx : f[i] = f[j] => i = j
        <4> SUFFICES ASSUME NEW i \in Idx, NEW j \in Idx, f[i] = f[j]  PROVE i = j
          OBVIOUS
        <4>1. i \in Int /\ j \in Int
          BY <1>1, <1>2
        <4>2. f[i] \in D /\ f[j] \in D
          BY <3>1
        <4>3. f[i] \in Int /\ f[j] \in Int
          BY <1>6, <4>2
        <4>4. ~(i < j) /\ ~(j < i)
          BY <3>2, <4>3
        <4> QED  BY <4>1, <4>4
      <3>4. \A x \in D : \E i \in Idx : f[i] = x
        OBVIOUS
      <3>5. f \in Injection(Idx, D)
        BY <3>1, <3>3 DEF Injection, IsInjective
      <3>6. f \in Surjection(Idx, D)
        BY <3>1, <3>4 DEF Surjection
      <3> QED  BY <3>5, <3>6 DEF Bijection
    <2>2. ExistsBijection(Idx, D)
      BY <2>1 DEF ExistsBijection
    <2> QED  BY <1>10, <2>2, FS_Bijection
  <1>12. ASSUME NEW x \in D
         PROVE  (h + 1)..x \subseteq D /\ x <= h + n
    <2>1. x \in (h + 1)..r
      BY <1>6
    <2>2. (h + 1)..x \in SUBSET D
      <3> SUFFICES ASSUME NEW y \in (h + 1)..x  PROVE y \in D
        OBVIOUS
      <3>1. y \in D \cup R
        BY <1>9, <2>1
      <3>2. ~(x < y)
        BY <2>1
      <3> QED  BY <1>8, <3>1, <3>2
    <2>3. Cardinality((h + 1)..x) = x - (h + 1) + 1
      BY <2>1, FS_Interval
    <2>4. Cardinality((h + 1)..x) <= n
      BY <1>11, <2>2, FS_Subset
    <2> QED  BY <1>10, <2>1, <2>2, <2>3, <2>4
  <1>13. D = (h + 1)..(h + n)
    <2>1. D \in SUBSET ((h + 1)..(h + n))
      BY <1>6, <1>10, <1>12
    <2>2. /\ IsFiniteSet((h + 1)..(h + n))
          /\ Cardinality((h + 1)..(h + n)) = n
      <3>1. h + 1 \in Int /\ h + n \in Int
        BY <1>10
      <3>2. /\ IsFiniteSet((h + 1)..(h + n))
            /\ Cardinality((h + 1)..(h + n)) =
                  IF h + 1 > h + n THEN 0 ELSE (h + n) - (h + 1) + 1
        BY <3>1, FS_Interval
      <3> QED  BY <1>10, <3>2
    <2> QED  BY <1>11, <2>1, <2>2, FS_Subset
  <1> HIDE DEF D, R, n, Idx
  <1>14. h + n <= r
    <2>1. CASE n = 0
      BY <2>1
    <2>2. CASE n > 0
      BY <1>6, <1>10, <1>13, <2>2
    <2> QED  BY <1>10, <2>1, <2>2
  <1>15. R = (h + n + 1)..r
    <2>1. ASSUME NEW x \in R  PROVE x \in (h + n + 1)..r
      <3>1. x \in (h + 1)..r
        BY <1>7
      <3>2. x \notin (h + 1)..(h + n)
        BY <1>8, <1>13, <3>1
      <3> QED  BY <1>10, <3>1, <3>2
    <2>2. ASSUME NEW x \in (h + n + 1)..r  PROVE x \in R
      <3>1. x \in (h + 1)..r /\ x \notin (h + 1)..(h + n)
        BY <1>10
      <3> QED  BY <1>9, <1>13, <3>1
    <2> QED  BY <2>1, <2>2
  <1>16. \A i, j \in ItemsOf(o, rest) : i < j => rest[i][2] < rest[j][2]
    <2> SUFFICES ASSUME NEW i \in ItemsOf(o, rest), NEW j \in ItemsOf(o, rest), i < j
                 PROVE  rest[i][2] < rest[j][2]
      OBVIOUS
    <2>1. Len(d) + i < Len(d) + j
      BY <1>1, <1>3
    <2> QED  BY <1>3, <1>5, <2>1
  <1> QED  BY <1>10, <1>14, <1>15, <1>16 DEF Numbered, R, n, Idx

-----------------------------------------------------------------------------
(* A new input channel, connected but without any data                     *)
LEMMA InitInv == Init => Inv
  <1> SUFFICES ASSUME Init  PROVE Inv
    OBVIOUS
  <1>0. /\ active = Empty /\ inactive = Empty /\ handling = NotHandling
        /\ active.data = <<>> /\ inactive.data = <<>> /\ handling.data = <<>>
        /\ ~active.eos /\ ~inactive.eos /\ ~handling.eos /\ ~handling.next
        /\ ~handling.busy
    BY DEF Init, Empty, NotHandling
  <1>s. outputs \in (SUBSET Outputs) \ {{}} /\ outputs \subseteq Outputs /\ minData \in Nat
    BY SetupsAssumption DEF Init
  <1>1. TypeOK
    <2>2. active \in Pot /\ inactive \in Pot
      BY DEF Init, Empty, Pot
    <2>3. handling \in [busy : BOOLEAN, data : Seq(Outputs \X (1..MaxMsgs)),
                        eos : BOOLEAN, next : BOOLEAN]
      BY DEF Init, NotHandling
    <2>4. items \in [Outputs -> [sent : Nat, read : Nat, handled : Nat]]
      BY DEF Init
    <2>5. \A o \in Outputs : items[o].sent = 0 /\ items[o].read = 0 /\ items[o].handled = 0
      BY DEF Init
    <2>6. eos \in [read : [Outputs -> Nat], treated : Nat, handled : Nat, skipped : Nat]
      BY DEF Init
    <2>7. /\ wire \in [Outputs -> 0..(MaxMsgs + 1)]
          /\ ready \in [Outputs -> BOOLEAN]
          /\ toInput \in [Outputs -> Seq(0..MaxMsgs)]
      BY <1>s DEF Init
    <2> QED  BY <1>s, <2>2, <2>3, <2>4, <2>5, <2>6, <2>7 DEF Init, TypeOK
  <1>2. LinkInv
    BY <1>0 DEF Init, LinkInv
  <1>3. WireInv
    BY DEF Init, WireInv
  <1>4. HandledInOrder
    <2>1. Waiting = <<>>
      BY <1>0 DEF Waiting
    <2>2. \A o \in Outputs : ItemsOf(o, Waiting) = {}
      BY <2>1 DEF ItemsOf
    <2>3. \A o \in Outputs : items[o].handled = 0 /\ items[o].read = 0
      BY DEF Init
    <2> QED  BY <2>2, <2>3 DEF HandledInOrder
  <1>5. TriggerInv
    BY <1>0 DEF Init, TriggerInv, Triggered, Filled
  <1>6. EosMarks = 0 /\ eos.treated = 0 /\ eos.handled = 0 /\ eos.skipped = 0
    BY <1>0 DEF Init, EosMarks, Mark
  <1>7. EosInv
    BY <1>6 DEF Init, EosInv
  <1>8. NobodyStalls
    BY <1>s DEF Init, NobodyStalls, Asked
  <1>9. SingleInv
    <2>1. ~EosOverwritten
      BY <1>6 DEF EosOverwritten
    <2>2. minData > 0 => ~Complete(inactive)
      BY <1>0, <1>s DEF Complete, Init
    <2>3. \A o \in outputs : Credit(o) <= 1
      <3> SUFFICES ASSUME NEW o \in outputs  PROVE Credit(o) <= 1
        OBVIOUS
      <3>1. wire[o] = 0 /\ toInput[o] = <<>> /\ reading[o] = "idle"
        BY <1>s DEF Init
      <3>2. Len(toInput[o]) = 0
        BY <3>1
      <3> QED  BY <3>1, <3>2 DEF Credit, Mark
    <2>4. \A o \in Outputs : reading[o] # "markEos"
      BY DEF Init
    <2> QED  BY <1>0, <2>1, <2>2, <2>3, <2>4 DEF SingleInv
  <1> QED  BY <1>1, <1>2, <1>3, <1>4, <1>5, <1>7, <1>8, <1>9 DEF Inv

-----------------------------------------------------------------------------
(* Two pots and what is handled, as sequences *)
LEMMA PotTypes ==
    ASSUME TypeOK
    PROVE  /\ active.data \in Seq(Item) /\ inactive.data \in Seq(Item)
           /\ handling.data \in Seq(Item) /\ Waiting \in Seq(Item)
           /\ active.eos \in BOOLEAN /\ inactive.eos \in BOOLEAN
           /\ handling.eos \in BOOLEAN /\ handling.next \in BOOLEAN
           /\ handling.busy \in BOOLEAN
  <1>1. active \in Pot /\ inactive \in Pot
    BY DEF TypeOK
  <1>2. handling \in [busy : BOOLEAN, data : Seq(Outputs \X (1..MaxMsgs)),
                      eos : BOOLEAN, next : BOOLEAN]
    BY DEF TypeOK
  <1>3. /\ active.data \in Seq(Item) /\ inactive.data \in Seq(Item)
        /\ active.eos \in BOOLEAN /\ inactive.eos \in BOOLEAN
    BY <1>1 DEF Pot, Item
  <1>4. /\ handling.data \in Seq(Item) /\ handling.busy \in BOOLEAN
        /\ handling.eos \in BOOLEAN /\ handling.next \in BOOLEAN
    BY <1>2 DEF Item
  <1>5. Waiting \in Seq(Item)
    BY <1>3, <1>4 DEF Waiting
  <1> QED  BY <1>3, <1>4, <1>5

(* The counters *)
LEMMA CountTypes ==
    ASSUME TypeOK
    PROVE  /\ \A o \in Outputs :
                 /\ items[o] \in [sent : Nat, read : Nat, handled : Nat]
                 /\ items[o].sent \in Nat /\ items[o].read \in Nat /\ items[o].handled \in Nat
                 /\ eos.read[o] \in Nat
           /\ eos.treated \in Nat /\ eos.handled \in Nat /\ eos.skipped \in Nat
  <1>1. items \in [Outputs -> [sent : Nat, read : Nat, handled : Nat]]
    BY DEF TypeOK
  <1>2. eos \in [read : [Outputs -> Nat], treated : Nat, handled : Nat, skipped : Nat]
    BY DEF TypeOK
  <1>3. \A o \in Outputs : items[o] \in [sent : Nat, read : Nat, handled : Nat]
    BY <1>1
  <1>4. eos.read \in [Outputs -> Nat] /\ eos.treated \in Nat /\ eos.handled \in Nat /\ eos.skipped \in Nat
    BY <1>2
  <1> QED  BY <1>3, <1>4

(* onTcpChannelRead() as a whole: the message that is read, whether it is  *)
(* the end of all streams, and the pot it leads to.                        *)
Read(o, msg, treat) ==
    /\ msg = Head(toInput[o]) /\ toInput[o] # <<>>
    /\ link[o] = "up" /\ reading[o] = "idle"
    /\ treat = (msg = 0 /\ LastEos(eosChannels \cup {o}))
    /\ eosChannels' = IF msg = 0 THEN eosChannels \cup {o} ELSE eosChannels
    /\ toInput' = [toInput EXCEPT ![o] = Tail(@)]
    /\ items' = IF msg = 0 THEN items ELSE [items EXCEPT ![o].read = msg]
    /\ eos' = [eos EXCEPT !.read[o] = IF msg = 0 THEN @ + 1 ELSE @,
                          !.treated = IF treat THEN @ + 1 ELSE @]
    /\ UNCHANGED <<config, open, posted, handling, link, output>>

Incomplete(o, pot) ==
    ~Complete(pot) /\ inactive' = pot /\ reading' = [reading EXCEPT ![o] = "notify"] /\ UNCHANGED active

Swapped(o, pot) ==
    /\ Complete(pot) /\ ~Filled(active) /\ active' = pot /\ inactive' = active
    /\ reading' = [reading EXCEPT ![o] = "post"]

Kept(pot) ==
    Complete(pot) /\ Filled(active) /\ inactive' = pot /\ UNCHANGED <<active, reading>>

(* ... and what becomes of that pot                                        *)
LEMMA ReadIs ==
    ASSUME NEW o \in Outputs, onTcpChannelRead(o)
    PROVE  \E msg, treat, pot :
              /\ Read(o, msg, treat) /\ pot = Collected(o, msg, treat)
              /\ Incomplete(o, pot) \/ Swapped(o, pot) \/ Kept(pot)
  <1> DEFINE msg == Head(toInput[o])
             treat == msg = 0 /\ LastEos(eosChannels \cup {o})
             pot == Collected(o, msg, treat)
  <1>1. Read(o, msg, treat)
    BY DEF onTcpChannelRead, Read
  <1>2. LET channels == IF msg = 0 THEN eosChannels \cup {o} ELSE eosChannels
        IN  pot = Collected(o, msg, msg = 0 /\ LastEos(channels))
    <2>1. CASE msg = 0
      BY <2>1
    <2>2. CASE msg # 0
      BY <2>2
    <2> QED  BY <2>1, <2>2
  <1>3. Incomplete(o, pot) \/ Swapped(o, pot) \/ Kept(pot)
    BY <1>2 DEF onTcpChannelRead, Incomplete, Swapped, Kept
  <1> QED  BY <1>1, <1>3

(* The message that is read is the next one, and the pot gets it.          *)
LEMMA ReadFacts ==
    ASSUME TypeOK, WireInv, NEW o \in Outputs, NEW msg, NEW treat, Read(o, msg, treat),
           NEW pot, pot = Collected(o, msg, treat)
    PROVE  /\ treat \in BOOLEAN /\ msg \in 0..MaxMsgs /\ pot \in Pot
           /\ msg # 0 => /\ msg = items[o].read + 1 /\ msg <= items[o].sent
                         /\ pot.data = Append(inactive.data, <<o, msg>>)
           /\ msg = 0 => pot.data = inactive.data
           /\ pot.eos = treat
           /\ treat => msg = 0
  <1>1. treat \in BOOLEAN /\ (treat => msg = 0)
    BY DEF Read
  <1>2. toInput[o] \in Seq(0..MaxMsgs) /\ toInput[o] # <<>> /\ msg = Head(toInput[o])
    BY DEF TypeOK, Read
  <1>3. Len(toInput[o]) \in Nat /\ Len(toInput[o]) >= 1 /\ msg = toInput[o][1] /\ msg \in 0..MaxMsgs
    BY <1>2
  <1>4. ASSUME msg # 0  PROVE msg = items[o].read + 1 /\ msg <= items[o].sent
    <2>0. items[o].read \in Nat /\ items[o].sent \in Nat
      BY CountTypes
    <2>1. items[o].read < msg /\ msg <= items[o].sent
      BY <1>3, <1>4 DEF WireInv
    <2>2. items[o].read + 1 \in (items[o].read + 1)..items[o].sent
      BY <1>3, <2>0, <2>1
    <2>3. PICK i \in 1..Len(toInput[o]) : toInput[o][i] = items[o].read + 1
      BY <2>2 DEF WireInv, Read
    <2>4. ~(1 < i) \/ toInput[o][1] < toInput[o][i]
      BY <1>3, <1>4, <2>0, <2>3 DEF WireInv
    <2>5. i = 1
      BY <1>3, <2>0, <2>1, <2>3, <2>4
    <2> QED  BY <1>3, <2>1, <2>3, <2>5
  <1>5. pot.eos = treat
    BY DEF Collected
  <1>6. /\ msg # 0 => pot.data = Append(inactive.data, <<o, msg>>)
        /\ msg = 0 => pot.data = inactive.data
    BY DEF Collected
  <1>7. pot.data \in Seq(Item)
    <2>1. inactive.data \in Seq(Item)
      BY PotTypes
    <2>2. msg # 0 => <<o, msg>> \in Item
      BY <1>3 DEF Item
    <2>3. CASE msg = 0
      BY <1>6, <2>1, <2>3
    <2>4. CASE msg # 0
      <3>1. Append(inactive.data, <<o, msg>>) \in Seq(Item)
        BY <2>1, <2>2, <2>4
      <3> QED  BY <1>6, <2>4, <3>1
    <2> QED  BY <2>3, <2>4
  <1>8. pot \in Pot
    BY <1>1, <1>7 DEF Pot, Item, Collected
  <1> QED  BY <1>1, <1>3, <1>4, <1>5, <1>6, <1>8

(* Moving items from one pot to the next keeps their order                 *)
LEMMA ItemsConcat ==
    /\ \A a, b, c \in Seq(Item) : (a \o b) \o c = a \o (b \o c)
    /\ \A a \in Seq(Item) : a \o <<>> = a /\ <<>> \o a = a
    /\ \A a, b \in Seq(Item), x \in Item : a \o Append(b, x) = Append(a \o b, x)
  <1>1. ASSUME NEW a \in Seq(Item), NEW b \in Seq(Item), NEW c \in Seq(Item)
        PROVE  (a \o b) \o c = a \o (b \o c)
    BY ConcatAssociative
  <1>2. ASSUME NEW a \in Seq(Item)  PROVE a \o <<>> = a /\ <<>> \o a = a
    OBVIOUS
  <1>3. ASSUME NEW a \in Seq(Item), NEW b \in Seq(Item), NEW x \in Item
        PROVE  a \o Append(b, x) = Append(a \o b, x)
    OBVIOUS
  <1> QED  BY <1>1, <1>2, <1>3

(* Handled items are counted for all channels                              *)
LEMMA HandledCount ==
    ASSUME Inv, callHandlers, NEW o \in Outputs
    PROVE  LET n == Cardinality(ItemsOf(o, handling.data))
           IN  /\ n \in Nat
               /\ items'[o].sent = items[o].sent
               /\ items'[o].read = items[o].read
               /\ items'[o].handled = items[o].handled + n
               /\ items'[o] \in [sent : Nat, read : Nat, handled : Nat]
               /\ items[o].handled + n <= items[o].read
               /\ Numbered(o, active.data \o inactive.data, items[o].handled + n + 1, items[o].read)
  <1> DEFINE n == Cardinality(ItemsOf(o, handling.data))
             rest == active.data \o inactive.data
  <1>0. TypeOK /\ HandledInOrder
    BY DEF Inv
  <1>1. /\ handling.data \in Seq(Item) /\ active.data \in Seq(Item) /\ inactive.data \in Seq(Item)
    BY <1>0, PotTypes
  <1>2. rest \in Seq(Item)
    BY <1>1
  <1>3. Waiting = handling.data \o rest
    BY <1>1, ItemsConcat DEF Waiting
  <1>4. items[o] \in [sent : Nat, read : Nat, handled : Nat] /\ items[o].handled <= items[o].read
        /\ items[o].sent \in Nat /\ items[o].read \in Nat /\ items[o].handled \in Nat
    BY <1>0, CountTypes DEF TypeOK
  <1>5. Numbered(o, handling.data \o rest, items[o].handled + 1, items[o].read)
    BY <1>0, <1>3, InOrderNumbered
  <1>6. /\ n \in Nat /\ items[o].handled + n <= items[o].read
        /\ Numbered(o, rest, items[o].handled + n + 1, items[o].read)
    BY <1>1, <1>2, <1>4, <1>5, NumberedRest
  <1> HIDE DEF n
  <1>7. items'[o] = [items[o] EXCEPT !.handled = @ + n]
    BY DEF callHandlers, n
  <1>8. items[o].handled + n \in Nat
    BY <1>4, <1>6
  <1>9. /\ items'[o].sent = items[o].sent
        /\ items'[o].read = items[o].read
        /\ items'[o].handled = items[o].handled + n
        /\ items'[o] \in [sent : Nat, read : Nat, handled : Nat]
    BY <1>4, <1>7, <1>8
  <1> QED  BY <1>6, <1>9 DEF n

(* Requests are bounded, and whoever is connected has one afterwards       *)
LEMMA RequestedFacts ==
    ASSUME TypeOK, NEW S, wire' = Requested(S)
    PROVE  /\ wire' \in [Outputs -> 0..(MaxMsgs + 1)]
           /\ \A o \in Outputs : /\ wire[o] <= wire'[o] /\ wire'[o] <= wire[o] + 1
                                 /\ o \notin S \/ link[o] # "up" => wire'[o] = wire[o]
                                 /\ o \in S /\ link[o] = "up" => wire'[o] > 0
  <1>1. wire \in [Outputs -> 0..(MaxMsgs + 1)] /\ sent \in 0..MaxMsgs
    BY DEF TypeOK
  <1>2. ASSUME NEW o \in Outputs
        PROVE  /\ wire'[o] \in 0..(MaxMsgs + 1)
               /\ wire[o] <= wire'[o] /\ wire'[o] <= wire[o] + 1
               /\ o \notin S \/ link[o] # "up" => wire'[o] = wire[o]
               /\ o \in S /\ link[o] = "up" => wire'[o] > 0
    <2>1. wire'[o] = IF o \in S /\ link[o] = "up" /\ wire[o] <= MaxMsgs - sent
                       THEN wire[o] + 1 ELSE wire[o]
      BY DEF Requested
    <2>2. wire[o] \in 0..(MaxMsgs + 1)
      BY <1>1
    <2> QED  BY <1>1, <2>1, <2>2
  <1>3. wire' = [o \in Outputs |-> wire'[o]]
    BY DEF Requested
  <1> QED  BY <1>2, <1>3

(* Cutting a connection                                                    *)
LEMMA CutType ==
    ASSUME TypeOK, NEW o \in Outputs, NEW how \in {"lost", "closed"}, Cut(o, how),
           open' \subseteq open
    PROVE  TypeOK'
  <1>1. /\ link' \in [Outputs -> {"up", "lost", "closed"}]
        /\ wire' \in [Outputs -> 0..(MaxMsgs + 1)]
        /\ ready' \in [Outputs -> BOOLEAN]
        /\ toInput' \in [Outputs -> Seq(0..MaxMsgs)]
    <2>1. /\ link \in [Outputs -> {"up", "lost", "closed"}]
          /\ wire \in [Outputs -> 0..(MaxMsgs + 1)]
          /\ ready \in [Outputs -> BOOLEAN]
          /\ toInput \in [Outputs -> Seq(0..MaxMsgs)]
      BY DEF TypeOK
    <2>2. 0 \in 0..(MaxMsgs + 1)
      BY BoundsAssumption
    <2>3. <<>> \in Seq(0..MaxMsgs)
      OBVIOUS
    <2>4. link' = [link EXCEPT ![o] = how] /\ wire' = [wire EXCEPT ![o] = 0]
      BY DEF Cut
    <2>5. ready' = [ready EXCEPT ![o] = FALSE] /\ toInput' = [toInput EXCEPT ![o] = <<>>]
      BY DEF Cut
    <2>6. link' \in [Outputs -> {"up", "lost", "closed"}]
      BY <2>1, <2>4
    <2>7. wire' \in [Outputs -> 0..(MaxMsgs + 1)]
      BY <2>1, <2>2, <2>4
    <2>8. ready' \in [Outputs -> BOOLEAN]
      BY <2>1, <2>5
    <2>9. toInput' \in [Outputs -> Seq(0..MaxMsgs)]
      BY <2>1, <2>3, <2>5
    <2> QED
      BY <2>6, <2>7, <2>8, <2>9
  <1> QED  BY <1>1 DEF TypeOK, Cut, config, pots

(* What is left after the first message is taken                           *)
LEMMA TailFacts ==
    ASSUME NEW S, NEW s \in Seq(S), s # <<>>
    PROVE  /\ Tail(s) \in Seq(S)
           /\ Len(s) \in Nat \ {0}
           /\ Len(Tail(s)) = Len(s) - 1
           /\ \A i \in 1..Len(Tail(s)) : Tail(s)[i] = s[i + 1]
           /\ Head(s) = s[1]
  OBVIOUS

(* The history of end-of-streams after an update                           *)
Eos == [read : [Outputs -> Nat], treated : Nat, handled : Nat, skipped : Nat]

(* ... of one of its fields                                                *)
LEMMA EosUpdate ==
    ASSUME NEW e \in Eos, NEW a \in Nat, NEW o \in Outputs, NEW r \in Nat
    PROVE  /\ [e EXCEPT !.treated = a] \in Eos
           /\ [e EXCEPT !.treated = a].treated = a
           /\ [e EXCEPT !.treated = a].read = e.read
           /\ [e EXCEPT !.treated = a].handled = e.handled
           /\ [e EXCEPT !.treated = a].skipped = e.skipped
           /\ [e EXCEPT !.read[o] = r] \in Eos
           /\ [e EXCEPT !.read[o] = r].read = [e.read EXCEPT ![o] = r]
           /\ [e EXCEPT !.read[o] = r].treated = e.treated
           /\ [e EXCEPT !.read[o] = r].handled = e.handled
           /\ [e EXCEPT !.read[o] = r].skipped = e.skipped
  BY DEF Eos

(* ... of the number of handled or of skipped ones                         *)
LEMMA EosCounted ==
    ASSUME NEW e \in Eos, NEW h \in Nat
    PROVE  /\ [e EXCEPT !.handled = h] \in Eos
           /\ [e EXCEPT !.handled = h].handled = h
           /\ [e EXCEPT !.handled = h].read = e.read
           /\ [e EXCEPT !.handled = h].treated = e.treated
           /\ [e EXCEPT !.handled = h].skipped = e.skipped
           /\ [e EXCEPT !.skipped = h] \in Eos
           /\ [e EXCEPT !.skipped = h].skipped = h
           /\ [e EXCEPT !.skipped = h].read = e.read
           /\ [e EXCEPT !.skipped = h].treated = e.treated
           /\ [e EXCEPT !.skipped = h].handled = e.handled
  BY DEF Eos

(* What the round of handlers adds to it                                   *)
LEMMA HandledEos ==
    ASSUME TypeOK, callHandlers
    PROVE  /\ eos' \in Eos /\ eos'.read = eos.read /\ eos'.treated = eos.treated
           /\ eos'.handled + eos'.skipped = eos.handled + eos.skipped + Mark(handling.eos)
  <1>0. eos \in Eos /\ eos.handled \in Nat /\ eos.skipped \in Nat
    BY DEF TypeOK, Eos
  <1>1. CASE ~handling.eos
    <2>1. eos' = eos /\ Mark(handling.eos) = 0
      BY <1>1 DEF callHandlers, AfterEosHandler, Mark
    <2> QED  BY <1>0, <2>1
  <1>2. CASE handling.eos /\ eos' = [eos EXCEPT !.handled = @ + 1]
    <2>1. PICK h \in Nat : h = eos.handled + 1
      BY <1>0
    <2>2. eos' = [eos EXCEPT !.handled = h] /\ Mark(handling.eos) = 1
      BY <1>2, <2>1 DEF Mark
    <2>3. /\ eos' \in Eos /\ eos'.read = eos.read /\ eos'.treated = eos.treated
          /\ eos'.handled = h /\ eos'.skipped = eos.skipped
      BY <1>0, <2>2, EosCounted
    <2> QED  BY <1>0, <2>1, <2>2, <2>3
  <1>3. CASE handling.eos /\ eos' = [eos EXCEPT !.skipped = @ + 1]
    <2>1. PICK h \in Nat : h = eos.skipped + 1
      BY <1>0
    <2>2. eos' = [eos EXCEPT !.skipped = h] /\ Mark(handling.eos) = 1
      BY <1>3, <2>1 DEF Mark
    <2>3. /\ eos' \in Eos /\ eos'.read = eos.read /\ eos'.treated = eos.treated
          /\ eos'.handled = eos.handled /\ eos'.skipped = h
      BY <1>0, <2>2, EosCounted
    <2> QED  BY <1>0, <2>1, <2>2, <2>3
  <1> QED  BY <1>1, <1>2, <1>3 DEF callHandlers, AfterEosHandler

(* What onTcpChannelRead() adds to it                                      *)
LEMMA ReadEos ==
    ASSUME TypeOK, NEW o \in Outputs, NEW msg, NEW treat, Read(o, msg, treat)
    PROVE  /\ eos' \in Eos
           /\ eos'.read = [eos.read EXCEPT ![o] = IF msg = 0 THEN @ + 1 ELSE @]
           /\ eos'.treated = eos.treated + Mark(treat)
           /\ eos'.handled = eos.handled /\ eos'.skipped = eos.skipped
  <1>0. /\ eos \in Eos /\ eos.read \in [Outputs -> Nat] /\ eos.read[o] \in Nat
        /\ eos.treated \in Nat
    BY DEF TypeOK, Eos
  <1>1. PICK r \in Nat : r = IF msg = 0 THEN eos.read[o] + 1 ELSE eos.read[o]
    BY <1>0
  <1>2. PICK a \in Nat : a = IF treat THEN eos.treated + 1 ELSE eos.treated
    BY <1>0
  <1>3. PICK e : e = [eos EXCEPT !.read[o] = r]
    OBVIOUS
  <1>4. /\ e \in Eos /\ e.read = [eos.read EXCEPT ![o] = r] /\ e.treated = eos.treated
        /\ e.handled = eos.handled /\ e.skipped = eos.skipped
    BY <1>0, <1>1, <1>3 DEF Eos
  <1>5. eos' = [eos EXCEPT !.read[o] = IF msg = 0 THEN @ + 1 ELSE @,
                           !.treated = IF treat THEN @ + 1 ELSE @]
    BY DEF Read
  <1>6. eos' = [e EXCEPT !.treated = a]
    BY <1>0, <1>1, <1>2, <1>3, <1>5 DEF Eos
  <1>7. /\ eos' \in Eos /\ eos'.read = e.read /\ eos'.treated = a
        /\ eos'.handled = e.handled /\ eos'.skipped = e.skipped
    BY <1>4, <1>6 DEF Eos
  <1>8. a = eos.treated + Mark(treat)
    BY <1>0, <1>2 DEF Mark
  <1> QED  BY <1>0, <1>1, <1>4, <1>7, <1>8

(* A message that is read is an item of its output channel, or its end     *)
LEMMA ReadType ==
    ASSUME Inv, NEW o \in Outputs, onTcpChannelRead(o)
    PROVE  TypeOK'
  <1>0. TypeOK /\ WireInv
    BY DEF Inv
  <1>1. PICK msg, treat, pot :
              /\ Read(o, msg, treat) /\ pot = Collected(o, msg, treat)
              /\ Incomplete(o, pot) \/ Swapped(o, pot) \/ Kept(pot)
    BY ReadIs
  <1>2. /\ treat \in BOOLEAN /\ msg \in 0..MaxMsgs /\ pot \in Pot
        /\ msg # 0 => msg = items[o].read + 1 /\ msg <= items[o].sent
    BY <1>0, <1>1, ReadFacts
  <1>3. active' \in Pot /\ inactive' \in Pot
    BY <1>0, <1>1, <1>2 DEF TypeOK, Incomplete, Swapped, Kept
  <1>4. reading' \in [Outputs -> {"idle", "notify", "post", "markEos", "erase", "gone"}]
    BY <1>0, <1>1 DEF TypeOK, Incomplete, Swapped, Kept
  <1>5. toInput' \in [Outputs -> Seq(0..MaxMsgs)]
    <2>1. toInput[o] \in Seq(0..MaxMsgs) /\ toInput[o] # <<>>
      BY <1>0, <1>1 DEF TypeOK, Read
    <2>2. Tail(toInput[o]) \in Seq(0..MaxMsgs)
      BY <2>1, TailFacts
    <2> QED  BY <1>0, <1>1, <2>2 DEF TypeOK, Read
  <1>6. /\ items' \in [Outputs -> [sent : Nat, read : Nat, handled : Nat]]
        /\ \A p \in Outputs : /\ items'[p].handled <= items'[p].read
                              /\ items'[p].read <= items'[p].sent
                              /\ items'[p].sent <= sent
    <2>0. items \in [Outputs -> [sent : Nat, read : Nat, handled : Nat]]
      BY <1>0 DEF TypeOK
    <2>1. \A p \in Outputs : /\ items[p].handled <= items[p].read
                             /\ items[p].read <= items[p].sent
                             /\ items[p].sent <= sent
      BY <1>0 DEF TypeOK
    <2>2. CASE msg = 0
      <3>1. items' = items
        BY <1>1, <2>2 DEF Read
      <3> QED  BY <2>0, <2>1, <3>1
    <2>3. CASE msg # 0
      <3>1. items' = [items EXCEPT ![o].read = msg]
        BY <1>1, <2>3 DEF Read
      <3>2. msg \in Nat /\ msg = items[o].read + 1 /\ msg <= items[o].sent
        BY <1>2, <2>3
      <3>3. items' \in [Outputs -> [sent : Nat, read : Nat, handled : Nat]]
        BY <2>0, <3>1, <3>2
      <3>4. \A p \in Outputs : p # o => items'[p] = items[p]
        BY <2>0, <3>1
      <3>5. items'[o].handled = items[o].handled /\ items'[o].sent = items[o].sent
            /\ items'[o].read = msg
        BY <2>0, <3>1
      <3>6. items[o].handled \in Nat /\ items[o].read \in Nat /\ items[o].sent \in Nat
        BY <2>0
      <3> QED  BY <2>1, <3>2, <3>3, <3>4, <3>5, <3>6
    <2> QED  BY <2>2, <2>3
  <1>7. eos' \in [read : [Outputs -> Nat], treated : Nat, handled : Nat, skipped : Nat]
    BY <1>0, <1>1, ReadEos DEF Eos
  <1>8. eosChannels' \subseteq outputs
    <2>1. o \in outputs
      BY <1>0, <1>1 DEF Inv, LinkInv, Read, TypeOK
    <2> QED  BY <1>0, <1>1, <2>1 DEF TypeOK, Read
  <1>9. UNCHANGED <<outputs, minData, open, posted, handling, link, wire, ready, sent>>
    BY <1>1 DEF Read, config, output
  <1> QED  BY <1>0, <1>3, <1>4, <1>5, <1>6, <1>7, <1>8, <1>9 DEF TypeOK

(* The type invariant                                                      *)
LEMMA TypeStep == Inv /\ Next => TypeOK'
  <1> SUFFICES ASSUME Inv, Next  PROVE TypeOK'
    OBVIOUS
  <1>0. TypeOK
    BY DEF Inv
  <1>1. ASSUME NEW o \in Outputs, outputReady(o)  PROVE TypeOK'
    <2>1. wire[o] \in 0..(MaxMsgs + 1) /\ wire[o] > 0
      BY <1>0, <1>1 DEF TypeOK, outputReady
    <2>2. wire[o] - 1 \in 0..(MaxMsgs + 1)
      BY <2>1
    <2>3. wire' \in [Outputs -> 0..(MaxMsgs + 1)] /\ ready' \in [Outputs -> BOOLEAN]
      BY <1>0, <1>1, <2>2 DEF TypeOK, outputReady
    <2> QED  BY <1>0, <1>1, <2>3 DEF TypeOK, outputReady, config, connections, pots
  <1>2. ASSUME NEW o \in Outputs, outputSend(o)  PROVE TypeOK'
    <2>0. /\ items \in [Outputs -> [sent : Nat, read : Nat, handled : Nat]]
          /\ toInput \in [Outputs -> Seq(0..MaxMsgs)]
          /\ sent \in 0..MaxMsgs /\ sent < MaxMsgs /\ sent' = sent + 1
          /\ ready' \in [Outputs -> BOOLEAN]
      BY <1>0, <1>2 DEF TypeOK, outputSend
    <2>1. \A p \in Outputs : /\ items[p].handled <= items[p].read
                             /\ items[p].read <= items[p].sent
                             /\ items[p].sent <= sent
      BY <1>0 DEF TypeOK
    <2>2. \A p \in Outputs : items[p].handled \in Nat /\ items[p].read \in Nat /\ items[p].sent \in Nat
      BY <2>0
    <2>3. PICK n \in 0..MaxMsgs : toInput' = [toInput EXCEPT ![o] = Append(@, n)]
      <3>1. items[o].sent + 1 \in 0..MaxMsgs /\ 0 \in 0..MaxMsgs
        BY <2>0, <2>1, <2>2
      <3> QED  BY <1>2, <3>1 DEF outputSend
    <2>4. toInput' \in [Outputs -> Seq(0..MaxMsgs)]
      <3>1. Append(toInput[o], n) \in Seq(0..MaxMsgs)
        BY <2>0
      <3> QED  BY <2>0, <2>3, <3>1
    <2>5. /\ items' \in [Outputs -> [sent : Nat, read : Nat, handled : Nat]]
          /\ \A p \in Outputs : /\ items'[p].handled <= items'[p].read
                                /\ items'[p].read <= items'[p].sent
                                /\ items'[p].sent <= sent'
      <3>1. CASE items' = items
        BY <2>0, <2>1, <2>2, <3>1
      <3>2. CASE items' = [items EXCEPT ![o].sent = @ + 1]
        <4>1. items[o].sent + 1 \in Nat
          BY <2>2
        <4>2. items' \in [Outputs -> [sent : Nat, read : Nat, handled : Nat]]
          BY <2>0, <3>2, <4>1
        <4>3. \A p \in Outputs : p # o => items'[p] = items[p]
          BY <2>0, <3>2
        <4>4. items'[o].handled = items[o].handled /\ items'[o].read = items[o].read
              /\ items'[o].sent = items[o].sent + 1
          BY <2>0, <3>2
        <4>5. ASSUME NEW p \in Outputs
              PROVE  /\ items'[p].handled <= items'[p].read
                     /\ items'[p].read <= items'[p].sent
                     /\ items'[p].sent <= sent'
          <5>1. CASE p = o
            BY <2>0, <2>1, <2>2, <4>4, <5>1
          <5>2. CASE p # o
            BY <2>0, <2>1, <2>2, <4>3, <5>2
          <5> QED  BY <5>1, <5>2
        <4> QED  BY <4>2, <4>5
      <3> QED  BY <1>2, <3>1, <3>2 DEF outputSend
    <2>6. sent' \in 0..MaxMsgs
      BY <2>0
    <2> QED  BY <1>0, <1>2, <2>0, <2>4, <2>5, <2>6 DEF TypeOK, outputSend, config, connections, pots
  <1>3. ASSUME NEW o \in Outputs, onTcpChannelRead(o)  PROVE TypeOK'
    BY <1>3, ReadType
  <1>4. ASSUME NEW o \in Outputs, afterRead(o)  PROVE TypeOK'
    <2>1. posted' \in Nat /\ (minData > 0 => posted' <= 1)
      <3>1. posted \in Nat /\ posted' = posted + (IF reading[o] = "post" THEN 1 ELSE 0)
        BY <1>0, <1>4 DEF TypeOK, afterRead, PostedAfterRead
      <3>2. minData > 0 => posted <= 1 /\ (posted = 1 => reading[o] # "post")
        BY DEF Inv, TriggerInv
      <3> QED  BY <3>1, <3>2
    <2>2. wire' \in [Outputs -> 0..(MaxMsgs + 1)]
      BY <1>0, <1>4, RequestedFacts DEF afterRead
    <2>3. reading' \in [Outputs -> {"idle", "notify", "post", "markEos", "erase", "gone"}]
      BY <1>0, <1>4 DEF TypeOK, afterRead
    <2> QED  BY <1>0, <1>4, <2>1, <2>2, <2>3 DEF TypeOK, afterRead, config, connections, pots
  <1>5. ASSUME triggerIOEvent  PROVE TypeOK'
    <2>1. Empty \in Pot
      BY DEF Empty, Pot
    <2>2. active' \in Pot /\ inactive' \in Pot
      BY <1>0, <1>5, <2>1 DEF TypeOK, triggerIOEvent
    <2>3. handling' \in [busy : BOOLEAN, data : Seq(Outputs \X (1..MaxMsgs)),
                         eos : BOOLEAN, next : BOOLEAN]
      <3>1. active.data \in Seq(Outputs \X (1..MaxMsgs)) /\ active.eos \in BOOLEAN
        BY <1>0, PotTypes DEF Item
      <3>2. (~TooEarly(inactive)) \in BOOLEAN
        OBVIOUS
      <3> QED  BY <1>5, <3>1, <3>2 DEF triggerIOEvent
    <2>4. posted' \in Nat /\ (minData > 0 => posted' <= 1)
      BY <1>0, <1>5 DEF TypeOK, triggerIOEvent
    <2> QED  BY <1>0, <1>5, <2>2, <2>3, <2>4 DEF TypeOK, triggerIOEvent, config, connections, output
  <1>6. ASSUME callHandlers  PROVE TypeOK'
    <2>1. /\ items' \in [Outputs -> [sent : Nat, read : Nat, handled : Nat]]
          /\ \A p \in Outputs : /\ items'[p].handled <= items'[p].read
                                /\ items'[p].read <= items'[p].sent
                                /\ items'[p].sent <= sent
      <3>1. items' = [p \in Outputs |-> items'[p]]
        BY <1>6 DEF callHandlers
      <3>2. \A p \in Outputs : /\ items'[p] \in [sent : Nat, read : Nat, handled : Nat]
                               /\ items'[p].handled <= items'[p].read
                               /\ items'[p].read = items[p].read
                               /\ items'[p].sent = items[p].sent
        BY <1>6, HandledCount
      <3>3. \A p \in Outputs : items[p].read <= items[p].sent /\ items[p].sent <= sent
        BY <1>0 DEF TypeOK
      <3> QED  BY <3>1, <3>2, <3>3
    <2>2. posted' \in Nat /\ (minData > 0 => posted' <= 1)
      <3>1. posted \in Nat /\ posted' = IF handling.next THEN posted + 1 ELSE posted
        BY <1>0, <1>6 DEF TypeOK, callHandlers
      <3>2. minData > 0 => posted <= 1 /\ (posted = 1 => ~handling.next)
        BY DEF Inv, TriggerInv
      <3> QED  BY <3>1, <3>2
    <2>3. wire' \in [Outputs -> 0..(MaxMsgs + 1)]
      BY <1>0, <1>6, RequestedFacts DEF callHandlers
    <2>4. handling' \in [busy : BOOLEAN, data : Seq(Outputs \X (1..MaxMsgs)),
                         eos : BOOLEAN, next : BOOLEAN]
      BY <1>6 DEF callHandlers, NotHandling
    <2>5. eos' \in [read : [Outputs -> Nat], treated : Nat, handled : Nat, skipped : Nat]
      <3>1. eos \in Eos
        BY <1>0 DEF TypeOK, Eos
      <3> QED  BY <1>0, <1>6, <3>1, HandledEos DEF Eos
    <2>6. UNCHANGED <<outputs, minData, open, eosChannels, active, inactive, reading, link,
                      ready, sent, toInput>>
      BY <1>6 DEF callHandlers, config, connections, pots
    <2> QED  BY <1>0, <2>1, <2>2, <2>3, <2>4, <2>5, <2>6 DEF TypeOK
  <1>7. ASSUME NEW o \in Outputs, loseConnection(o)  PROVE TypeOK'
    BY <1>0, <1>7, CutType DEF loseConnection
  <1>8. ASSUME NEW o \in Outputs, disconnect(o)  PROVE TypeOK'
    BY <1>0, <1>8, CutType DEF disconnect
  <1>9. ASSUME NEW o \in Outputs, onTcpChannelError(o)  PROVE TypeOK'
    <2>1. reading' \in [Outputs -> {"idle", "notify", "post", "markEos", "erase", "gone"}]
      BY <1>0, <1>9 DEF TypeOK, onTcpChannelError
    <2> QED  BY <1>0, <1>9, <2>1 DEF TypeOK, onTcpChannelError, config, pots, output
  <1>10. ASSUME NEW o \in Outputs, markEos(o)  PROVE TypeOK'
    <2>1. reading' \in [Outputs -> {"idle", "notify", "post", "markEos", "erase", "gone"}]
      BY <1>0, <1>10 DEF TypeOK, markEos
    <2>2. inactive' \in Pot
      BY <1>0, <1>10 DEF TypeOK, markEos, Pot
    <2>3. eos' \in [read : [Outputs -> Nat], treated : Nat, handled : Nat, skipped : Nat]
      <3>1. eos \in Eos /\ eos.treated \in Nat
        BY <1>0 DEF TypeOK, Eos
      <3>2. PICK a \in Nat : a = IF inactive.eos THEN eos.treated ELSE eos.treated + 1
        BY <3>1
      <3>3. eos' = [eos EXCEPT !.treated = a]
        BY <1>10, <3>2 DEF markEos
      <3> QED  BY <3>1, <3>3, EosUpdate DEF Eos
    <2> QED  BY <1>0, <1>10, <2>1, <2>2, <2>3 DEF TypeOK, markEos, config, connections, output
  <1>11. ASSUME NEW o \in Outputs, eraseConnection(o)  PROVE TypeOK'
    <2>1. reading' \in [Outputs -> {"idle", "notify", "post", "markEos", "erase", "gone"}]
      BY <1>0, <1>11 DEF TypeOK, eraseConnection
    <2> QED  BY <1>0, <1>11, <2>1 DEF TypeOK, eraseConnection, config, pots, output
  <1> QED  BY <1>1, <1>2, <1>3, <1>4, <1>5, <1>6, <1>7, <1>8, <1>9, <1>10, <1>11 DEF Next, Reading

-----------------------------------------------------------------------------
(* Who is not connected stays so                                           *)
LEMMA LinkStep == Inv /\ Next => LinkInv'
  <1> SUFFICES ASSUME Inv, Next  PROVE LinkInv'
    OBVIOUS
  <1>0. TypeOK /\ LinkInv
    BY DEF Inv
  <1>t. /\ link \in [Outputs -> {"up", "lost", "closed"}]
        /\ reading \in [Outputs -> {"idle", "notify", "post", "markEos", "erase", "gone"}]
        /\ toInput \in [Outputs -> Seq(0..MaxMsgs)]
        /\ wire \in [Outputs -> 0..(MaxMsgs + 1)]
        /\ ready \in [Outputs -> BOOLEAN]
    BY <1>0 DEF TypeOK
  <1>1. ASSUME NEW o \in Outputs, outputReady(o)  PROVE LinkInv'
    <2>1. link[o] = "up"
      BY <1>0, <1>1, <1>t DEF LinkInv, outputReady
    <2> QED  BY <1>0, <1>1, <1>t, <2>1 DEF LinkInv, outputReady, connections
  <1>2. ASSUME NEW o \in Outputs, outputSend(o)  PROVE LinkInv'
    <2>1. link[o] = "up"
      BY <1>0, <1>2, <1>t DEF LinkInv, outputSend
    <2>2. \A p \in Outputs : p # o => toInput'[p] = toInput[p] /\ ready'[p] = ready[p]
      BY <1>2, <1>t DEF outputSend
    <2>3. UNCHANGED <<link, reading, handling, wire, eosChannels, open>>
      BY <1>2 DEF outputSend, connections
    <2> QED  BY <1>0, <1>t, <2>1, <2>2, <2>3 DEF LinkInv
  <1>3. ASSUME NEW o \in Outputs, onTcpChannelRead(o)  PROVE LinkInv'
    <2>1. PICK msg, treat, pot :
              /\ Read(o, msg, treat) /\ pot = Collected(o, msg, treat)
              /\ Incomplete(o, pot) \/ Swapped(o, pot) \/ Kept(pot)
      BY <1>3, ReadIs
    <2>2. link[o] = "up" /\ \A p \in Outputs : p # o => toInput'[p] = toInput[p]
      BY <1>t, <2>1 DEF Read
    <2>3. /\ reading[o] = "idle" /\ reading'[o] \in {"idle", "notify", "post"}
          /\ \A p \in Outputs : p # o => reading'[p] = reading[p]
      BY <1>t, <2>1 DEF Read, Incomplete, Swapped, Kept
    <2>4. /\ UNCHANGED <<link, handling, wire, ready, open>>
          /\ eosChannels' \subseteq eosChannels \cup {o}
      BY <2>1 DEF Read, output
    <2> QED  BY <1>0, <1>t, <2>2, <2>3, <2>4 DEF LinkInv
  <1>4. ASSUME NEW o \in Outputs, afterRead(o)  PROVE LinkInv'
    <2>1. \A p \in Outputs : link[p] # "up" => wire'[p] = wire[p]
      BY <1>0, <1>4, RequestedFacts DEF afterRead
    <2>2. reading'[o] = "idle" /\ \A p \in Outputs : p # o => reading'[p] = reading[p]
      BY <1>4, <1>t DEF afterRead
    <2>3. UNCHANGED <<link, handling, ready, toInput, eosChannels, open>>
      BY <1>4 DEF afterRead, connections
    <2> QED  BY <1>0, <1>t, <2>1, <2>2, <2>3 DEF LinkInv
  <1>5. ASSUME triggerIOEvent  PROVE LinkInv'
    <2>1. handling'.busy
      BY <1>5 DEF triggerIOEvent
    <2>2. UNCHANGED <<link, reading, wire, ready, toInput, eosChannels, open>>
      BY <1>5 DEF triggerIOEvent, connections, output
    <2> QED  BY <1>0, <2>1, <2>2 DEF LinkInv
  <1>6. ASSUME callHandlers  PROVE LinkInv'
    <2>1. \A p \in Outputs : link[p] # "up" => wire'[p] = wire[p]
      BY <1>0, <1>6, RequestedFacts DEF callHandlers
    <2>2. UNCHANGED <<link, reading, ready, toInput, eosChannels, open>> /\ handling' = NotHandling
      BY <1>6 DEF callHandlers, connections
    <2> QED  BY <1>0, <1>t, <2>1, <2>2 DEF LinkInv
  <1>7. ASSUME NEW o \in Outputs, NEW how \in {"lost", "closed"}, Cut(o, how),
               open \ {o} \subseteq open'
        PROVE  LinkInv'
    <2>1. /\ link'[o] # "up" /\ wire'[o] = 0 /\ ~ready'[o] /\ toInput'[o] = <<>>
          /\ \A p \in Outputs : p # o => /\ link'[p] = link[p] /\ wire'[p] = wire[p]
                                         /\ ready'[p] = ready[p] /\ toInput'[p] = toInput[p]
      BY <1>7, <1>t DEF Cut
    <2>2. UNCHANGED <<reading, handling, eosChannels>> /\ open \ {o} \subseteq open'
      BY <1>7 DEF Cut, config
    <2> QED  BY <1>0, <1>t, <2>1, <2>2 DEF LinkInv
  <1>8. ASSUME NEW o \in Outputs, onTcpChannelError(o)  PROVE LinkInv'
    <2>1. link[o] # "up" /\ \A p \in Outputs : p # o => reading'[p] = reading[p]
      BY <1>8, <1>t DEF onTcpChannelError
    <2>2. /\ UNCHANGED <<link, handling, wire, ready, toInput, open>>
          /\ eosChannels' = eosChannels \ {o}
      BY <1>8 DEF onTcpChannelError, config, output
    <2> QED  BY <1>0, <1>t, <2>1, <2>2 DEF LinkInv
  <1>9. ASSUME NEW o \in Outputs, markEos(o) \/ eraseConnection(o)  PROVE LinkInv'
    <2>1. /\ reading[o] \in {"markEos", "erase"}
          /\ \A p \in Outputs : p # o => reading'[p] = reading[p]
      BY <1>9, <1>t DEF markEos, eraseConnection
    <2>2. /\ UNCHANGED <<link, handling, wire, ready, toInput, eosChannels>>
          /\ open \ {o} \subseteq open'
      BY <1>9 DEF markEos, eraseConnection, output, connections
    <2> QED  BY <1>0, <1>t, <2>1, <2>2 DEF LinkInv
  <1> QED  BY <1>1, <1>2, <1>3, <1>4, <1>5, <1>6, <1>7, <1>8, <1>9
           DEF Next, Reading, loseConnection, disconnect

(* Messages of one output channel, when only that one changes              *)
WireOk(o) ==
    /\ \A i \in 1..Len(toInput[o]) : toInput[o][i] # 0 =>
          items[o].read < toInput[o][i] /\ toInput[o][i] <= items[o].sent
    /\ \A i, j \in 1..Len(toInput[o]) :
          i < j /\ toInput[o][i] # 0 /\ toInput[o][j] # 0 => toInput[o][i] < toInput[o][j]
    /\ link[o] = "up" => \A n \in (items[o].read + 1)..items[o].sent :
          \E i \in 1..Len(toInput[o]) : toInput[o][i] = n

(* ... or when it does not change at all                                   *)
LEMMA WireKept ==
    ASSUME NEW o \in Outputs, WireOk(o), toInput'[o] = toInput[o], link'[o] = link[o],
           items'[o].read = items[o].read, items'[o].sent = items[o].sent
    PROVE  WireOk(o)'
  BY DEF WireOk

(* Messages are sent and read in the order of their numbers                *)
LEMMA WireStep == Inv /\ Next => WireInv'
  <1> SUFFICES ASSUME Inv, Next  PROVE WireInv'
    OBVIOUS
  <1>0. TypeOK /\ LinkInv /\ WireInv
    BY DEF Inv
  <1>w. (WireInv <=> \A p \in Outputs : WireOk(p)) /\ (WireInv' <=> \A p \in Outputs : WireOk(p)')
    BY DEF WireInv, WireOk
  <1>t. /\ link \in [Outputs -> {"up", "lost", "closed"}]
        /\ toInput \in [Outputs -> Seq(0..MaxMsgs)]
        /\ items \in [Outputs -> [sent : Nat, read : Nat, handled : Nat]]
    BY <1>0 DEF TypeOK
  <1>1. ASSUME UNCHANGED <<toInput, link, items>>  PROVE WireInv'
    BY <1>0, <1>1 DEF WireInv
  <1>2. ASSUME NEW o \in Outputs, outputSend(o)  PROVE WireInv'
    <2>0. UNCHANGED link
      BY <1>2 DEF outputSend
    <2>1. ASSUME NEW p \in Outputs, p # o  PROVE WireOk(p)'
      <3>1. toInput'[p] = toInput[p] /\ items'[p] = items[p]
        BY <1>2, <1>t, <2>1 DEF outputSend
      <3> QED  BY <1>0, <1>w, <2>0, <3>1, WireKept
    <2>2. PICK n \in Nat, k \in Nat :
             /\ toInput'[o] = Append(toInput[o], n)
             /\ \/ n = 0 /\ k = items[o].sent
                \/ n = items[o].sent + 1 /\ k = n
             /\ items'[o].sent = k /\ items'[o].read = items[o].read
      <3>0. items[o].sent \in Nat
        BY <1>t
      <3>1. CASE toInput' = [toInput EXCEPT ![o] = Append(@, 0)] /\ items' = items
        BY <1>t, <3>0, <3>1
      <3>2. CASE /\ toInput' = [toInput EXCEPT ![o] = Append(@, items[o].sent + 1)]
                 /\ items' = [items EXCEPT ![o].sent = @ + 1]
        <4>1. toInput'[o] = Append(toInput[o], items[o].sent + 1)
          BY <1>t, <3>2
        <4>2. items'[o].sent = items[o].sent + 1 /\ items'[o].read = items[o].read
          BY <1>t, <3>2
        <4> QED  BY <3>0, <4>1, <4>2
      <3> QED  BY <1>2, <3>1, <3>2 DEF outputSend
    <2>3. PICK s \in Seq(Nat) : s = toInput[o]
      <3>1. toInput[o] \in Seq(0..MaxMsgs)
        BY <1>t
      <3>2. toInput[o] \in Seq(Nat)
        BY <3>1
      <3> QED  BY <3>2
    <2>4. PICK e : e = Append(s, n)
      OBVIOUS
    <2>5. /\ Len(s) \in Nat /\ Len(e) = Len(s) + 1 /\ e[Len(s) + 1] = n
          /\ \A i \in 1..Len(s) : e[i] = s[i] /\ s[i] \in Nat
      BY <2>3, <2>4
    <2>6. PICK r \in Nat, m \in Nat : r = items[o].read /\ m = items[o].sent /\ r <= m
      BY <1>0, <1>t DEF TypeOK
    <2>7. /\ \A i \in 1..Len(s) : s[i] # 0 => r < s[i] /\ s[i] <= m
          /\ \A i, j \in 1..Len(s) : i < j /\ s[i] # 0 /\ s[j] # 0 => s[i] < s[j]
          /\ link[o] = "up" => \A x \in (r + 1)..m : \E i \in 1..Len(s) : s[i] = x
      BY <1>0, <1>w, <2>3, <2>6 DEF WireOk
    <2>8. \A i \in 1..Len(e) : i \in 1..Len(s) \/ i = Len(s) + 1
      BY <2>5
    <2>9. (n = 0 /\ k = m) \/ (n = m + 1 /\ k = n)
      BY <2>2, <2>6
    <2>10. \A i \in 1..Len(e) : e[i] # 0 => r < e[i] /\ e[i] <= k
      BY <2>5, <2>6, <2>7, <2>8, <2>9
    <2>11. ASSUME NEW i \in 1..Len(e), NEW j \in 1..Len(e), i < j, e[i] # 0, e[j] # 0
           PROVE  e[i] < e[j]
      <3>1. i \in 1..Len(s) /\ e[i] = s[i] /\ s[i] \in Nat
        BY <2>5, <2>8, <2>11
      <3>2. CASE j \in 1..Len(s)
        <4>1. e[j] = s[j]
          BY <2>5, <3>2
        <4> QED  BY <2>7, <2>11, <3>1, <3>2, <4>1
      <3>3. CASE j = Len(s) + 1
        <4>1. e[j] = n
          BY <2>5, <3>3
        <4>2. s[i] <= m
          BY <2>7, <2>11, <3>1
        <4> QED  BY <2>6, <2>9, <2>11, <3>1, <4>1, <4>2
      <3> QED  BY <2>8, <3>2, <3>3
    <2>12. ASSUME link[o] = "up", NEW x \in (r + 1)..k  PROVE \E i \in 1..Len(e) : e[i] = x
      <3>1. CASE x <= m
        <4>1. PICK i \in 1..Len(s) : s[i] = x
          BY <2>6, <2>7, <2>12, <3>1
        <4> QED  BY <2>5, <4>1
      <3>2. CASE x > m
        <4>1. x = n
          BY <2>6, <2>9, <3>2
        <4>2. Len(s) + 1 \in 1..Len(e)
          BY <2>5
        <4> QED  BY <2>5, <4>1, <4>2
      <3> QED  BY <2>6, <2>9, <3>1, <3>2
    <2>13. toInput'[o] = e /\ items'[o].sent = k /\ items'[o].read = r
      BY <2>2, <2>3, <2>4, <2>6
    <2>14. WireOk(o)'
      BY <2>0, <2>10, <2>11, <2>12, <2>13 DEF WireOk
    <2> QED  BY <1>w, <2>1, <2>14
  <1>3. ASSUME NEW o \in Outputs, onTcpChannelRead(o)  PROVE WireInv'
    <2>0. PICK msg, treat, pot : Read(o, msg, treat) /\ pot = Collected(o, msg, treat)
      BY <1>3, ReadIs
    <2>1. UNCHANGED link
      BY <2>0 DEF Read
    <2>2. ASSUME NEW p \in Outputs, p # o  PROVE WireOk(p)'
      <3>1. toInput'[p] = toInput[p] /\ items'[p] = items[p]
        BY <1>t, <2>0, <2>2 DEF Read
      <3> QED  BY <1>0, <1>w, <2>1, <3>1, WireKept
    <2>3. PICK s \in Seq(Nat) : s = toInput[o] /\ s # <<>>
      <3>1. toInput[o] \in Seq(0..MaxMsgs)
        BY <1>t
      <3>2. toInput[o] \in Seq(Nat)
        BY <3>1
      <3> QED  BY <2>0, <3>2 DEF Read
    <2>4. PICK e : e = Tail(s)
      OBVIOUS
    <2>5. /\ Len(s) \in Nat \ {0} /\ Len(e) = Len(s) - 1 /\ msg = s[1]
          /\ \A i \in 1..Len(e) : e[i] = s[i + 1]
          /\ \A i \in 1..Len(s) : s[i] \in Nat
      BY <2>0, <2>3, <2>4, TailFacts DEF Read
    <2>6. PICK r \in Nat, m \in Nat : r = items[o].read /\ m = items[o].sent /\ r <= m
      BY <1>0, <1>t DEF TypeOK
    <2>7. /\ \A i \in 1..Len(s) : s[i] # 0 => r < s[i] /\ s[i] <= m
          /\ \A i, j \in 1..Len(s) : i < j /\ s[i] # 0 /\ s[j] # 0 => s[i] < s[j]
          /\ \A x \in (r + 1)..m : \E i \in 1..Len(s) : s[i] = x
      BY <1>0, <1>w, <2>0, <2>3, <2>6 DEF WireOk, Read
    <2>8. PICK q \in Nat : q = IF msg = 0 THEN r ELSE msg
      <3>1. 1 \in 1..Len(s)
        BY <2>5
      <3>2. msg \in Nat
        BY <2>5, <3>1
      <3> QED  BY <3>2
    <2>9. items'[o].read = q /\ items'[o].sent = m
      BY <1>t, <2>0, <2>6, <2>8 DEF Read
    <2>10. \A i \in 1..Len(e) : i + 1 \in 1..Len(s) /\ 1 < i + 1
      BY <2>5
    <2>11. \A i \in 1..Len(e) : e[i] # 0 => q < e[i] /\ e[i] <= m
      <3> SUFFICES ASSUME NEW i \in 1..Len(e), e[i] # 0  PROVE q < e[i] /\ e[i] <= m
        OBVIOUS
      <3>1. /\ i + 1 \in 1..Len(s) /\ 1 \in 1..Len(s) /\ 1 < i + 1
            /\ s[i + 1] # 0 /\ e[i] = s[i + 1]
        BY <2>5, <2>10
      <3>2. r < s[i + 1] /\ s[i + 1] <= m
        BY <2>7, <3>1
      <3>3. msg # 0 => msg < s[i + 1]
        BY <2>5, <2>7, <3>1
      <3> QED  BY <2>8, <3>1, <3>2, <3>3
    <2>12. \A i, j \in 1..Len(e) : i < j /\ e[i] # 0 /\ e[j] # 0 => e[i] < e[j]
      <3> SUFFICES ASSUME NEW i \in 1..Len(e), NEW j \in 1..Len(e), i < j, e[i] # 0, e[j] # 0
                   PROVE  e[i] < e[j]
        OBVIOUS
      <3>1. i + 1 < j + 1 /\ i + 1 \in 1..Len(s) /\ j + 1 \in 1..Len(s)
        BY <2>5
      <3> QED  BY <2>5, <2>7, <3>1
    <2>13. \A x \in (q + 1)..m : \E i \in 1..Len(e) : e[i] = x
      <3> SUFFICES ASSUME NEW x \in (q + 1)..m  PROVE \E i \in 1..Len(e) : e[i] = x
        OBVIOUS
      <3>1. r <= q /\ (msg # 0 => msg < x) /\ x > 0
        BY <2>5, <2>6, <2>7, <2>8
      <3>2. PICK i \in 1..Len(s) : s[i] = x
        BY <2>6, <2>7, <2>8, <3>1
      <3>3. i # 1
        BY <2>5, <2>8, <3>1, <3>2
      <3>4. i - 1 \in 1..Len(e) /\ (i - 1) + 1 = i
        BY <2>5, <3>3
      <3>5. e[i - 1] = x
        BY <2>5, <3>2, <3>4
      <3> QED  BY <3>4, <3>5
    <2>14. toInput'[o] = e
      BY <1>t, <2>0, <2>3, <2>4 DEF Read
    <2>15. WireOk(o)'
      BY <2>9, <2>11, <2>12, <2>13, <2>14 DEF WireOk
    <2> QED  BY <1>w, <2>2, <2>15
  <1>4. ASSUME callHandlers  PROVE WireInv'
    <2>1. \A p \in Outputs : items'[p].read = items[p].read /\ items'[p].sent = items[p].sent
      BY <1>4, HandledCount
    <2>2. UNCHANGED <<toInput, link>>
      BY <1>4 DEF callHandlers
    <2> QED  BY <1>0, <1>w, <2>1, <2>2, WireKept
  <1>5. ASSUME NEW o \in Outputs, NEW how \in {"lost", "closed"}, Cut(o, how)  PROVE WireInv'
    <2>1. UNCHANGED items
      BY <1>5 DEF Cut
    <2>2. ASSUME NEW p \in Outputs, p # o  PROVE WireOk(p)'
      <3>1. toInput'[p] = toInput[p] /\ link'[p] = link[p]
        BY <1>5, <1>t, <2>2 DEF Cut
      <3> QED  BY <1>0, <1>w, <2>1, <3>1, WireKept
    <2>3. toInput'[o] = <<>> /\ link'[o] # "up"
      BY <1>5, <1>t DEF Cut
    <2>4. WireOk(o)'
      BY <2>3 DEF WireOk
    <2> QED  BY <1>w, <2>2, <2>4
  <1>6. \/ UNCHANGED <<toInput, link, items>>
        \/ \E o \in Outputs : outputSend(o) \/ onTcpChannelRead(o) \/ Cut(o, "lost") \/ Cut(o, "closed")
        \/ callHandlers
    BY DEF Next, Reading, outputReady, afterRead, triggerIOEvent, onTcpChannelError, markEos,
           eraseConnection, loseConnection, disconnect
  <1> QED  BY <1>1, <1>2, <1>3, <1>4, <1>5, <1>6

(* Items stay in order when they are read, swapped and handled             *)
LEMMA OrderStep == Inv /\ Next => HandledInOrder'
  <1> SUFFICES ASSUME Inv, Next  PROVE HandledInOrder'
    OBVIOUS
  <1>0. TypeOK /\ WireInv /\ LinkInv /\ HandledInOrder
    BY DEF Inv
  <1>w. /\ \A p \in Outputs : Numbered(p, Waiting, items[p].handled + 1, items[p].read)
        /\ HandledInOrder' <=>
             \A p \in Outputs : Numbered(p, Waiting', items'[p].handled + 1, items'[p].read)
    <2>1. HandledInOrder' <=>
             \A p \in Outputs : Numbered(p, Waiting', items'[p].handled + 1, items'[p].read)
      BY DEF HandledInOrder, Numbered, ItemsOf
    <2> QED  BY <1>0, <2>1, InOrderNumbered
  <1>t. /\ active.data \in Seq(Item) /\ inactive.data \in Seq(Item) /\ handling.data \in Seq(Item)
        /\ Waiting \in Seq(Item) /\ Waiting = (handling.data \o active.data) \o inactive.data
        /\ items \in [Outputs -> [sent : Nat, read : Nat, handled : Nat]]
    BY <1>0, PotTypes DEF Waiting, TypeOK
  <1>1. ASSUME UNCHANGED <<active, inactive, handling>>,
               \A p \in Outputs : items'[p].read = items[p].read /\ items'[p].handled = items[p].handled
        PROVE  HandledInOrder'
    <2>1. Waiting' = Waiting
      BY <1>1 DEF Waiting
    <2> QED  BY <1>1, <1>w, <2>1
  <1>2. ASSUME NEW o \in Outputs, outputSend(o)  PROVE HandledInOrder'
    <2>1. \A p \in Outputs : items'[p].read = items[p].read /\ items'[p].handled = items[p].handled
      <3>1. CASE items' = items
        BY <3>1
      <3>2. CASE items' = [items EXCEPT ![o].sent = @ + 1]
        BY <1>t, <3>2
      <3> QED  BY <1>2, <3>1, <3>2 DEF outputSend
    <2> QED  BY <1>1, <1>2, <2>1 DEF outputSend, pots
  <1>3. ASSUME NEW o \in Outputs, onTcpChannelRead(o)  PROVE HandledInOrder'
    <2>0. PICK msg, treat, pot :
              /\ Read(o, msg, treat) /\ pot = Collected(o, msg, treat)
              /\ Incomplete(o, pot) \/ Swapped(o, pot) \/ Kept(pot)
      BY <1>3, ReadIs
    <2>1. /\ msg # 0 => /\ msg = items[o].read + 1 /\ msg <= items[o].sent
                        /\ pot.data = Append(inactive.data, <<o, msg>>)
          /\ msg = 0 => pot.data = inactive.data
          /\ pot \in Pot /\ msg \in 0..MaxMsgs
      BY <1>0, <2>0, ReadFacts
    <2>2. pot.data \in Seq(Item)
      BY <2>1 DEF Pot, Item
    <2>3. Waiting' = (handling.data \o active.data) \o pot.data
      <3>1. UNCHANGED handling
        BY <2>0 DEF Read
      <3>2. CASE Incomplete(o, pot) \/ Kept(pot)
        BY <3>1, <3>2 DEF Incomplete, Kept, Waiting
      <3>3. CASE Swapped(o, pot)
        <4>1. active.data = <<>> /\ active' = pot /\ inactive' = active
          BY <3>3 DEF Swapped, Filled
        <4>2. Waiting' = (handling.data \o pot.data) \o <<>>
          BY <3>1, <4>1 DEF Waiting
        <4>3. handling.data \o pot.data \in Seq(Item)
          BY <1>t, <2>2
        <4>4. Waiting' = handling.data \o pot.data
          BY <4>2, <4>3, ItemsConcat
        <4>5. handling.data \o active.data = handling.data
          BY <1>t, <4>1, ItemsConcat
        <4> QED  BY <4>4, <4>5
      <3> QED  BY <2>0, <3>2, <3>3
    <2>4. CASE msg = 0
      <3>1. Waiting' = Waiting /\ items' = items
        BY <1>t, <2>0, <2>1, <2>3, <2>4 DEF Read
      <3> QED  BY <1>w, <3>1
    <2>5. CASE msg # 0
      <3>0. <<o, msg>> \in Item /\ msg \in 1..MaxMsgs
        BY <2>1, <2>5 DEF Item
      <3>1. Waiting' = Append(Waiting, <<o, msg>>)
        <4>1. handling.data \o active.data \in Seq(Item)
          BY <1>t
        <4>2. (handling.data \o active.data) \o Append(inactive.data, <<o, msg>>)
                = Append((handling.data \o active.data) \o inactive.data, <<o, msg>>)
          <5>1. PICK a \in Seq(Item), b \in Seq(Item), x \in Item :
                   a = handling.data \o active.data /\ b = inactive.data /\ x = <<o, msg>>
            BY <1>t, <3>0, <4>1
          <5>2. a \o Append(b, x) = Append(a \o b, x)
            BY ItemsConcat
          <5> QED  BY <5>1, <5>2
        <4> QED  BY <1>t, <2>1, <2>3, <2>5, <4>2
      <3>2. /\ items'[o].read = msg /\ items'[o].handled = items[o].handled
            /\ \A p \in Outputs : p # o => items'[p] = items[p]
        <4>1. items' = [items EXCEPT ![o].read = msg]
          BY <2>0, <2>5 DEF Read
        <4> QED  BY <1>t, <4>1
      <3>3. PICK h \in Nat, r \in Nat : h = items[o].handled /\ r = items[o].read /\ h <= r
        BY <1>0, <1>t DEF TypeOK
      <3>4. r + 1 <= MaxMsgs /\ msg = r + 1
        BY <2>1, <2>5, <3>0, <3>3
      <3>5. Numbered(o, Append(Waiting, <<o, r + 1>>), h + 1, r + 1)
        BY <1>t, <1>w, <3>3, <3>4, NumberedNext
      <3>6. Numbered(o, Waiting', items'[o].handled + 1, items'[o].read)
        BY <3>1, <3>2, <3>3, <3>4, <3>5
      <3>7. ASSUME NEW p \in Outputs, p # o
            PROVE  Numbered(p, Waiting', items'[p].handled + 1, items'[p].read)
        BY <1>t, <1>w, <3>0, <3>1, <3>2, <3>7, NumberedOther
      <3> QED  BY <1>w, <3>6, <3>7
    <2> QED  BY <2>4, <2>5
  <1>4. ASSUME triggerIOEvent  PROVE HandledInOrder'
    <2>1. handling.data = <<>>
      BY <1>0, <1>4 DEF LinkInv, triggerIOEvent, NotHandling
    <2>2. Waiting = active.data \o inactive.data
      BY <1>t, <2>1, ItemsConcat
    <2>3. handling'.data = active.data
      BY <1>4 DEF triggerIOEvent
    <2>4. Waiting' = Waiting
      <3>0. Empty.data = <<>>
        BY DEF Empty
      <3>1. CASE TooEarly(inactive)
        <4>1. Waiting' = (active.data \o <<>>) \o inactive.data
          BY <1>4, <2>3, <3>0, <3>1 DEF triggerIOEvent, Waiting
        <4> QED  BY <1>t, <2>2, <4>1, ItemsConcat
      <3>2. CASE ~TooEarly(inactive)
        <4>1. Waiting' = (active.data \o inactive.data) \o <<>>
          BY <1>4, <2>3, <3>0, <3>2 DEF triggerIOEvent, Waiting
        <4>2. active.data \o inactive.data \in Seq(Item)
          BY <1>t
        <4> QED  BY <2>2, <4>1, <4>2, ItemsConcat
      <3> QED  BY <3>1, <3>2
    <2>5. UNCHANGED items
      BY <1>4 DEF triggerIOEvent
    <2> QED  BY <1>w, <2>4, <2>5
  <1>5. ASSUME callHandlers  PROVE HandledInOrder'
    <2>1. Waiting' = active.data \o inactive.data
      <3>1. Waiting' = (<<>> \o active.data) \o inactive.data
        BY <1>5 DEF callHandlers, Waiting, NotHandling, pots
      <3> QED  BY <1>t, <3>1, ItemsConcat
    <2>2. ASSUME NEW p \in Outputs
          PROVE  Numbered(p, Waiting', items'[p].handled + 1, items'[p].read)
      BY <1>5, <2>1, HandledCount
    <2> QED  BY <1>w, <2>2
  <1>6. ASSUME NEW o \in Outputs, markEos(o)  PROVE HandledInOrder'
    <2>1. inactive'.data = inactive.data /\ UNCHANGED <<active, handling, items>>
      BY <1>0, <1>6 DEF markEos, TypeOK, Pot
    <2>2. Waiting' = Waiting
      BY <2>1 DEF Waiting
    <2> QED  BY <1>w, <2>1, <2>2
  <1>7. \/ UNCHANGED <<active, inactive, handling, items>>
        \/ \E o \in Outputs : outputSend(o) \/ onTcpChannelRead(o) \/ markEos(o)
        \/ triggerIOEvent
        \/ callHandlers
    BY DEF Next, Reading, outputReady, afterRead, onTcpChannelError,
           eraseConnection, loseConnection, disconnect, Cut, pots
  <1> QED  BY <1>1, <1>2, <1>3, <1>4, <1>5, <1>6, <1>7

-----------------------------------------------------------------------------
(* What completes a pot and what triggerIOEvent() swaps are the same       *)
LEMMA CompleteIsSwapped ==
    ASSUME TypeOK, NEW pot \in Pot, minData > 0
    PROVE  /\ TooEarly(pot) <=> ~Complete(pot)
           /\ Complete(pot) => Filled(pot)
  <1>1. minData \in Nat /\ Len(pot.data) \in Nat /\ pot.eos \in BOOLEAN
        /\ (pot.data = <<>> => Len(pot.data) = 0)
    BY DEF TypeOK, Pot
  <1> QED  BY <1>1 DEF TooEarly, Complete, Filled

(* triggerIOEvent() is started once per filled pot                         *)
LEMMA TriggerStep == Inv /\ Next => TriggerInv'
  <1> SUFFICES ASSUME Inv, Next  PROVE TriggerInv'
    OBVIOUS
  <1>0. TypeOK /\ LinkInv /\ TriggerInv
    BY DEF Inv
  <1>t. /\ reading \in [Outputs -> {"idle", "notify", "post", "markEos", "erase", "gone"}]
        /\ posted \in Nat /\ minData \in Nat /\ active \in Pot /\ inactive \in Pot
        /\ handling.next \in BOOLEAN
    BY <1>0, PotTypes DEF TypeOK
  <1>1. ASSUME UNCHANGED <<active, handling, posted, minData>>,
               NEW o \in Outputs, reading[o] # "post", NEW how, how # "post",
               reading' = [reading EXCEPT ![o] = how]
        PROVE  TriggerInv'
    <2>1. \A p \in Outputs : reading'[p] = "post" <=> reading[p] = "post"
      BY <1>1, <1>t
    <2> QED  BY <1>0, <1>1, <2>1 DEF TriggerInv, Triggered, Filled
  <1>2. ASSUME UNCHANGED <<active, handling, posted, minData, reading>>  PROVE TriggerInv'
    BY <1>0, <1>2 DEF TriggerInv, Triggered, Filled
  <1>3. ASSUME NEW o \in Outputs, onTcpChannelRead(o)  PROVE TriggerInv'
    <2>0. PICK msg, treat, pot :
              /\ Read(o, msg, treat) /\ pot = Collected(o, msg, treat)
              /\ Incomplete(o, pot) \/ Swapped(o, pot) \/ Kept(pot)
      BY <1>3, ReadIs
    <2>1. UNCHANGED <<handling, posted, minData>> /\ reading[o] = "idle" /\ pot \in Pot
      BY <1>0, <2>0, ReadFacts DEF Read, config, Inv
    <2>2. CASE Incomplete(o, pot)
      BY <1>1, <2>1, <2>2 DEF Incomplete
    <2>3. CASE Kept(pot)
      BY <1>2, <2>1, <2>3 DEF Kept
    <2>4. CASE Swapped(o, pot)
      <3>1. reading'[o] = "post" /\ \A p \in Outputs : p # o => reading'[p] = reading[p]
        BY <1>t, <2>4 DEF Swapped
      <3>2. minData > 0 => ~Triggered /\ Filled(pot)
        BY <1>0, <2>1, <2>4, CompleteIsSwapped DEF TriggerInv, Swapped
      <3>3. minData > 0 => posted = 0 /\ ~handling.next /\ \A p \in Outputs : reading[p] # "post"
        BY <1>t, <3>2 DEF Triggered
      <3>4. active' = pot
        BY <2>4 DEF Swapped
      <3>5. Triggered'
        BY <3>1 DEF Triggered
      <3> QED  BY <2>1, <3>1, <3>2, <3>3, <3>4, <3>5 DEF TriggerInv, Filled
    <2> QED  BY <2>0, <2>2, <2>3, <2>4
  <1>4. ASSUME NEW o \in Outputs, afterRead(o)  PROVE TriggerInv'
    <2>1. UNCHANGED <<active, handling, minData>>
      BY <1>4 DEF afterRead, pots, config
    <2>2. reading' = [reading EXCEPT ![o] = "idle"]
      BY <1>4 DEF afterRead
    <2>3. CASE reading[o] # "post"
      <3>1. posted' = posted
        BY <1>4, <1>t, <2>3 DEF afterRead, PostedAfterRead
      <3> QED  BY <1>1, <2>1, <2>2, <2>3, <3>1
    <2>4. CASE reading[o] = "post"
      <3>1. posted' = posted + 1
        BY <1>4, <1>t, <2>4 DEF afterRead, PostedAfterRead
      <3>2. reading'[o] = "idle" /\ \A p \in Outputs : p # o => reading'[p] = reading[p]
        BY <1>t, <2>2
      <3>3. Triggered /\ Triggered'
        BY <1>t, <2>4, <3>1 DEF Triggered
      <3>4. minData > 0 => posted = 0 /\ ~handling.next /\ \A p \in Outputs : p # o => reading[p] # "post"
        BY <1>0, <1>t, <2>4 DEF TriggerInv
      <3> QED  BY <1>0, <1>t, <2>1, <3>1, <3>2, <3>3, <3>4 DEF TriggerInv, Filled
    <2> QED  BY <2>3, <2>4
  <1>5. ASSUME triggerIOEvent  PROVE TriggerInv'
    <2>1. /\ posted > 0 /\ posted' = posted - 1 /\ handling'.next = ~TooEarly(inactive)
          /\ active' = IF TooEarly(inactive) THEN Empty ELSE inactive
          /\ UNCHANGED <<reading, minData>> /\ handling.next = FALSE
      BY <1>0, <1>5 DEF triggerIOEvent, config, LinkInv, NotHandling
    <2>2. ~Filled(Empty)
      BY DEF Filled, Empty
    <2>3. Filled(active') => handling'.next
      BY <2>1, <2>2
    <2>4. minData > 0 => posted' = 0 /\ (\A p \in Outputs : reading[p] # "post")
      BY <1>0, <1>t, <2>1 DEF TriggerInv
    <2>5. minData > 0 /\ handling'.next => Filled(active')
      BY <1>0, <1>t, <2>1, CompleteIsSwapped
    <2> QED  BY <1>t, <2>1, <2>3, <2>4, <2>5 DEF TriggerInv, Triggered, Filled
  <1>6. ASSUME callHandlers  PROVE TriggerInv'
    <2>1. /\ posted' = IF handling.next THEN posted + 1 ELSE posted
          /\ handling'.next = FALSE
          /\ UNCHANGED <<reading, minData, active>>
      BY <1>6 DEF callHandlers, config, pots, NotHandling
    <2>2. Triggered' <=> Triggered
      BY <1>t, <2>1 DEF Triggered
    <2> QED  BY <1>0, <1>t, <2>1, <2>2 DEF TriggerInv, Filled
  <1>7. ASSUME NEW o \in Outputs, onTcpChannelError(o)  PROVE TriggerInv'
    <2>1. PICK how : how # "post" /\ reading' = [reading EXCEPT ![o] = how]
      BY <1>7 DEF onTcpChannelError
    <2> QED  BY <1>1, <1>7, <2>1 DEF onTcpChannelError, pots, config
  <1>8. ASSUME NEW o \in Outputs, markEos(o)  PROVE TriggerInv'
    BY <1>1, <1>8 DEF markEos, config
  <1>9. ASSUME NEW o \in Outputs, eraseConnection(o)  PROVE TriggerInv'
    BY <1>1, <1>9 DEF eraseConnection, config, pots
  <1>10. \/ UNCHANGED <<active, handling, posted, minData, reading>>
         \/ \E o \in Outputs : Reading(o)
         \/ triggerIOEvent
         \/ callHandlers
    BY DEF Next, outputReady, outputSend, loseConnection, disconnect, Cut, config, pots
  <1> QED  BY <1>2, <1>3, <1>4, <1>5, <1>6, <1>7, <1>8, <1>9, <1>10 DEF Reading

-----------------------------------------------------------------------------
(* End-of-streams that were overwritten                                    *)
Lost == eos.treated - eos.handled - eos.skipped - EosMarks

(* They are counted by what was treated, but neither handled nor waits     *)
LEMMA LostType ==
    ASSUME TypeOK
    PROVE  /\ EosMarks \in 0..3 /\ Lost \in Int
           /\ eos.handled + eos.skipped + EosMarks <= eos.treated <=> Lost >= 0
           /\ EosOverwritten <=> Lost # 0
           /\ \A e \in BOOLEAN : Mark(e) \in 0..1
  <1>1. \A e \in BOOLEAN : Mark(e) \in 0..1
    BY DEF Mark
  <1>2. active.eos \in BOOLEAN /\ inactive.eos \in BOOLEAN /\ handling.eos \in BOOLEAN
    BY PotTypes
  <1>3. Mark(active.eos) \in 0..1 /\ Mark(inactive.eos) \in 0..1 /\ Mark(handling.eos) \in 0..1
    BY <1>1, <1>2
  <1>4. EosMarks \in 0..3
    BY <1>3 DEF EosMarks
  <1>5. eos.treated \in Nat /\ eos.handled \in Nat /\ eos.skipped \in Nat
    BY CountTypes
  <1> QED  BY <1>1, <1>4, <1>5 DEF Lost, EosOverwritten

(* Reading a message overwrites the mark in the inactive pot               *)
LEMMA ReadLost ==
    ASSUME Inv, NEW o \in Outputs, onTcpChannelRead(o)
    PROVE  Lost' = Lost + Mark(inactive.eos)
  <1>0. TypeOK /\ WireInv
    BY DEF Inv
  <1>1. PICK msg, treat, pot :
              /\ Read(o, msg, treat) /\ pot = Collected(o, msg, treat)
              /\ Incomplete(o, pot) \/ Swapped(o, pot) \/ Kept(pot)
    BY ReadIs
  <1>2. treat \in BOOLEAN /\ pot.eos = treat
    BY <1>0, <1>1, ReadFacts
  <1>3. /\ eos'.treated = eos.treated + Mark(treat)
        /\ eos'.handled = eos.handled /\ eos'.skipped = eos.skipped /\ handling' = handling
    <2>1. eos.treated \in Nat
      BY <1>0, CountTypes
    <2>2. /\ eos'.treated = eos.treated + Mark(treat)
          /\ eos'.handled = eos.handled /\ eos'.skipped = eos.skipped
      BY <1>0, <1>1, ReadEos
    <2> QED  BY <1>1, <2>2 DEF Read
  <1>4. PICK a \in 0..1, i \in 0..1, h \in 0..1, t \in 0..1 :
           /\ a = Mark(active.eos) /\ i = Mark(inactive.eos) /\ h = Mark(handling.eos)
           /\ t = Mark(treat)
    BY <1>0, <1>2, PotTypes, LostType
  <1>5. eos.treated \in Nat /\ eos.handled \in Nat /\ eos.skipped \in Nat
    BY <1>0, CountTypes
  <1>6. EosMarks' = EosMarks - i + t
    <2>1. EosMarks = a + i + h
      BY <1>4 DEF EosMarks
    <2>2. CASE Incomplete(o, pot) \/ Kept(pot)
      <3>1. EosMarks' = a + t + h
        BY <1>2, <1>3, <1>4, <2>2 DEF EosMarks, Incomplete, Kept
      <3> QED  BY <2>1, <3>1
    <2>3. CASE Swapped(o, pot)
      <3>0. ~active.eos
        BY <2>3 DEF Swapped, Filled
      <3>1. a = 0
        BY <1>4, <3>0 DEF Mark
      <3>2. EosMarks' = t + a + h
        BY <1>2, <1>3, <1>4, <2>3 DEF EosMarks, Swapped
      <3> QED  BY <2>1, <3>1, <3>2
    <2> QED  BY <1>1, <2>2, <2>3
  <1>7. EosMarks \in Int
    BY <1>0, LostType
  <1> QED  BY <1>3, <1>4, <1>5, <1>6, <1>7 DEF Lost

(* Nothing else does                                                       *)
LEMMA OtherLost ==
    ASSUME Inv, Next, \A o \in Outputs : ~onTcpChannelRead(o)
    PROVE  Lost' = Lost
  <1>0. TypeOK /\ LinkInv
    BY DEF Inv
  <1>t. /\ active.eos \in BOOLEAN /\ inactive.eos \in BOOLEAN /\ handling.eos \in BOOLEAN
        /\ eos.treated \in Nat /\ eos.handled \in Nat /\ eos.skipped \in Nat
    BY <1>0, PotTypes, CountTypes
  <1>1. ASSUME UNCHANGED <<active, inactive, handling, eos>>  PROVE Lost' = Lost
    BY <1>1 DEF Lost, EosMarks
  <1>2. ASSUME triggerIOEvent  PROVE Lost' = Lost
    <2>1. ~handling.eos /\ handling'.eos = active.eos /\ eos' = eos
      BY <1>0, <1>2 DEF LinkInv, NotHandling, triggerIOEvent
    <2>2. ~Empty.eos
      BY DEF Empty
    <2>3. \/ active'.eos = inactive.eos /\ ~inactive'.eos
          \/ inactive'.eos = inactive.eos /\ ~active'.eos
      BY <1>2, <2>2 DEF triggerIOEvent
    <2>4. Mark(FALSE) = 0 /\ Mark(active.eos) \in Int /\ Mark(inactive.eos) \in Int
      BY <1>t DEF Mark
    <2>5. EosMarks = Mark(active.eos) + Mark(inactive.eos)
      BY <2>1, <2>4 DEF EosMarks, Mark
    <2>6. EosMarks' = Mark(inactive.eos) + Mark(active.eos)
      BY <2>1, <2>3, <2>4 DEF EosMarks, Mark
    <2> QED  BY <2>1, <2>4, <2>5, <2>6 DEF Lost
  <1>3. ASSUME callHandlers  PROVE Lost' = Lost
    <2>1. /\ eos'.treated = eos.treated
          /\ eos'.handled + eos'.skipped = eos.handled + eos.skipped + Mark(handling.eos)
          /\ eos'.handled \in Nat /\ eos'.skipped \in Nat
      BY <1>0, <1>3, HandledEos DEF Eos
    <2>2. handling'.eos = FALSE /\ UNCHANGED <<active, inactive>>
      BY <1>3 DEF callHandlers, NotHandling, pots
    <2>3. EosMarks' = Mark(active.eos) + Mark(inactive.eos)
      BY <1>t, <2>2 DEF EosMarks, Mark
    <2>4. Mark(active.eos) \in Int /\ Mark(inactive.eos) \in Int /\ Mark(handling.eos) \in Int
      BY <1>t DEF Mark
    <2> QED  BY <1>t, <2>1, <2>3, <2>4 DEF Lost, EosMarks
  <1>4. ASSUME NEW o \in Outputs, markEos(o)  PROVE Lost' = Lost
    <2>1. inactive'.eos = TRUE /\ UNCHANGED <<active, handling>>
      BY <1>0, <1>4 DEF markEos, TypeOK, Pot
    <2>2. /\ eos'.treated = IF inactive.eos THEN eos.treated ELSE eos.treated + 1
          /\ eos'.handled = eos.handled /\ eos'.skipped = eos.skipped
      <3>1. eos \in Eos
        BY <1>0 DEF TypeOK, Eos
      <3>2. PICK a \in Nat : a = IF inactive.eos THEN eos.treated ELSE eos.treated + 1
        BY <1>t
      <3>3. eos' = [eos EXCEPT !.treated = a]
        BY <1>4, <3>2 DEF markEos
      <3> QED  BY <3>1, <3>2, <3>3, EosUpdate
    <2>3. EosMarks' = Mark(active.eos) + 1 + Mark(handling.eos)
      BY <2>1 DEF EosMarks, Mark
    <2>4. Mark(active.eos) \in Int /\ Mark(handling.eos) \in Int
      BY <1>t DEF Mark
    <2>5. CASE inactive.eos
      BY <1>t, <2>2, <2>3, <2>4, <2>5 DEF Lost, EosMarks, Mark
    <2>6. CASE ~inactive.eos
      BY <1>t, <2>2, <2>3, <2>4, <2>6 DEF Lost, EosMarks, Mark
    <2> QED  BY <2>5, <2>6
  <1>5. \/ UNCHANGED <<active, inactive, handling, eos>>
        \/ \E o \in Outputs : markEos(o)
        \/ triggerIOEvent
        \/ callHandlers
    BY DEF Next, Reading, outputReady, outputSend, afterRead, onTcpChannelError,
           eraseConnection, loseConnection, disconnect, Cut, pots
  <1> QED  BY <1>1, <1>2, <1>3, <1>4, <1>5

(* Channels that all are open, and as many as there are                    *)
LEMMA AllChannels ==
    ASSUME TypeOK, NEW S, S \subseteq open, Cardinality(S) >= Cardinality(open)
    PROVE  S = open
  <1>1. IsFiniteSet(open)
    <2>1. open \in SUBSET Outputs
      BY DEF TypeOK
    <2> QED  BY <2>1, FS_Subset
  <1>2. /\ IsFiniteSet(S) /\ Cardinality(S) <= Cardinality(open)
        /\ Cardinality(open) = Cardinality(S) => open = S
    BY <1>1, FS_Subset
  <1>3. Cardinality(S) \in Nat /\ Cardinality(open) \in Nat
    BY <1>1, <1>2, FS_CardinalityType
  <1> QED  BY <1>2, <1>3

(* What every step does to connections and to what was read                *)
LEMMA Monotone ==
    ASSUME Inv, Next
    PROVE  /\ UNCHANGED outputs /\ open' \subseteq open
           /\ \A c \in Outputs : /\ link'[c] = "up" => link[c] = "up"
                                 /\ link[c] = "closed" => link'[c] = "closed"
                                 /\ eos'.read[c] \in Nat /\ eos'.read[c] >= eos.read[c]
  <1>0. TypeOK
    BY DEF Inv
  <1>1. UNCHANGED outputs /\ open' \subseteq open
    BY DEF Next, Reading, outputReady, outputSend, afterRead, onTcpChannelRead, onTcpChannelError,
           markEos, eraseConnection, loseConnection, disconnect, Cut, triggerIOEvent,
           callHandlers, config, connections
  <1>2. \A c \in Outputs : /\ link'[c] = "up" => link[c] = "up"
                           /\ link[c] = "closed" => link'[c] = "closed"
    <2>1. link \in [Outputs -> {"up", "lost", "closed"}]
      BY <1>0 DEF TypeOK
    <2>2. \/ UNCHANGED link
          \/ \E o \in Outputs : link[o] = "up" /\ link' = [link EXCEPT ![o] = "lost"]
          \/ \E o \in Outputs : link' = [link EXCEPT ![o] = "closed"]
      BY DEF Next, Reading, outputReady, outputSend, afterRead, onTcpChannelRead, onTcpChannelError,
             markEos, eraseConnection, loseConnection, disconnect, Cut, triggerIOEvent, callHandlers
    <2> QED  BY <2>1, <2>2
  <1>3. \A c \in Outputs : eos'.read[c] \in Nat /\ eos'.read[c] >= eos.read[c]
    <2>0. eos \in Eos /\ eos.read \in [Outputs -> Nat] /\ eos.treated \in Nat /\ eos.handled \in Nat /\ eos.skipped \in Nat
      BY <1>0 DEF TypeOK, Eos
    <2>1. ASSUME NEW o \in Outputs, onTcpChannelRead(o)
          PROVE  \A c \in Outputs : eos'.read[c] \in Nat /\ eos'.read[c] >= eos.read[c]
      <3>1. PICK msg, treat : Read(o, msg, treat)
        BY <2>1, ReadIs
      <3>2. eos'.read = [eos.read EXCEPT ![o] = IF msg = 0 THEN @ + 1 ELSE @]
        BY <1>0, <3>1, ReadEos
      <3> QED  BY <2>0, <3>2
    <2>2. ASSUME callHandlers  PROVE eos'.read = eos.read
      BY <1>0, <2>2, HandledEos
    <2>3. ASSUME NEW o \in Outputs, markEos(o)  PROVE eos'.read = eos.read
      BY <2>0, <2>3 DEF markEos, Eos
    <2>4. \/ UNCHANGED eos
          \/ \E o \in Outputs : onTcpChannelRead(o) \/ markEos(o)
          \/ callHandlers
      BY DEF Next, Reading, outputReady, outputSend, afterRead, onTcpChannelError,
             eraseConnection, loseConnection, disconnect, Cut, triggerIOEvent
    <2> QED  BY <2>0, <2>1, <2>2, <2>3, <2>4
  <1> QED  BY <1>1, <1>2, <1>3

(* The end-of-stream bookkeeping                                           *)
LEMMA EosStep == Inv /\ Next => EosInv'
  <1> SUFFICES ASSUME Inv, Next  PROVE EosInv'
    OBVIOUS
  <1>0. TypeOK /\ LinkInv /\ EosInv /\ TypeOK'
    BY TypeStep DEF Inv
  <1>t. /\ outputs \subseteq Outputs /\ open \subseteq outputs /\ eosChannels \subseteq outputs
        /\ reading \in [Outputs -> {"idle", "notify", "post", "markEos", "erase", "gone"}]
        /\ link \in [Outputs -> {"up", "lost", "closed"}]
        /\ eos.treated \in Nat /\ \A c \in Outputs : eos.read[c] \in Nat
    BY <1>0, CountTypes DEF TypeOK
  <1>1. (eos.handled + eos.skipped + EosMarks <= eos.treated)'
    <2>1. Lost >= 0 /\ Lost \in Int /\ Mark(inactive.eos) \in 0..1
      BY <1>0, LostType, PotTypes DEF EosInv
    <2>2. Lost' >= 0
      BY <2>1, ReadLost, OtherLost
    <2>3. (eos.handled + eos.skipped + EosMarks <= eos.treated)' <=> Lost' >= 0
      <3>1. eos'.treated \in Nat /\ eos'.handled \in Nat /\ eos'.skipped \in Nat
        BY <1>0 DEF TypeOK
      <3>2. EosMarks' \in 0..3
        BY DEF EosMarks, Mark
      <3> QED  BY <3>1, <3>2 DEF Lost
    <2> QED  BY <2>2, <2>3
  <1>m. (AllSent => AllSent') /\ (NoneClosed' => NoneClosed)
    BY <1>t, Monotone DEF AllSent, NoneClosed
  <1>2. ASSUME NEW o \in Outputs, onTcpChannelRead(o)  PROVE EosInv'
    <2>0. PICK msg, treat, pot :
              /\ Read(o, msg, treat) /\ pot = Collected(o, msg, treat)
              /\ Incomplete(o, pot) \/ Swapped(o, pot) \/ Kept(pot)
      BY <1>2, ReadIs
    <2>1. /\ UNCHANGED <<open, link, outputs>> /\ link[o] = "up"
          /\ eosChannels' = IF msg = 0 THEN eosChannels \cup {o} ELSE eosChannels
          /\ treat => msg = 0 /\ LastEos(eosChannels \cup {o})
      BY <2>0 DEF Read, config
    <2>2. /\ eos'.read = [eos.read EXCEPT ![o] = IF msg = 0 THEN @ + 1 ELSE @]
          /\ ~treat => eos'.treated = eos.treated
      <3>1. /\ eos'.read = [eos.read EXCEPT ![o] = IF msg = 0 THEN @ + 1 ELSE @]
            /\ eos'.treated = eos.treated + Mark(treat)
        BY <1>0, <2>0, ReadEos
      <3>2. ~treat => Mark(treat) = 0
        BY DEF Mark
      <3> QED  BY <1>t, <3>1, <3>2
    <2>3. msg = 0 => eos'.read[o] > 0
      <3>1. eos.read \in [Outputs -> Nat]
        BY <1>0 DEF TypeOK
      <3> QED  BY <2>2, <3>1
    <2>4. o \in open
      BY <1>0, <2>1 DEF LinkInv
    <2>5. \A c \in eosChannels' : eos'.read[c] > 0 /\ (c \in open' \/ link'[c] = "closed")
      <3> SUFFICES ASSUME NEW c \in eosChannels'
                   PROVE  eos'.read[c] > 0 /\ (c \in open' \/ link'[c] = "closed")
        OBVIOUS
      <3>1. CASE c = o /\ msg = 0
        BY <2>1, <2>3, <2>4, <3>1
      <3>2. CASE c \in eosChannels
        <4>1. eos.read[c] > 0 /\ (c \in open \/ link[c] = "closed") /\ c \in Outputs
          BY <1>0, <1>t, <3>2 DEF EosInv
        <4>2. eos'.read[c] \in Nat /\ eos'.read[c] >= eos.read[c] /\ eos.read[c] \in Nat
          BY <1>t, <4>1, Monotone
        <4> QED  BY <2>1, <4>1, <4>2
      <3> QED  BY <2>1, <3>1, <3>2
    <2>6. ASSUME NoneClosed', treat  PROVE AllSent'
      <3>1. eosChannels' = eosChannels \cup {o} /\ Cardinality(eosChannels') >= Cardinality(open)
        BY <2>1, <2>6 DEF LastEos
      <3>2. \A c \in eosChannels' : eos'.read[c] > 0 /\ c \in outputs
        BY <1>t, <2>4, <2>5, <3>1
      <3>3. eosChannels' \subseteq open
        BY <2>1, <2>5, <2>6, <3>2 DEF NoneClosed
      <3>4. eosChannels' = open
        BY <1>0, <3>1, <3>3, AllChannels
      <3> QED  BY <2>1, <3>2, <3>4 DEF AllSent
    <2>7. NoneClosed' /\ eos'.treated > 0 => AllSent'
      <3>1. CASE treat
        BY <2>6, <3>1
      <3>2. CASE ~treat
        BY <1>0, <1>m, <2>2, <3>2 DEF EosInv
      <3> QED  BY <3>1, <3>2
    <2>8. \A p \in Outputs : reading'[p] = "markEos" => reading[p] = "markEos"
      BY <1>t, <2>0 DEF Incomplete, Swapped, Kept
    <2>9. \A p \in Outputs : NoneClosed' /\ reading'[p] = "markEos" => AllSent'
      BY <1>0, <1>m, <2>8 DEF EosInv
    <2> QED  BY <1>1, <2>5, <2>7, <2>9 DEF EosInv
  <1>3. ASSUME NEW o \in Outputs, onTcpChannelError(o)  PROVE EosInv'
    <2>1. UNCHANGED <<open, link, outputs, eos>> /\ eosChannels' = eosChannels \ {o}
      BY <1>3 DEF onTcpChannelError, config
    <2>2. \A c \in eosChannels' : eos'.read[c] > 0 /\ (c \in open' \/ link'[c] = "closed")
      BY <1>0, <2>1 DEF EosInv
    <2>3. ASSUME NoneClosed', NEW p \in Outputs, reading'[p] = "markEos"  PROVE AllSent'
      <3>1. CASE p # o
        <4>1. reading[p] = "markEos"
          BY <1>3, <1>t, <2>3, <3>1 DEF onTcpChannelError
        <4> QED  BY <1>0, <1>m, <2>3, <4>1 DEF EosInv
      <3>2. CASE p = o
        <4>1. Cardinality(eosChannels') = Cardinality(open)
          BY <1>3, <1>t, <2>3, <3>2 DEF onTcpChannelError
        <4>2. eosChannels' \subseteq open
          BY <1>0, <1>t, <1>m, <2>1, <2>2, <2>3 DEF NoneClosed
        <4>3. Cardinality(open) \in Nat
          <5>1. open \in SUBSET Outputs
            BY <1>t
          <5>2. IsFiniteSet(open)
            BY <5>1, FS_Subset
          <5> QED  BY <5>2, FS_CardinalityType
        <4>4. eosChannels' = open
          BY <1>0, <4>1, <4>2, <4>3, AllChannels
        <4> QED  BY <2>1, <2>2, <4>4 DEF AllSent
      <3> QED  BY <3>1, <3>2
    <2>4. NoneClosed' /\ eos'.treated > 0 => AllSent'
      BY <1>0, <1>m, <2>1 DEF EosInv
    <2> QED  BY <1>1, <2>2, <2>3, <2>4 DEF EosInv
  <1>4. ASSUME UNCHANGED eosChannels,
               \A c \in eosChannels : c \in open => c \in open' \/ link'[c] = "closed",
               \A p \in Outputs : reading'[p] = "markEos" => reading[p] = "markEos",
               eos'.treated = eos.treated \/ \E o \in Outputs : reading[o] = "markEos"
        PROVE  EosInv'
    <2>1. \A c \in eosChannels' : eos'.read[c] > 0 /\ (c \in open' \/ link'[c] = "closed")
      <3> SUFFICES ASSUME NEW c \in eosChannels
                   PROVE  eos'.read[c] > 0 /\ (c \in open' \/ link'[c] = "closed")
        BY <1>4
      <3>1. eos.read[c] > 0 /\ (c \in open \/ link[c] = "closed") /\ c \in Outputs
        BY <1>0, <1>t DEF EosInv
      <3>2. eos'.read[c] \in Nat /\ eos'.read[c] >= eos.read[c] /\ eos.read[c] \in Nat
            /\ (link[c] = "closed" => link'[c] = "closed")
        BY <1>t, <3>1, Monotone
      <3> QED  BY <1>4, <3>1, <3>2
    <2>2. \A p \in Outputs : NoneClosed' /\ reading'[p] = "markEos" => AllSent'
      BY <1>0, <1>m, <1>4 DEF EosInv
    <2>3. NoneClosed' /\ eos'.treated > 0 => AllSent'
      BY <1>0, <1>m, <1>4 DEF EosInv
    <2> QED  BY <1>1, <2>1, <2>2, <2>3 DEF EosInv
  <1>5. ASSUME NEW o \in Outputs, outputReady(o) \/ outputSend(o)  PROVE EosInv'
    BY <1>4, <1>5 DEF outputReady, outputSend, connections
  <1>6. ASSUME NEW o \in Outputs, afterRead(o)  PROVE EosInv'
    <2>1. \A p \in Outputs : reading'[p] = "markEos" => reading[p] = "markEos"
      BY <1>6, <1>t DEF afterRead
    <2> QED  BY <1>4, <1>6, <2>1 DEF afterRead, connections
  <1>7. ASSUME triggerIOEvent  PROVE EosInv'
    BY <1>4, <1>7 DEF triggerIOEvent, connections
  <1>8. ASSUME callHandlers  PROVE EosInv'
    <2>1. eos'.treated = eos.treated
      BY <1>0, <1>8, HandledEos
    <2> QED  BY <1>4, <1>8, <2>1 DEF callHandlers, connections
  <1>9. ASSUME NEW o \in Outputs, loseConnection(o)  PROVE EosInv'
    BY <1>4, <1>9 DEF loseConnection, Cut
  <1>10. ASSUME NEW o \in Outputs, disconnect(o)  PROVE EosInv'
    <2>1. link'[o] = "closed" /\ open' = open \ {o} /\ UNCHANGED <<eosChannels, reading, eos>>
      BY <1>10, <1>t DEF disconnect, Cut
    <2> QED  BY <1>4, <2>1
  <1>11. ASSUME NEW o \in Outputs, markEos(o)  PROVE EosInv'
    <2>1. \A p \in Outputs : reading'[p] = "markEos" => reading[p] = "markEos"
      BY <1>11, <1>t DEF markEos
    <2> QED  BY <1>4, <1>11, <2>1 DEF markEos, connections
  <1>12. ASSUME NEW o \in Outputs, eraseConnection(o)  PROVE EosInv'
    <2>1. \A p \in Outputs : reading'[p] = "markEos" => reading[p] = "markEos"
      BY <1>12, <1>t DEF eraseConnection
    <2>2. o \notin eosChannels /\ open' = open \ {o}
      BY <1>0, <1>12 DEF eraseConnection, LinkInv
    <2> QED  BY <1>4, <1>12, <2>1, <2>2 DEF eraseConnection
  <1> QED  BY <1>2, <1>3, <1>5, <1>6, <1>7, <1>8, <1>9, <1>10, <1>11, <1>12 DEF Next, Reading

-----------------------------------------------------------------------------
(* Once a mark was overwritten, that stays so                              *)
LEMMA OverwrittenStays ==
    ASSUME Inv, Next, EosOverwritten
    PROVE  EosOverwritten'
  <1>0. TypeOK /\ EosInv /\ TypeOK'
    BY TypeStep DEF Inv
  <1>1. Lost \in Int /\ Lost >= 0 /\ Lost # 0 /\ Mark(inactive.eos) \in 0..1
    BY <1>0, LostType, PotTypes DEF EosInv
  <1>2. Lost' > 0
    BY <1>1, ReadLost, OtherLost
  <1>3. eos'.treated \in Nat /\ eos'.handled \in Nat /\ eos'.skipped \in Nat
    BY <1>0 DEF TypeOK
  <1>4. EosMarks' \in 0..3
    BY DEF EosMarks, Mark
  <1> QED  BY <1>2, <1>3, <1>4 DEF Lost, EosOverwritten

(* It happens when a message is read while one waits in the inactive pot   *)
LEMMA ReadOverwrites ==
    ASSUME Inv, NEW o \in Outputs, onTcpChannelRead(o)
    PROVE  /\ inactive.eos => EosOverwritten'
           /\ ~inactive.eos => (EosOverwritten' <=> EosOverwritten)
  <1>0. TypeOK /\ EosInv /\ TypeOK'
    BY ReadType DEF Inv
  <1>1. Lost \in Int /\ Lost >= 0
    BY <1>0, LostType DEF EosInv
  <1>2. Lost' = Lost + (IF inactive.eos THEN 1 ELSE 0)
    BY ReadLost DEF Mark
  <1>3. eos'.treated \in Nat /\ eos'.handled \in Nat /\ eos'.skipped \in Nat
    BY <1>0 DEF TypeOK
  <1>4. EosMarks' \in 0..3
    BY DEF EosMarks, Mark
  <1>5. EosOverwritten' <=> Lost' # 0
    BY <1>3, <1>4 DEF Lost, EosOverwritten
  <1>6. EosOverwritten <=> Lost # 0
    BY <1>0, LostType
  <1> QED  BY <1>1, <1>2, <1>5, <1>6

(* Adding a message leaves a pot complete, unless the mark is overwritten  *)
LEMMA StaysComplete ==
    ASSUME TypeOK, WireInv, NEW o \in Outputs, NEW msg, NEW treat, Read(o, msg, treat),
           NEW pot, pot = Collected(o, msg, treat), Complete(inactive), ~inactive.eos
    PROVE  minData > 0 /\ Complete(pot)
  <1>1. minData > 0 /\ Len(inactive.data) >= minData /\ inactive.data \in Seq(Item)
    BY PotTypes DEF Complete
  <1>2. /\ msg # 0 => pot.data = Append(inactive.data, <<o, msg>>)
        /\ msg = 0 => pot.data = inactive.data
        /\ msg \in 0..MaxMsgs
    BY ReadFacts
  <1>3. Len(inactive.data) \in Nat /\ minData \in Nat
    <2>1. Len(inactive.data) \in Nat
      BY <1>1
    <2>2. minData \in Nat
      BY DEF TypeOK
    <2> QED  BY <2>1, <2>2
  <1>4. Len(pot.data) >= minData
    <2>1. CASE msg = 0
      BY <1>1, <1>2, <2>1
    <2>2. CASE msg # 0
      <3>1. <<o, msg>> \in Item
        BY <1>2, <2>2 DEF Item
      <3>2. Len(pot.data) = Len(inactive.data) + 1
        BY <1>1, <1>2, <2>2, <3>1
      <3> QED  BY <1>1, <1>3, <3>2
    <2> QED  BY <2>1, <2>2
  <1> QED  BY <1>1, <1>4 DEF Complete

(* Nobody is forgotten                                                     *)
LEMMA StallStep == Inv /\ Next => NobodyStalls'
  <1> SUFFICES ASSUME Inv, Next, NEW p \in open', link'[p] = "up", ~Asked(p)', ~EosOverwritten'
               PROVE  (Complete(inactive)' /\ Triggered') \/ handling'.next
    BY DEF NobodyStalls
  <1>0. TypeOK /\ LinkInv /\ WireInv /\ TriggerInv
    BY DEF Inv
  <1>t. /\ reading \in [Outputs -> {"idle", "notify", "post", "markEos", "erase", "gone"}]
        /\ link \in [Outputs -> {"up", "lost", "closed"}]
        /\ toInput \in [Outputs -> Seq(0..MaxMsgs)]
        /\ wire \in [Outputs -> 0..(MaxMsgs + 1)]
        /\ ready \in [Outputs -> BOOLEAN]
        /\ posted \in Nat /\ active \in Pot /\ inactive \in Pot
        /\ handling.next \in BOOLEAN /\ minData \in Nat
    BY <1>0, PotTypes DEF TypeOK
  <1>p. p \in open /\ link[p] = "up" /\ p \in Outputs /\ ~EosOverwritten
    BY <1>0, Monotone, OverwrittenStays DEF TypeOK
  <1>a. ~Asked(p) => (Complete(inactive) /\ Triggered) \/ handling.next
    BY <1>p DEF Inv, NobodyStalls
  <1>1. ASSUME ~Asked(p), UNCHANGED <<inactive, handling, minData>>, Triggered => Triggered'
        PROVE  (Complete(inactive)' /\ Triggered') \/ handling'.next
    BY <1>a, <1>1 DEF Complete
  <1>2. ASSUME NEW o \in Outputs, outputReady(o)
        PROVE  (Complete(inactive)' /\ Triggered') \/ handling'.next
    <2>1. o # p
      BY <1>2, <1>t DEF outputReady, Asked
    <2>2. ~Asked(p)
      BY <1>2, <1>t, <2>1 DEF outputReady, Asked
    <2> QED  BY <1>1, <1>2, <2>2 DEF outputReady, pots, config, Triggered
  <1>3. ASSUME NEW o \in Outputs, outputSend(o)
        PROVE  (Complete(inactive)' /\ Triggered') \/ handling'.next
    <2>1. o # p
      <3>1. PICK n \in Int : toInput'[o] = Append(toInput[o], n)
        <4>1. items[o].sent + 1 \in Int
          BY <1>0, CountTypes
        <4>2. \/ toInput' = [toInput EXCEPT ![o] = Append(@, 0)]
              \/ toInput' = [toInput EXCEPT ![o] = Append(@, items[o].sent + 1)]
          BY <1>3 DEF outputSend
        <4>3. \/ toInput'[o] = Append(toInput[o], 0)
              \/ toInput'[o] = Append(toInput[o], items[o].sent + 1)
          BY <1>t, <4>2
        <4> QED  BY <4>1, <4>3
      <3>2. toInput[o] \in Seq(0..MaxMsgs)
        BY <1>t
      <3>3. toInput[o] \in Seq(Int)
        BY <3>2
      <3>4. toInput'[o] # <<>>
        BY <3>1, <3>3
      <3> QED  BY <3>4 DEF Asked
    <2>2. ~Asked(p)
      <3>1. toInput'[p] = toInput[p] /\ ready'[p] = ready[p]
        BY <1>3, <1>p, <1>t, <2>1 DEF outputSend
      <3>2. UNCHANGED <<wire, reading>>
        BY <1>3 DEF outputSend
      <3> QED  BY <3>1, <3>2 DEF Asked
    <2> QED  BY <1>1, <1>3, <2>2 DEF outputSend, pots, config, Triggered
  <1>4. ASSUME NEW o \in Outputs, onTcpChannelRead(o)
        PROVE  (Complete(inactive)' /\ Triggered') \/ handling'.next
    <2>0. PICK msg, treat, pot :
              /\ Read(o, msg, treat) /\ pot = Collected(o, msg, treat)
              /\ Incomplete(o, pot) \/ Swapped(o, pot) \/ Kept(pot)
      BY <1>4, ReadIs
    <2>1. ~inactive.eos
      BY <1>4, ReadOverwrites
    <2>2. UNCHANGED <<handling, posted, minData, wire, ready>> /\ reading[o] = "idle" /\ toInput[o] # <<>>
      BY <2>0 DEF Read, config, output
    <2>3. CASE Kept(pot)
      <3>1. Complete(inactive)'
        BY <2>2, <2>3 DEF Kept, Complete
      <3>2. Triggered
        BY <1>0, <2>3 DEF Kept, TriggerInv
      <3>3. Triggered'
        BY <2>2, <2>3, <3>2 DEF Kept, Triggered
      <3> QED  BY <3>1, <3>3
    <2>4. CASE Incomplete(o, pot) \/ Swapped(o, pot)
      <3>1. reading'[o] \in {"notify", "post"} /\ \A q \in Outputs : q # o => reading'[q] = reading[q]
        BY <1>t, <2>4 DEF Incomplete, Swapped
      <3>2. p # o
        BY <3>1 DEF Asked
      <3>3. toInput'[p] = toInput[p]
        BY <1>p, <1>t, <2>0, <3>2 DEF Read
      <3>4. ~Asked(p)
        BY <1>p, <2>2, <3>1, <3>2, <3>3 DEF Asked
      <3>5. CASE handling.next
        BY <2>2, <3>5
      <3>6. CASE Complete(inactive) /\ Triggered
        <4>1. minData > 0 /\ Complete(pot)
          BY <1>0, <2>0, <2>1, <3>6, StaysComplete
        <4>2. Filled(active)
          BY <1>0, <3>6, <4>1 DEF TriggerInv
        <4> QED  BY <2>4, <4>1, <4>2 DEF Incomplete, Swapped
      <3> QED  BY <1>a, <3>4, <3>5, <3>6
    <2> QED  BY <2>0, <2>3, <2>4
  <1>5. ASSUME NEW o \in Outputs, afterRead(o)
        PROVE  (Complete(inactive)' /\ Triggered') \/ handling'.next
    <2>1. o # p
      <3>1. o \in {o} /\ link[o] = "up" => wire'[o] > 0
        BY <1>0, <1>5, RequestedFacts DEF afterRead
      <3> QED  BY <1>p, <3>1 DEF Asked
    <2>2. wire'[p] = wire[p]
      <3>1. wire' = Requested({o}) /\ p \notin {o}
        BY <1>5, <2>1 DEF afterRead
      <3> QED  BY <1>0, <1>p, <3>1, RequestedFacts
    <2>3. reading'[p] = reading[p]
      BY <1>5, <1>p, <1>t, <2>1 DEF afterRead
    <2>4. ~Asked(p)
      BY <1>5, <2>2, <2>3 DEF Asked, afterRead
    <2>5. Triggered => Triggered'
      <3>1. \A q \in Outputs : q # o => reading'[q] = reading[q]
        BY <1>5, <1>t DEF afterRead
      <3>2. UNCHANGED handling /\ posted' = posted + (IF reading[o] = "post" THEN 1 ELSE 0)
        BY <1>5 DEF afterRead, PostedAfterRead
      <3>3. CASE reading[o] = "post"
        BY <1>t, <3>2, <3>3 DEF Triggered
      <3>4. CASE reading[o] # "post"
        <4>1. posted' = posted
          BY <1>t, <3>2, <3>4
        <4> QED  BY <3>1, <3>2, <3>4, <4>1 DEF Triggered
      <3> QED  BY <3>3, <3>4
    <2> QED  BY <1>1, <1>5, <2>4, <2>5 DEF afterRead, pots, config
  <1>6. ASSUME triggerIOEvent
        PROVE  (Complete(inactive)' /\ Triggered') \/ handling'.next
    <2>1. ~Asked(p) /\ ~handling.next
      BY <1>0, <1>6 DEF Asked, triggerIOEvent, output, LinkInv, NotHandling
    <2>2. Complete(inactive)
      BY <1>a, <2>1
    <2>3. ~TooEarly(inactive)
      <3>1. Len(inactive.data) \in Nat
        BY <1>t DEF Pot
      <3> QED  BY <1>t, <2>2, <3>1 DEF Complete, TooEarly
    <2> QED  BY <1>6, <2>3 DEF triggerIOEvent
  <1>7. ASSUME callHandlers
        PROVE  (Complete(inactive)' /\ Triggered') \/ handling'.next
    <2>1. \A q \in Outputs : wire[q] <= wire'[q]
                             /\ (q \in NotifiedAfterSwap /\ link[q] = "up" => wire'[q] > 0)
      BY <1>0, <1>7, RequestedFacts DEF callHandlers
    <2>2. ~handling.next
      BY <1>p, <2>1 DEF NotifiedAfterSwap, Asked
    <2>3. ~(wire[p] > 0)
      BY <1>p, <1>t, <2>1, RequestedFacts, <1>0, <1>7 DEF Asked, callHandlers
    <2>4. ~Asked(p)
      BY <1>7, <2>3 DEF callHandlers, Asked
    <2>5. Complete(inactive) /\ Triggered
      BY <1>a, <2>2, <2>4
    <2>6. UNCHANGED <<inactive, minData, reading, posted>>
      BY <1>7, <2>2 DEF callHandlers, pots, config
    <2> QED  BY <2>2, <2>5, <2>6 DEF Complete, Triggered
  <1>8. ASSUME NEW o \in Outputs, NEW how \in {"lost", "closed"}, Cut(o, how)
        PROVE  (Complete(inactive)' /\ Triggered') \/ handling'.next
    <2>1. p # o
      BY <1>8, <1>t DEF Cut
    <2>2. ~Asked(p)
      BY <1>8, <1>t, <2>1 DEF Cut, Asked
    <2> QED  BY <1>1, <1>8, <2>2 DEF Cut, pots, config, Triggered
  <1>9. ASSUME NEW o \in Outputs, onTcpChannelError(o)
        PROVE  (Complete(inactive)' /\ Triggered') \/ handling'.next
    <2>1. p # o /\ reading[o] = "idle"
      BY <1>9, <1>p DEF onTcpChannelError
    <2>2. \A q \in Outputs : q # o => reading'[q] = reading[q]
      BY <1>9, <1>t DEF onTcpChannelError
    <2>3. ~Asked(p)
      BY <1>9, <1>p, <2>1, <2>2 DEF onTcpChannelError, output, Asked
    <2>4. Triggered => Triggered'
      BY <1>9, <2>1, <2>2 DEF Triggered, onTcpChannelError
    <2> QED  BY <1>1, <1>9, <2>3, <2>4 DEF onTcpChannelError, pots, config
  <1>10. ASSUME NEW o \in Outputs, markEos(o) \/ eraseConnection(o)
         PROVE  (Complete(inactive)' /\ Triggered') \/ handling'.next
    <2>1. p # o /\ reading[o] # "post"
      BY <1>0, <1>10, <1>p DEF markEos, eraseConnection, LinkInv
    <2>2. \A q \in Outputs : q # o => reading'[q] = reading[q]
      BY <1>10, <1>t DEF markEos, eraseConnection
    <2>3. ~Asked(p)
      BY <1>10, <1>p, <2>1, <2>2 DEF markEos, eraseConnection, output, Asked
    <2>4. Triggered => Triggered'
      BY <1>10, <2>1, <2>2 DEF Triggered, markEos, eraseConnection
    <2>5. Complete(inactive) => Complete(inactive)'
      <3>1. CASE markEos(o)
        <4>1. inactive'.eos
          BY <1>t, <3>1 DEF markEos, Pot
        <4> QED  BY <4>1 DEF Complete
      <3>2. CASE eraseConnection(o)
        BY <3>2 DEF eraseConnection, Complete, pots, config
      <3> QED  BY <1>10, <3>1, <3>2
    <2>6. UNCHANGED handling
      BY <1>10 DEF markEos, eraseConnection
    <2> QED  BY <1>a, <2>3, <2>4, <2>5, <2>6
  <1> QED  BY <1>2, <1>3, <1>4, <1>5, <1>6, <1>7, <1>8, <1>9, <1>10
           DEF Next, Reading, loseConnection, disconnect

-----------------------------------------------------------------------------
(* With a single output channel there is one request or message at a time  *)
LEMMA SingleStep == Inv /\ Next => SingleInv'
  <1> SUFFICES ASSUME Inv, Next, minData' > 0, Cardinality(outputs') = 1
               PROVE  /\ ~EosOverwritten'
                      /\ handling'.next => ~Complete(inactive)'
                      /\ \A o \in Outputs : reading'[o] # "markEos"
                      /\ \A o \in outputs' :
                            /\ Credit(o)' <= 1
                            /\ Complete(inactive)' \/ handling'.next => Credit(o)' = 0
    BY DEF SingleInv
  <1>0. TypeOK /\ LinkInv /\ WireInv /\ TriggerInv /\ EosInv
    BY DEF Inv
  <1>c. UNCHANGED <<outputs, minData>>
    BY DEF Next, Reading, outputReady, outputSend, afterRead, onTcpChannelRead, onTcpChannelError,
           markEos, eraseConnection, loseConnection, disconnect, Cut, triggerIOEvent,
           callHandlers, config
  <1>1. PICK p \in Outputs : outputs = {p}
    <2>1. outputs \in SUBSET Outputs
      BY <1>0 DEF TypeOK
    <2>2. IsFiniteSet(outputs)
      BY <2>1, FS_Subset
    <2> QED  BY <1>c, <2>1, <2>2, FS_Singleton
  <1>2. /\ ~EosOverwritten /\ minData > 0
        /\ handling.next => ~Complete(inactive)
        /\ \A o \in Outputs : reading[o] # "markEos"
        /\ Credit(p) <= 1
        /\ Complete(inactive) \/ handling.next => Credit(p) = 0
    BY <1>1, <1>c DEF Inv, SingleInv
  <1>t. /\ reading \in [Outputs -> {"idle", "notify", "post", "markEos", "erase", "gone"}]
        /\ link \in [Outputs -> {"up", "lost", "closed"}]
        /\ toInput \in [Outputs -> Seq(0..MaxMsgs)]
        /\ wire \in [Outputs -> 0..(MaxMsgs + 1)]
        /\ ready \in [Outputs -> BOOLEAN]
        /\ posted \in Nat /\ active \in Pot /\ inactive \in Pot
        /\ handling.next \in BOOLEAN /\ minData \in Nat
    BY <1>0, PotTypes DEF TypeOK
  <1>k. PICK w \in Nat, r \in 0..1, n \in Nat, k \in 0..1 :
           /\ w = wire[p] /\ r = Mark(ready[p]) /\ n = Len(toInput[p])
           /\ k = Mark(reading[p] \in {"notify", "post"})
           /\ Credit(p) = w + r + n + k
    <2>1. Len(toInput[p]) \in Nat
      <3>1. toInput[p] \in Seq(0..MaxMsgs)
        BY <1>t
      <3> QED  BY <3>1
    <2>2. wire[p] \in Nat
      BY <1>t
    <2>3. Mark(ready[p]) \in 0..1 /\ Mark(reading[p] \in {"notify", "post"}) \in 0..1
      BY DEF Mark
    <2> QED  BY <2>1, <2>2, <2>3 DEF Credit
  <1>n. /\ w \in Nat /\ r \in 0..1 /\ n \in Nat /\ k \in 0..1
        /\ Credit(p) = w + r + n + k
    BY <1>k
  <1> DEFINE Kept2 == /\ ~EosOverwritten'
                      /\ handling'.next => ~Complete(inactive)'
                      /\ \A o \in Outputs : reading'[o] # "markEos"
                      /\ Credit(p)' <= 1
                      /\ Complete(inactive)' \/ handling'.next => Credit(p)' = 0
  <1> SUFFICES Kept2
    BY <1>1, <1>c
  <1>o. (\A o \in Outputs : ~onTcpChannelRead(o)) => ~EosOverwritten'
    <2>1. ASSUME \A o \in Outputs : ~onTcpChannelRead(o)  PROVE ~EosOverwritten'
      <3>1. Lost = 0 /\ Lost' = Lost
        BY <1>0, <1>2, <2>1, LostType, OtherLost
      <3>2. eos'.treated \in Nat /\ eos'.handled \in Nat /\ eos'.skipped \in Nat
        BY TypeStep DEF TypeOK
      <3>3. EosMarks' \in 0..3
        BY DEF EosMarks, Mark
      <3> QED  BY <3>1, <3>2, <3>3 DEF Lost, EosOverwritten
    <2> QED  BY <2>1
  <1>3. ASSUME ~EosOverwritten', UNCHANGED <<inactive, handling>>,
               \A o \in Outputs : reading'[o] # "markEos",
               Credit(p)' \in Nat, Credit(p)' <= Credit(p)
        PROVE  Kept2
    <2>1. Complete(inactive)' <=> Complete(inactive)
      BY <1>3, <1>c DEF Complete
    <2>2. Credit(p) \in Nat
      BY <1>n
    <2> QED  BY <1>2, <1>3, <2>1, <2>2
  <1> HIDE DEF Kept2
  <1>4. ASSUME NEW o \in Outputs, outputReady(o)  PROVE Kept2
    <2>0. ~EosOverwritten'
      <3>1. UNCHANGED <<eos, active, inactive, handling>>
        BY <1>4 DEF outputReady, pots
      <3> QED  BY <1>2, <3>1 DEF EosOverwritten, EosMarks
    <2>1. UNCHANGED <<toInput, reading, inactive, handling>>
      BY <1>4 DEF outputReady, pots
    <2>2. CASE o = p
      <3>1. wire[p] > 0 /\ wire'[p] = wire[p] - 1 /\ ready'[p] = TRUE
        BY <1>4, <1>t, <2>2 DEF outputReady
      <3>2. Credit(p)' = (w - 1) + 1 + n + k
        BY <1>k, <2>1, <3>1 DEF Credit, Mark
      <3>3. Credit(p)' \in Nat /\ Credit(p)' <= Credit(p)
        BY <1>n, <3>2
      <3> QED  BY <1>2, <1>3, <2>0, <2>1, <3>3
    <2>3. CASE o # p
      <3>1. wire'[p] = wire[p] /\ ready'[p] = ready[p]
        BY <1>4, <1>t, <2>3 DEF outputReady
      <3>2. Credit(p)' = Credit(p)
        BY <2>1, <3>1 DEF Credit
      <3>3. Credit(p)' \in Nat /\ Credit(p)' <= Credit(p)
        BY <1>n, <3>2
      <3> QED  BY <1>2, <1>3, <2>0, <2>1, <3>3
    <2> QED  BY <2>2, <2>3
  <1>5. ASSUME NEW o \in Outputs, outputSend(o)  PROVE Kept2
    <2>0. ~EosOverwritten'
      <3>1. UNCHANGED <<eos, active, inactive, handling>>
        BY <1>5 DEF outputSend, pots
      <3> QED  BY <1>2, <3>1 DEF EosOverwritten, EosMarks
    <2>1. UNCHANGED <<wire, reading, inactive, handling>>
      BY <1>5 DEF outputSend, pots
    <2>2. CASE o = p
      <3>1. ready[p] = TRUE /\ ready'[p] = FALSE
        BY <1>5, <1>t, <2>2 DEF outputSend
      <3>2. Len(toInput'[p]) = n + 1
        <4>1. \/ toInput' = [toInput EXCEPT ![p] = Append(@, 0)]
              \/ toInput' = [toInput EXCEPT ![p] = Append(@, items[p].sent + 1)]
          BY <1>5, <2>2 DEF outputSend
        <4>2. PICK x \in Int : toInput'[p] = Append(toInput[p], x)
          <5>1. items[p].sent + 1 \in Int
            BY <1>0, CountTypes
          <5>2. \/ toInput'[p] = Append(toInput[p], 0)
                \/ toInput'[p] = Append(toInput[p], items[p].sent + 1)
            BY <1>t, <4>1
          <5> QED  BY <5>1, <5>2
        <4>3. toInput[p] \in Seq(0..MaxMsgs)
          BY <1>t
        <4>4. toInput[p] \in Seq(Int)
          BY <4>3
        <4>5. Len(toInput'[p]) = Len(toInput[p]) + 1
          BY <4>2, <4>4
        <4> QED  BY <1>k, <4>5
      <3>3. r = 1
        BY <1>k, <3>1 DEF Mark
      <3>4. Credit(p)' = w + 0 + (n + 1) + k
        BY <1>k, <2>1, <3>1, <3>2 DEF Credit, Mark
      <3>5. Credit(p)' \in Nat /\ Credit(p)' <= Credit(p)
        BY <1>n, <3>3, <3>4
      <3> QED  BY <1>2, <1>3, <2>0, <2>1, <3>5
    <2>3. CASE o # p
      <3>1. toInput'[p] = toInput[p] /\ ready'[p] = ready[p]
        BY <1>5, <1>t, <2>3 DEF outputSend
      <3>2. Credit(p)' = Credit(p)
        BY <2>1, <3>1 DEF Credit
      <3>3. Credit(p)' \in Nat /\ Credit(p)' <= Credit(p)
        BY <1>n, <3>2
      <3> QED  BY <1>2, <1>3, <2>0, <2>1, <3>3
    <2> QED  BY <2>2, <2>3
  <1>6. ASSUME NEW o \in Outputs, onTcpChannelRead(o)  PROVE Kept2
    <2>0. PICK msg, treat, pot :
              /\ Read(o, msg, treat) /\ pot = Collected(o, msg, treat)
              /\ Incomplete(o, pot) \/ Swapped(o, pot) \/ Kept(pot)
      BY <1>6, ReadIs
    <2>r. Read(o, msg, treat)
      BY <2>0
    <2>1. o = p
      <3>1. o \in outputs
        BY <1>0, <2>r DEF LinkInv, Read, TypeOK
      <3> QED  BY <1>1, <3>1
    <2>2. /\ toInput[p] \in Seq(0..MaxMsgs) /\ toInput[p] # <<>>
          /\ toInput'[p] = Tail(toInput[p]) /\ reading[p] = "idle"
          /\ UNCHANGED <<wire, ready, handling>>
      BY <1>t, <2>1, <2>r DEF Read, output
    <2>3. n >= 1 /\ Len(toInput'[p]) = n - 1 /\ k = 0
      <3>1. Len(toInput[p]) \in Nat \ {0} /\ Len(Tail(toInput[p])) = Len(toInput[p]) - 1
        BY <2>2, TailFacts
      <3>2. k = 0
        BY <1>k, <2>2 DEF Mark
      <3> QED  BY <1>k, <2>2, <3>1, <3>2
    <2>4. w = 0 /\ r = 0 /\ n = 1 /\ ~Complete(inactive) /\ ~handling.next
      <3>1. w + r + n + k <= 1
        BY <1>2, <1>k
      <3>2. w = 0 /\ r = 0 /\ n = 1
        BY <2>3, <3>1
      <3>3. Credit(p) # 0
        BY <1>k, <2>3, <3>2
      <3> QED  BY <1>2, <3>2, <3>3
    <2>5. ~inactive.eos /\ ~EosOverwritten'
      <3>1. ~inactive.eos
        BY <2>4 DEF Complete
      <3> QED  BY <1>2, <1>6, <3>1, ReadOverwrites
    <2>6. Credit(p)' = Mark(reading'[p] \in {"notify", "post"})
      <3>1. Credit(p)' = w + r + (n - 1) + Mark(reading'[p] \in {"notify", "post"})
        BY <1>k, <2>2, <2>3 DEF Credit
      <3>2. Mark(reading'[p] \in {"notify", "post"}) \in 0..1
        BY DEF Mark
      <3> QED  BY <2>4, <3>1, <3>2
    <2>7. Credit(p)' <= 1 /\ ~handling'.next
      BY <2>2, <2>4, <2>6 DEF Mark
    <2>8. \A q \in Outputs : reading'[q] # "markEos"
      BY <1>2, <1>t, <2>0 DEF Incomplete, Swapped, Kept
    <2>9. Complete(inactive)' => Credit(p)' = 0
      <3>1. CASE Incomplete(o, pot)
        BY <1>c, <3>1 DEF Incomplete, Complete
      <3>2. CASE Swapped(o, pot)
        <4>1. ~Complete(active)
          BY <1>0, <1>2, <1>t, <3>2, CompleteIsSwapped DEF Swapped
        <4> QED  BY <1>c, <3>2, <4>1 DEF Swapped, Complete
      <3>3. CASE Kept(pot)
        BY <2>2, <2>6, <3>3 DEF Kept, Mark
      <3> QED  BY <2>0, <3>1, <3>2, <3>3
    <2> QED  BY <2>5, <2>7, <2>8, <2>9 DEF Kept2
  <1>7. ASSUME NEW o \in Outputs, afterRead(o)  PROVE Kept2
    <2>0. ~EosOverwritten'
      <3>1. UNCHANGED <<eos, active, inactive, handling>>
        BY <1>7 DEF afterRead, pots
      <3> QED  BY <1>2, <3>1 DEF EosOverwritten, EosMarks
    <2>1. UNCHANGED <<toInput, ready, inactive, handling>>
      BY <1>7 DEF afterRead, pots
    <2>2. wire' = Requested({o}) /\ reading' = [reading EXCEPT ![o] = "idle"]
      BY <1>7 DEF afterRead
    <2>3. \A q \in Outputs : reading'[q] # "markEos"
      BY <1>2, <1>t, <2>2
    <2>4. CASE o = p
      <3>1. wire'[p] \in Nat /\ wire'[p] <= w + 1
        <4>1. /\ wire' \in [Outputs -> 0..(MaxMsgs + 1)]
              /\ wire'[p] <= wire[p] + 1
          BY <1>0, <2>2, RequestedFacts
        <4> QED  BY <1>k, <4>1
      <3>2. k = 1 /\ reading'[p] = "idle"
        BY <1>7, <1>k, <1>t, <2>2, <2>4 DEF afterRead, Mark
      <3>3. Credit(p)' = wire'[p] + r + n + 0
        BY <1>k, <2>1, <3>2 DEF Credit, Mark
      <3>4. Credit(p)' \in Nat /\ Credit(p)' <= Credit(p)
        BY <1>n, <3>1, <3>2, <3>3
      <3> QED  BY <1>3, <2>0, <2>1, <2>3, <3>4
    <2>5. CASE o # p
      <3>0. p \notin {o}
        BY <2>5
      <3>1. wire'[p] = wire[p]
        BY <1>0, <2>2, <3>0, RequestedFacts
      <3>2. reading'[p] = reading[p]
        BY <1>t, <2>2, <2>5
      <3>3. Credit(p)' = Credit(p)
        BY <2>1, <3>1, <3>2 DEF Credit
      <3>4. Credit(p)' \in Nat /\ Credit(p)' <= Credit(p)
        BY <1>n, <3>3
      <3> QED  BY <1>3, <2>0, <2>1, <2>3, <3>4
    <2> QED  BY <2>4, <2>5
  <1>8. ASSUME triggerIOEvent  PROVE Kept2
    <2>0. ~EosOverwritten'
      <3>1. \A o \in Outputs : ~onTcpChannelRead(o)
        <4>1. posted' # posted
          BY <1>8, <1>t DEF triggerIOEvent
        <4> QED  BY <4>1 DEF onTcpChannelRead
      <3> QED  BY <1>o, <3>1
    <2>1. UNCHANGED <<toInput, ready, wire, reading>>
      BY <1>8 DEF triggerIOEvent, output
    <2>2. Credit(p)' = Credit(p)
      BY <2>1 DEF Credit
    <2>3. /\ handling'.next = ~TooEarly(inactive)
          /\ inactive' = IF TooEarly(inactive) THEN inactive ELSE Empty
      BY <1>8 DEF triggerIOEvent
    <2>4. TooEarly(inactive) <=> ~Complete(inactive)
      BY <1>0, <1>2, <1>t, CompleteIsSwapped
    <2>5. ~Complete(Empty)
      <3>1. Empty \in Pot /\ ~Filled(Empty)
        BY DEF Empty, Pot, Filled
      <3> QED  BY <1>0, <1>2, <3>1, CompleteIsSwapped
    <2>6. ~Complete(inactive)'
      <3>1. CASE TooEarly(inactive)
        BY <1>c, <2>3, <2>4, <3>1 DEF Complete
      <3>2. CASE ~TooEarly(inactive)
        BY <1>c, <2>3, <2>5, <3>2 DEF Complete
      <3> QED  BY <3>1, <3>2
    <2>7. /\ \A o \in Outputs : reading'[o] # "markEos"
          /\ Credit(p)' <= 1
          /\ handling'.next => Credit(p)' = 0
      BY <1>2, <2>1, <2>2, <2>3, <2>4
    <2> QED  BY <2>0, <2>6, <2>7 DEF Kept2
  <1>9. ASSUME callHandlers  PROVE Kept2
    <2>0. ~EosOverwritten'
      <3>1. \A o \in Outputs : ~onTcpChannelRead(o)
        <4>1. handling' # handling
          BY <1>9 DEF callHandlers, NotHandling
        <4> QED  BY <4>1 DEF onTcpChannelRead
      <3> QED  BY <1>o, <3>1
    <2>1. UNCHANGED <<toInput, ready, reading, inactive>> /\ ~handling'.next
      BY <1>9 DEF callHandlers, pots, NotHandling
    <2>2. wire' = Requested(NotifiedAfterSwap)
      BY <1>9 DEF callHandlers
    <2>3. wire'[p] \in Nat /\ wire'[p] <= w + 1
          /\ (p \notin NotifiedAfterSwap => wire'[p] = w)
      BY <1>0, <1>k, <2>2, RequestedFacts
    <2>4. Credit(p)' = wire'[p] + r + n + k
      BY <1>k, <2>1 DEF Credit
    <2>5. Complete(inactive)' <=> Complete(inactive)
      BY <1>c, <2>1 DEF Complete
    <2>6. CASE handling.next
      <3>1. ~Complete(inactive)' /\ w + r + n + k = 0
        BY <1>2, <1>k, <2>5, <2>6
      <3>2. Credit(p)' <= 1
        BY <2>3, <2>4, <3>1
      <3> QED  BY <1>2, <2>0, <2>1, <3>1, <3>2 DEF Kept2
    <2>7. CASE ~handling.next
      <3>1. wire'[p] = w
        BY <2>3, <2>7 DEF NotifiedAfterSwap
      <3>2. Credit(p)' = Credit(p)
        BY <1>k, <2>4, <3>1
      <3> QED  BY <1>2, <2>0, <2>1, <2>5, <3>2 DEF Kept2
    <2> QED  BY <2>6, <2>7
  <1>10. ASSUME NEW o \in Outputs, NEW how, Cut(o, how)  PROVE Kept2
    <2>0. ~EosOverwritten'
      <3>1. UNCHANGED <<eos, active, inactive, handling>>
        BY <1>10 DEF Cut, pots
      <3> QED  BY <1>2, <3>1 DEF EosOverwritten, EosMarks
    <2>1. UNCHANGED <<reading, inactive, handling>>
      BY <1>10 DEF Cut, pots
    <2>2. CASE o = p
      <3>1. wire'[p] = 0 /\ ready'[p] = FALSE /\ toInput'[p] = <<>>
        BY <1>10, <1>t, <2>2 DEF Cut
      <3>2. Len(toInput'[p]) = 0
        BY <3>1
      <3>3. Credit(p)' = 0 + 0 + 0 + k
        BY <1>k, <2>1, <3>1, <3>2 DEF Credit, Mark
      <3>4. Credit(p)' \in Nat /\ Credit(p)' <= Credit(p)
        BY <1>n, <3>3
      <3> QED  BY <1>2, <1>3, <2>0, <2>1, <3>4
    <2>3. CASE o # p
      <3>1. wire'[p] = wire[p] /\ toInput'[p] = toInput[p] /\ ready'[p] = ready[p]
        BY <1>10, <1>t, <2>3 DEF Cut
      <3>2. Credit(p)' = Credit(p)
        BY <2>1, <3>1 DEF Credit
      <3>3. Credit(p)' \in Nat /\ Credit(p)' <= Credit(p)
        BY <1>n, <3>2
      <3> QED  BY <1>2, <1>3, <2>0, <2>1, <3>3
    <2> QED  BY <2>2, <2>3
  <1>11. ASSUME NEW o \in Outputs, onTcpChannelError(o)  PROVE Kept2
    <2>0. ~EosOverwritten'
      <3>1. UNCHANGED <<eos, active, inactive, handling>>
        BY <1>11 DEF onTcpChannelError, pots
      <3> QED  BY <1>2, <3>1 DEF EosOverwritten, EosMarks
    <2>1. UNCHANGED <<wire, ready, toInput, inactive, handling>>
      BY <1>11 DEF onTcpChannelError, output, pots
    <2>2. o = p /\ reading[p] = "idle" /\ eosChannels' = eosChannels \ {p}
      BY <1>1, <1>11 DEF onTcpChannelError
    <2>3. ~(open # {} /\ Cardinality(eosChannels') = Cardinality(open))
      <3>1. eosChannels' = {} /\ (open # {} => open = {p})
        BY <1>0, <1>1, <2>2 DEF TypeOK
      <3>2. Cardinality({}) = 0 /\ Cardinality({p}) = 1
        BY FS_EmptySet, FS_Singleton
      <3>3. CASE open = {}
        BY <3>3
      <3>4. CASE open = {p}
        <4>1. Cardinality(eosChannels') = 0 /\ Cardinality(open) = 1
          BY <3>1, <3>2, <3>4
        <4> QED  BY <4>1
      <3> QED  BY <3>1, <3>3, <3>4
    <2>4. reading' = [reading EXCEPT ![p] = "erase"]
      BY <1>11, <2>2, <2>3 DEF onTcpChannelError
    <2>5. reading'[p] = "erase" /\ \A q \in Outputs : reading'[q] # "markEos"
      BY <1>2, <1>t, <2>4
    <2>6. Credit(p)' = Credit(p)
      <3>1. Mark(reading'[p] \in {"notify", "post"}) = 0 /\ Mark(reading[p] \in {"notify", "post"}) = 0
        BY <2>2, <2>5 DEF Mark
      <3> QED  BY <2>1, <3>1 DEF Credit
    <2>7. Credit(p)' \in Nat /\ Credit(p)' <= Credit(p)
      BY <1>n, <2>6
    <2> QED  BY <1>3, <2>0, <2>1, <2>5, <2>7
  <1>12. ASSUME NEW o \in Outputs, eraseConnection(o)  PROVE Kept2
    <2>0. ~EosOverwritten'
      <3>1. UNCHANGED <<eos, active, inactive, handling>>
        BY <1>12 DEF eraseConnection, pots
      <3> QED  BY <1>2, <3>1 DEF EosOverwritten, EosMarks
    <2>1. UNCHANGED <<wire, ready, toInput, inactive, handling>>
      BY <1>12 DEF eraseConnection, output, pots
    <2>2. reading[o] = "erase" /\ reading' = [reading EXCEPT ![o] = "gone"]
      BY <1>12 DEF eraseConnection
    <2>3. \A q \in Outputs : reading'[q] # "markEos"
      BY <1>2, <1>t, <2>2
    <2>4. reading'[p] \in {"notify", "post"} <=> reading[p] \in {"notify", "post"}
      BY <1>t, <2>2
    <2>5. Credit(p)' = Credit(p)
      BY <2>1, <2>4 DEF Credit, Mark
    <2>6. Credit(p)' \in Nat /\ Credit(p)' <= Credit(p)
      BY <1>n, <2>5
    <2> QED  BY <1>3, <2>0, <2>1, <2>3, <2>6
  <1>13. ASSUME NEW o \in Outputs, markEos(o)  PROVE Kept2
    BY <1>2, <1>13 DEF markEos
  <1> QED  BY <1>4, <1>5, <1>6, <1>7, <1>8, <1>9, <1>10, <1>11, <1>12, <1>13
           DEF Next, Reading, loseConnection, disconnect

-----------------------------------------------------------------------------
(* The invariant holds: whatever a read or error handler, a posted         *)
(* triggerIOEvent(), an output channel or the network does keeps it.       *)
THEOREM Invariance == Spec => []Inv
  <1>1. Inv /\ [Next]_vars => Inv'
    <2> SUFFICES ASSUME Inv, [Next]_vars  PROVE Inv'
      OBVIOUS
    <2>1. CASE Next
      BY <2>1, TypeStep, LinkStep, WireStep, OrderStep, TriggerStep, EosStep, StallStep, SingleStep
         DEF Inv
    <2>2. CASE UNCHANGED vars
      <3>1. UNCHANGED <<outputs, minData, open, eosChannels, active, inactive, posted, handling>>
            /\ UNCHANGED <<reading, link, wire, ready, sent, toInput, items, eos>>
        BY <2>2 DEF vars, config, connections, pots, output
      <3>2. TypeOK'
        BY <3>1 DEF Inv, TypeOK
      <3>8. LinkInv' /\ WireInv'
        BY <3>1 DEF Inv, LinkInv, WireInv
      <3>3. HandledInOrder'
        BY <3>1 DEF Inv, HandledInOrder, Waiting
      <3>4. TriggerInv'
        BY <3>1 DEF Inv, TriggerInv, Triggered, Filled
      <3>5. EosInv'
        BY <3>1 DEF Inv, EosInv, EosMarks, NoneClosed, AllSent
      <3>6. NobodyStalls'
        BY <3>1 DEF Inv, NobodyStalls, Asked, Triggered, Complete, EosOverwritten, EosMarks
      <3>7. SingleInv'
        BY <3>1 DEF Inv, SingleInv, Complete, EosOverwritten, EosMarks, Credit
      <3> QED  BY <3>2, <3>3, <3>4, <3>5, <3>6, <3>7, <3>8 DEF Inv
    <2> QED  BY <2>1, <2>2
  <1> QED  BY <1>1, InitInv, PTL DEF Spec

(* Every variable keeps its type, for any number of output channels and    *)
(* messages; in particular triggerIOEvent() does not pile up in the strand *)
(* and no item is handled before it was read.                              *)
THEOREM TypeCorrect == Spec => []TypeOK
  <1>1. Inv => TypeOK
    BY DEF Inv
  <1> QED  BY <1>1, Invariance, PTL

(* onTcpChannelRead() and triggerIOEvent() neither lose, double nor        *)
(* reorder items between the two pots, however many output channels send.  *)
THEOREM ItemsInOrder == Spec => []HandledInOrder
  <1>1. Inv => HandledInOrder
    BY DEF Inv
  <1> QED  BY <1>1, Invariance, PTL

(* An output channel that is not asked for data waits for a pot that will  *)
(* be handled: the "update" requests of onTcpChannelRead() and             *)
(* triggerIOEvent() forget nobody.                                         *)
THEOREM NobodyForgotten == Spec => []NobodyStalls
  <1>1. Inv => NobodyStalls
    BY DEF Inv
  <1> QED  BY <1>1, Invariance, PTL

(* With a single output channel and "minData" > 0 no end-of-stream mark is *)
(* overwritten in onTcpChannelRead(): the handler is called once per       *)
(* stream, unless the handler of an item in the same pot throws.           *)
THEOREM OneCall == Spec => []OneCallPerStream
  <1>1. Inv => OneCallPerStream
    BY DEF Inv, SingleInv, OneCallPerStream
  <1> QED  BY <1>1, Invariance, PTL

(* The end-of-stream handler is called after every connected output        *)
(* channel has sent its first end-of-stream, if none that has sent it was  *)
(* closed by disconnect().                                                 *)
THEOREM EosAfterLast == Spec => []FirstEosAfterLast
  <1>1. Inv => FirstEosAfterLast
    <2> SUFFICES ASSUME Inv, eos.handled > 0, NoneClosed  PROVE AllSent
      BY DEF FirstEosAfterLast, NoneClosed, AllSent
    <2>1. eos.handled \in Nat /\ eos.skipped \in Nat /\ eos.treated \in Nat /\ EosMarks \in 0..3
      BY CountTypes, LostType DEF Inv
    <2>2. eos.handled + eos.skipped + EosMarks <= eos.treated
      BY DEF Inv, EosInv
    <2>3. eos.treated > 0
      BY <2>1, <2>2
    <2> QED  BY <2>3 DEF Inv, EosInv
  <1> QED  BY <1>1, Invariance, PTL
=============================================================================
