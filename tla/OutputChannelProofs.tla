------------------------ MODULE OutputChannelProofs ------------------------
EXTENDS OutputChannel, TLAPS, FiniteSetTheorems

(* Types as far as the request balance and the writes need them; that the  *)
(* writer has a chunk unless it looks for one.                             *)
Types ==
    /\ setup \in Setup
    /\ mem \in [Chunks -> Chunk]
    /\ chunkId \in 0..MaxChunks
    /\ writer = "idle" => chunkId # 0
    /\ reg \in [Ids -> Entry]
    /\ shareNext \in Seq(Ids) /\ IsInjective(shareNext)
    /\ copyNext \subseteq Ids
    /\ common \in Seq(Chunks)
    /\ unblock \in [Ids -> 0..MaxChunks]
    /\ unblockShared \in 0..MaxChunks
    /\ calling \subseteq Conns
    /\ postponed \in [Ids -> Nat]
    /\ writer \in {"idle", "ensure", "sleep"}
    /\ seq \in Nat
    /\ conn \in [Conns -> [id : Ids, state : {"free", "up", "broken", "closed", "gone"}]]
    /\ inflight \subseteq [tcp : Conns, id : Ids, chunk : Chunks, msg : Nat,
                           awaited : BOOLEAN]
    /\ toClient \in [Conns -> Seq(Nat)]
    /\ wire \in [Conns -> Nat]

(* An input is registered with the connection that says so.                *)
LinkInv ==
    /\ \A id \in Ids :
          /\ reg[id].as = "none" <=> reg[id].tcp = 0
          /\ reg[id].tcp # 0 =>
                /\ conn[reg[id].tcp].id = id
                /\ conn[reg[id].tcp].state \in {"up", "broken"}
                /\ reg[id].as = setup.distribution[id]
    /\ \A c \in Conns :
          /\ conn[c].state \in {"up", "broken"} => reg[conn[c].id].tcp = c
          /\ conn[c].state = "free" =>
                c \notin calling /\ wire[c] = 0 /\ toClient[c] = <<>>

Ready(id) == id \in Range(shareNext) \/ id \in copyNext

(* Who is marked as ready is registered, and nobody has called for an      *)
(* input that never connected.                                             *)
ReadyInv ==
    /\ \A id \in Range(shareNext) : reg[id].as = "shared"
    /\ \A id \in copyNext : reg[id].as = "copy"
    /\ \A id \in Ids :
          (\A c \in Conns : conn[c].state # "free" => conn[c].id # id)
              => postponed[id] = 0

(* A write belongs to its input; on a first connection there is at most    *)
(* one, and while it goes on the input is neither ready nor served.        *)
WriteInv ==
    /\ \A w \in inflight : conn[w.tcp].state # "free" /\ conn[w.tcp].id = w.id
    /\ \A id \in Ids :
          reg[id].as # "none" /\ conn[reg[id].tcp].state = "up" /\ ConnectedOnce(id) =>
              \A w \in inflight : w.id = id =>
                  /\ reg[id].sending
                  /\ ~Ready(id)
                  /\ \A v \in inflight : v.id = id => v = w

Inv == Types /\ LinkInv /\ ReadyInv /\ RequestBalance /\ WriteInv

-----------------------------------------------------------------------------
(* The numbers of a finite set can be counted in their order: each rank up *)
(* to the size of the set is that of exactly one of its elements.          *)
LEMMA Ranks ==
    ASSUME NEW S \in SUBSET Nat, IsFiniteSet(S)
    PROVE  /\ \A i \in S : Cardinality({j \in S : j <= i}) \in 1..Cardinality(S)
           /\ \A n \in 1..Cardinality(S) :
                 \E i \in S : Cardinality({j \in S : j <= i}) = n
           /\ \A i, k \in S : Cardinality({j \in S : j <= i}) =
                              Cardinality({j \in S : j <= k}) => i = k
<1> DEFINE Below(i) == {j \in S : j <= i}
<1> DEFINE rank == [i \in S |-> Cardinality(Below(i))]
<1>1. Cardinality(S) \in Nat
  BY FS_CardinalityType
<1>2. ASSUME NEW i \in S
      PROVE  /\ IsFiniteSet(Below(i)) /\ Cardinality(Below(i)) \in Nat
             /\ Cardinality(Below(i)) \in 1..Cardinality(S)
  <2>1. Below(i) \in SUBSET S /\ i \in Below(i)
    OBVIOUS
  <2>2. IsFiniteSet(Below(i)) /\ Cardinality(Below(i)) <= Cardinality(S)
    BY <2>1, FS_Subset
  <2>3. Cardinality(Below(i)) \in Nat /\ Cardinality(Below(i)) # 0
    BY <2>1, <2>2, FS_CardinalityType, FS_EmptySet
  <2> QED
    BY <1>1, <2>2, <2>3
<1>3. ASSUME NEW i \in S, NEW k \in S, i < k
      PROVE  Cardinality(Below(i)) < Cardinality(Below(k))
  <2>1. Below(i) \in SUBSET Below(k) /\ k \in Below(k) /\ k \notin Below(i)
    <3>1. i \in Nat /\ k \in Nat /\ \A j \in S : j \in Nat
      OBVIOUS
    <3>2. ASSUME NEW j \in Below(i) PROVE j \in Below(k)
      <4>1. j \in S /\ j <= i /\ j \in Nat
        BY <3>1
      <4>2. j <= k
        BY <1>3, <3>1, <4>1
      <4> QED
        BY <4>1, <4>2
    <3>3. k <= k /\ ~(k <= i)
      BY <1>3, <3>1
    <3> QED
      BY <3>2, <3>3
  <2>2. /\ Cardinality(Below(i)) <= Cardinality(Below(k))
        /\ Cardinality(Below(k)) = Cardinality(Below(i)) => Below(k) = Below(i)
    BY <1>2, <2>1, FS_Subset
  <2> QED
    BY <1>2, <2>1, <2>2
<1>4. ASSUME NEW i \in S, NEW k \in S, Cardinality(Below(i)) = Cardinality(Below(k))
      PROVE  i = k
  <2>1. i \in Nat /\ k \in Nat /\ Cardinality(Below(i)) \in Nat
    BY <1>2
  <2>2. ~(i < k) /\ ~(k < i)
    BY <1>3, <1>4, <2>1
  <2> QED
    BY <2>1, <2>2
<1> HIDE DEF Below
<1>5. rank \in Injection(S, 1..Cardinality(S))
  BY <1>2, <1>4 DEF Injection, IsInjective
<1>6. IsFiniteSet(1..Cardinality(S)) /\ Cardinality(1..Cardinality(S)) = Cardinality(S)
  <2>1. /\ IsFiniteSet(1..Cardinality(S))
        /\ Cardinality(1..Cardinality(S)) =
              IF 1 > Cardinality(S) THEN 0 ELSE Cardinality(S) - 1 + 1
    BY <1>1, FS_Interval
  <2> QED
    BY <1>1, <2>1
<1>7. rank \in Surjection(S, 1..Cardinality(S))
  BY <1>5, <1>6, FS_Injection
<1>8. \A n \in 1..Cardinality(S) : \E i \in S : Cardinality(Below(i)) = n
  BY <1>7 DEF Surjection
<1> QED
  BY <1>2, <1>4, <1>8 DEF Below

(* registerChunk() finds a free chunk if there is one.                     *)
LEMMA FirstFreeType ==
    ASSUME NEW m \in [Chunks -> Chunk]
    PROVE  /\ FirstFree(m) \in 0..MaxChunks
           /\ FirstFree(m) # 0 => FirstFree(m) \in Chunks /\ m[FirstFree(m)].use = 0
<1> DEFINE free == {k \in DOMAIN m : m[k].use = 0}
<1>1. MaxChunks \in Nat /\ DOMAIN m = 1..MaxChunks
  BY ChunksAssumption DEF Chunks
<1>2. CASE free = {}
  BY <1>1, <1>2 DEF FirstFree
<1>3. CASE free # {}
  <2>1. free \in SUBSET Nat /\ free \in SUBSET (1..MaxChunks)
    BY <1>1
  <2>9. IsFiniteSet(1..MaxChunks)
    BY <1>1, FS_Interval
  <2> HIDE DEF free
  <2>2. IsFiniteSet(free) /\ Cardinality(free) \in Nat /\ Cardinality(free) # 0
    BY <1>3, <2>9, <2>1, FS_Subset, FS_CardinalityType, FS_EmptySet
  <2>3. PICK k \in free : Cardinality({j \in free : j <= k}) = 1
    BY <2>1, <2>2, Ranks
  <2>4. ASSUME NEW j \in free PROVE k <= j
    <3>1. k \in {i \in free : i <= k}
      BY <2>1
    <3>2. IsFiniteSet({i \in free : i <= k})
      BY <2>2, FS_Subset
    <3>3. {i \in free : i <= k} = {k}
      BY <2>3, <3>1, <3>2, FS_Singleton
    <3> QED
      BY <2>1, <3>3
  <2>5. FirstFree(m) \in free
    BY <1>3, <2>4 DEF FirstFree, free
  <2> QED
    BY <1>1, <2>5 DEF Chunks, free
<1> QED
  BY <1>2, <1>3

(* eraseSharedInput() and the like take out what they are told to, and     *)
(* keep the others, none of them twice.                                    *)
LEMMA ErasedType ==
    ASSUME shareNext \in Seq(Ids), IsInjective(shareNext), NEW S
    PROVE  /\ Erased(S) \in Seq(Ids) /\ IsInjective(Erased(S))
           /\ Range(Erased(S)) = Range(shareNext) \ S
<1> DEFINE R == {i \in 1..Len(shareNext) : shareNext[i] \notin S}
<1> DEFINE At(n) == CHOOSE i \in R : Cardinality({j \in R : j <= i}) = n
<1>1. Len(shareNext) \in Nat /\ DOMAIN shareNext = 1..Len(shareNext)
  OBVIOUS
<1>2. R \in SUBSET Nat /\ R \in SUBSET (1..Len(shareNext))
  BY <1>1
<1>3. \A i \in R : i \in 1..Len(shareNext) /\ shareNext[i] \in Ids \ S
  BY <1>1
<1>4. Erased(S) = [n \in 1..Cardinality(R) |-> shareNext[At(n)]]
  BY DEF Erased
<1>5. \A x \in Range(shareNext) \ S : \E i \in R : x = shareNext[i]
  BY <1>1 DEF Range
<1> HIDE DEF R
<1>6. IsFiniteSet(R) /\ Cardinality(R) \in Nat
  <2>1. IsFiniteSet(1..Len(shareNext))
    BY <1>1, FS_Interval
  <2> QED
    BY <1>2, <2>1, FS_Subset, FS_CardinalityType
<1>7. \A n \in 1..Cardinality(R) :
        At(n) \in R /\ Cardinality({j \in R : j <= At(n)}) = n
  <2>1. ASSUME NEW n \in 1..Cardinality(R)
        PROVE  At(n) \in R /\ Cardinality({j \in R : j <= At(n)}) = n
    <3>1. \E i \in R : Cardinality({j \in R : j <= i}) = n
      BY <1>2, <1>6, Ranks
    <3> QED
      BY <3>1
  <2> QED
    BY <2>1
<1>8. \A i \in R : \E n \in 1..Cardinality(R) : At(n) = i
  <2>1. ASSUME NEW i \in R PROVE \E n \in 1..Cardinality(R) : At(n) = i
    <3>1. PICK n \in 1..Cardinality(R) : Cardinality({j \in R : j <= i}) = n
      BY <1>2, <1>6, Ranks
    <3>2. At(n) \in R /\ Cardinality({j \in R : j <= At(n)}) = n
      BY <1>7
    <3>3. At(n) = i
      BY <1>2, <1>6, <3>1, <3>2, Ranks
    <3> QED
      BY <3>3
  <2> QED
    BY <2>1
<1> HIDE DEF At
<1>9. Erased(S) \in Seq(Ids)
  <2>1. \A n \in 1..Cardinality(R) : shareNext[At(n)] \in Ids
    BY <1>7, <1>3
  <2> QED
    BY <1>6, <1>4, <2>1
<1>10. IsInjective(Erased(S))
  <2>1. ASSUME NEW a \in 1..Cardinality(R), NEW b \in 1..Cardinality(R),
               shareNext[At(a)] = shareNext[At(b)]
        PROVE  a = b
    <3>1. At(a) = At(b)
      BY <2>1, <1>1, <1>7, <1>3 DEF IsInjective
    <3> QED
      BY <3>1, <1>7
  <2> QED
    BY <1>4, <2>1 DEF IsInjective
<1>11. Range(Erased(S)) = Range(shareNext) \ S
  <2>1. ASSUME NEW x \in Range(Erased(S)) PROVE x \in Range(shareNext) \ S
    <3>1. PICK n \in 1..Cardinality(R) : x = shareNext[At(n)]
      BY <1>4 DEF Range
    <3> QED
      BY <1>1, <1>7, <1>3, <3>1 DEF Range
  <2>2. ASSUME NEW x \in Range(shareNext) \ S PROVE x \in Range(Erased(S))
    <3>1. PICK i \in R : x = shareNext[i]
      BY <1>5
    <3>2. PICK n \in 1..Cardinality(R) : At(n) = i
      BY <1>8
    <3> QED
      BY <1>4, <3>1, <3>2 DEF Range
  <2> QED
    BY <2>1, <2>2
<1> QED
  BY <1>9, <1>10, <1>11

(* Occurrences() counts.                                                   *)
LEMMA OccurrencesType ==
    ASSUME NEW q \in Seq(Chunks), NEW k
    PROVE  Occurrences(q, k) \in Nat
<1>1. IsFiniteSet(1..Len(q))
  BY FS_Interval
<1>2. IsFiniteSet({i \in 1..Len(q) : q[i] = k})
  BY <1>1, FS_Subset
<1> QED
  BY <1>2, FS_CardinalityType DEF Occurrences

(* The operations of Memory keep its chunks chunks.                        *)
LEMMA MemoryTypes ==
    ASSUME NEW m \in [Chunks -> Chunk]
    PROVE  /\ \A k \in Chunks : m[k] \in Chunk /\ m[k].msg \in Nat /\ m[k].eos \in BOOLEAN
                                /\ m[k].use \in Nat
           /\ \A k \in 0..MaxChunks : registerChunk(m, k) \in [Chunks -> Chunk]
           /\ \A k \in Chunks, n \in Nat :
                 /\ incrementChunkUsage(m, k, n) \in [Chunks -> Chunk]
                 /\ decrementChunkUsage(m, k, n) \in [Chunks -> Chunk]
           /\ \A k \in Chunks, msg \in Nat, eos \in BOOLEAN :
                 writeChunk(m, k, msg, eos) \in [Chunks -> Chunk]
           /\ \A q \in Seq(Chunks) : releaseChunks(m, q) \in [Chunks -> Chunk]
<1>1. FreeChunk \in Chunk /\ [FreeChunk EXCEPT !.use = 1] \in Chunk
  BY DEF FreeChunk, Chunk
<1>2. \A k \in Chunks : m[k] \in Chunk /\ m[k].msg \in Nat /\ m[k].eos \in BOOLEAN
                        /\ m[k].use \in Nat
  BY DEF Chunk
<1>3. \A k \in 0..MaxChunks : registerChunk(m, k) \in [Chunks -> Chunk]
  BY <1>1, ChunksAssumption DEF registerChunk, Chunks
<1>4. ASSUME NEW k \in Chunks, NEW n \in Nat
      PROVE  incrementChunkUsage(m, k, n) \in [Chunks -> Chunk]
  <2>1. [m[k] EXCEPT !.use = @ + n] \in Chunk
    BY <1>2 DEF Chunk
  <2> QED
    BY <2>1 DEF incrementChunkUsage
<1>5. ASSUME NEW k \in Chunks, NEW n \in Nat
      PROVE  /\ decrementChunkUsage(m, k, n) \in [Chunks -> Chunk]
             /\ decrementChunkUsage(m, k, n)[k] \in Chunk
  <2>1. CASE m[k].use <= n
    BY <1>1, <2>1 DEF decrementChunkUsage
  <2>2. CASE ~(m[k].use <= n)
    <3>1. m[k].use - n \in Nat
      BY <1>2, <2>2
    <3>2. [m[k] EXCEPT !.use = m[k].use - n] \in Chunk
      BY <1>2, <3>1 DEF Chunk
    <3>3. decrementChunkUsage(m, k, n) = [m EXCEPT ![k] = [m[k] EXCEPT !.use = m[k].use - n]]
      BY <2>2 DEF decrementChunkUsage
    <3> QED
      BY <3>2, <3>3
  <2> QED
    BY <2>1, <2>2
<1>6. ASSUME NEW k \in Chunks, NEW msg \in Nat, NEW eos \in BOOLEAN
      PROVE  writeChunk(m, k, msg, eos) \in [Chunks -> Chunk]
  <2>1. [[m[k] EXCEPT !.msg = msg] EXCEPT !.eos = eos] \in Chunk
    BY <1>2 DEF Chunk
  <2> QED
    BY <2>1 DEF writeChunk
<1>7. ASSUME NEW q \in Seq(Chunks)
      PROVE  releaseChunks(m, q) \in [Chunks -> Chunk]
  <2>1. \A k \in Chunks : decrementChunkUsage(m, k, Occurrences(q, k))[k] \in Chunk
    BY <1>5, OccurrencesType
  <2> QED
    BY <1>2, <2>1 DEF releaseChunks
<1> QED
  BY <1>2, <1>3, <1>4, <1>5, <1>6, <1>7

(* What asyncPrepareDistribute() decides: it sends to ready shared inputs, *)
(* and takes exactly those out of m_shareNext.                             *)
LEMMA ShareFacts ==
    ASSUME Types, ReadyInv, NEW next, NEW eos, NEW share \in asyncPrepareDistribute(next, eos)
    PROVE  /\ share.send \subseteq SharedInputs \cap Range(shareNext)
           /\ share.queue \subseteq SharedInputs /\ share.block \subseteq SharedInputs
           /\ share.common \in BOOLEAN /\ share.wait \in BOOLEAN
           /\ share.next \in Seq(Ids) /\ IsInjective(share.next)
           /\ Range(share.next) = Range(shareNext) \ share.send
<1>1. shareNext \in Seq(Ids) /\ IsInjective(shareNext)
  BY DEF Types
<1>2. \A S : /\ Erased(S) \in Seq(Ids) /\ IsInjective(Erased(S))
             /\ Range(Erased(S)) = Range(shareNext) \ S
  BY <1>1, ErasedType
<1>3. Range(shareNext) \subseteq SharedInputs
  BY <1>1 DEF ReadyInv, SharedInputs, Registered, Range
<1>4. CASE share = NoShare
  BY <1>1, <1>4 DEF NoShare
<1>5. CASE eos /\ SharedInputs # {} /\ share # NoShare
  <2>1. share = asyncPrepareDistributeEos
    BY <1>5 DEF asyncPrepareDistribute
  <2>2. CASE common # <<>>
    BY <1>1, <2>1, <2>2 DEF asyncPrepareDistributeEos, NoShare
  <2>3. CASE common = <<>>
    <3> DEFINE slow == SharedInputs \ Range(shareNext)
    <3> DEFINE wait == setup.noInputShared = "wait"
    <3>1. share = [NoShare EXCEPT
                     !.send = SharedInputs \cap Range(shareNext),
                     !.block = IF wait THEN slow ELSE {},
                     !.queue = IF wait THEN {} ELSE slow,
                     !.next = Erased(SharedInputs)]
      BY <2>1, <2>3 DEF asyncPrepareDistributeEos
    <3>2. /\ share.send = SharedInputs \cap Range(shareNext)
          /\ share.queue \in {{}, slow} /\ share.block \in {{}, slow}
          /\ share.common = FALSE /\ share.wait = FALSE
          /\ share.next = Erased(SharedInputs)
      BY <3>1 DEF NoShare
    <3>3. Range(shareNext) \ SharedInputs = Range(shareNext) \ share.send
      BY <1>3, <3>2
    <3>4. share.queue \subseteq SharedInputs /\ share.block \subseteq SharedInputs
      BY <3>2
    <3>5. share.next \in Seq(Ids) /\ IsInjective(share.next)
          /\ Range(share.next) = Range(shareNext) \ SharedInputs
      BY <1>2, <3>2
    <3> QED
      BY <3>2, <3>3, <3>4, <3>5
  <2> QED
    BY <2>2, <2>3
<1>6. CASE share \in asyncPrepareDistributeSelected(next)
  <2>1. SUFFICES ASSUME NEW id \in SharedInputs,
                        share = IF id \in Range(shareNext)
                                THEN [NoShare EXCEPT !.send = {id}, !.next = WithoutReady(id)]
                                ELSE [NoShare EXCEPT
                                        !.queue = IF setup.noInputShared = "queueDrop" /\ next # 0
                                                    THEN {id} ELSE {},
                                        !.block = IF setup.noInputShared = "wait" THEN {id} ELSE {}]
                 PROVE  /\ share.send \subseteq SharedInputs \cap Range(shareNext)
                        /\ share.queue \subseteq SharedInputs /\ share.block \subseteq SharedInputs
                        /\ share.common \in BOOLEAN /\ share.wait \in BOOLEAN
                        /\ share.next \in Seq(Ids) /\ IsInjective(share.next)
                        /\ Range(share.next) = Range(shareNext) \ share.send
    BY <1>4, <1>6 DEF asyncPrepareDistributeSelected
  <2> QED
    BY <2>1, <1>1, <1>2 DEF NoShare, WithoutReady
<1>7. CASE share = asyncPrepareDistributeLoadBal(next)
  <2>1. CASE shareNext # <<>>
    <3>1. /\ Head(shareNext) = shareNext[1] /\ Len(shareNext) \in Nat \ {0}
          /\ Tail(shareNext) \in Seq(Ids) /\ Len(Tail(shareNext)) = Len(shareNext) - 1
          /\ \A i \in 1..(Len(shareNext) - 1) : Tail(shareNext)[i] = shareNext[i + 1]
          /\ DOMAIN shareNext = 1..Len(shareNext)
          /\ DOMAIN Tail(shareNext) = 1..(Len(shareNext) - 1)
      BY <1>1, <2>1
    <3>2. IsInjective(Tail(shareNext))
      BY <1>1, <3>1 DEF IsInjective
    <3>3. Range(Tail(shareNext)) = Range(shareNext) \ {Head(shareNext)}
      <4>1. ASSUME NEW x \in Range(Tail(shareNext))
            PROVE  x \in Range(shareNext) \ {Head(shareNext)}
        <5>1. PICK i \in 1..(Len(shareNext) - 1) : x = shareNext[i + 1]
          BY <3>1 DEF Range
        <5> QED
          BY <1>1, <3>1, <5>1 DEF Range, IsInjective
      <4>2. ASSUME NEW x \in Range(shareNext) \ {Head(shareNext)}
            PROVE  x \in Range(Tail(shareNext))
        <5>1. PICK i \in 2..Len(shareNext) : x = shareNext[i]
          BY <3>1 DEF Range
        <5>2. i - 1 \in 1..(Len(shareNext) - 1) /\ Tail(shareNext)[i - 1] = x
          BY <3>1, <5>1
        <5> QED
          BY <3>1, <5>2 DEF Range
      <4> QED
        BY <4>1, <4>2
    <3>4. Head(shareNext) \in Range(shareNext)
      BY <3>1 DEF Range
    <3>5. share = [NoShare EXCEPT !.send = {Head(shareNext)} \cap SharedInputs,
                                  !.next = Tail(shareNext)]
      BY <1>7, <2>1 DEF asyncPrepareDistributeLoadBal
    <3> QED
      BY <1>3, <3>1, <3>2, <3>3, <3>4, <3>5 DEF NoShare
  <2>2. CASE shareNext = <<>>
    BY <1>1, <1>7, <2>2 DEF asyncPrepareDistributeLoadBal, NoShare
  <2> QED
    BY <2>1, <2>2
<1> QED
  BY <1>4, <1>5, <1>6, <1>7 DEF asyncPrepareDistribute


(* A queue entry leaves the rest of the bookkeeping alone.                 *)
LEMMA QueuedFacts ==
    ASSUME NEW r \in [Ids -> Entry], NEW S, NEW k \in Chunks
    PROVE  /\ Queued(r, S, k) \in [Ids -> Entry]
           /\ \A id \in Ids : /\ Queued(r, S, k)[id].as = r[id].as
                              /\ Queued(r, S, k)[id].tcp = r[id].tcp
                              /\ Queued(r, S, k)[id].sending = r[id].sending
<1>1. \A id \in Ids :
        /\ r[id] \in Entry /\ r[id].queue \in Seq(Chunks)
        /\ Append(r[id].queue, k) \in Seq(Chunks)
  BY DEF Entry
<1>2. ASSUME NEW id \in Ids
      PROVE  [r[id] EXCEPT !.queue = Append(@, k)] \in Entry
  BY <1>1 DEF Entry
<1>3. ASSUME NEW id \in Ids
      PROVE  /\ Queued(r, S, k)[id] \in Entry
             /\ Queued(r, S, k)[id].as = r[id].as
             /\ Queued(r, S, k)[id].tcp = r[id].tcp
             /\ Queued(r, S, k)[id].sending = r[id].sending
  <2>1. CASE id \in S
    BY <1>1, <1>2, <2>1 DEF Queued, Entry
  <2>2. CASE id \notin S
    BY <1>1, <2>2 DEF Queued
  <2> QED
    BY <2>1, <2>2
<1>4. Queued(r, S, k) \in [Ids -> Entry]
  BY <1>3 DEF Queued
<1> QED
  BY <1>3, <1>4

(* A started write only sets "sendOngoing".                                *)
LEMMA SendingFacts ==
    ASSUME NEW r \in [Ids -> Entry], NEW S
    PROVE  /\ Sending(r, S) \in [Ids -> Entry]
           /\ \A id \in Ids :
                 /\ Sending(r, S)[id].as = r[id].as
                 /\ Sending(r, S)[id].tcp = r[id].tcp
                 /\ Sending(r, S)[id].queue = r[id].queue
                 /\ id \in Launched(S) => Sending(r, S)[id].sending = TRUE
                 /\ id \notin Launched(S) => Sending(r, S)[id].sending = r[id].sending
<1>1. \A id \in Ids : r[id] \in Entry
  OBVIOUS
<1>2. ASSUME NEW id \in Ids
      PROVE  [r[id] EXCEPT !.sending = TRUE] \in Entry
  BY <1>1 DEF Entry
<1>3. ASSUME NEW id \in Ids
      PROVE  /\ Sending(r, S)[id] \in Entry
             /\ Sending(r, S)[id].as = r[id].as
             /\ Sending(r, S)[id].tcp = r[id].tcp
             /\ Sending(r, S)[id].queue = r[id].queue
             /\ id \in Launched(S) => Sending(r, S)[id].sending = TRUE
             /\ id \notin Launched(S) => Sending(r, S)[id].sending = r[id].sending
  <2>1. CASE id \in Launched(S)
    BY <1>1, <1>2, <2>1 DEF Sending, Entry
  <2>2. CASE id \notin Launched(S)
    BY <1>1, <2>2 DEF Sending
  <2> QED
    BY <2>1, <2>2
<1>4. Sending(r, S) \in [Ids -> Entry]
  BY <1>3 DEF Sending
<1> QED
  BY <1>3, <1>4

(* asyncSendOne() keeps the types of what it writes to.                    *)
LEMMA SendTypes ==
    ASSUME Types, NEW S \in SUBSET Ids, NEW k \in Chunks, NEW msg \in Nat,
           NEW awaited \in BOOLEAN, asyncSendOne(S, k, msg, awaited)
    PROVE  /\ inflight' \subseteq [tcp : Conns, id : Ids, chunk : Chunks, msg : Nat,
                                   awaited : BOOLEAN]
           /\ toClient' \in [Conns -> Seq(Nat)]
<1>1. reg \in [Ids -> Entry] /\ toClient \in [Conns -> Seq(Nat)]
      /\ inflight \subseteq [tcp : Conns, id : Ids, chunk : Chunks, msg : Nat,
                             awaited : BOOLEAN]
  BY DEF Types
<1>2. \A id \in Launched(S) : id \in Ids /\ reg[id].tcp \in Conns
  BY <1>1, BoundsAssumption DEF Launched, IsOpen, Entry, Conns
<1>3. \A id \in Launched(S) :
        [tcp |-> reg[id].tcp, id |-> id, chunk |-> k, msg |-> msg, awaited |-> awaited]
            \in [tcp : Conns, id : Ids, chunk : Chunks, msg : Nat, awaited : BOOLEAN]
  BY <1>2
<1>4. \A c \in Conns : toClient[c] \in Seq(Nat) /\ Append(toClient[c], msg) \in Seq(Nat)
  BY <1>1
<1> QED
  BY <1>1, <1>3, <1>4 DEF asyncSendOne

(* What sending to the inputs S does to the connections and to the         *)
(* bookkeeping: each of them gets one more message if its connection is    *)
(* up, and one more write is going on for it.                              *)
SentTo(S) ==
    /\ UNCHANGED <<setup, conn, wire>>
    /\ \A id \in Ids :
          /\ reg'[id].as = reg[id].as /\ reg'[id].tcp = reg[id].tcp
          /\ id \in S => reg'[id].sending = TRUE
          /\ id \notin S => reg'[id].sending = reg[id].sending
          /\ id \in S /\ conn[reg[id].tcp].state = "up"
                => Len(toClient'[reg[id].tcp]) = Len(toClient[reg[id].tcp]) + 1
          /\ id \notin S /\ reg[id].tcp # 0
                => toClient'[reg[id].tcp] = toClient[reg[id].tcp]
    /\ \A c \in Conns : conn[c].state = "free" => toClient'[c] = toClient[c]
    /\ \A w \in inflight' : w \in inflight \/ (w.id \in S /\ w.tcp = reg[w.id].tcp)
    /\ \A v, w \in inflight' : v \in inflight \/ w \in inflight \/ v.id # w.id \/ v = w

(* asyncSendOne() and the "sendOngoing" flag do that.                      *)
LEMMA SendFacts ==
    ASSUME Types, LinkInv, NEW S \in SUBSET Ids, \A id \in S : reg[id].as # "none",
           NEW r \in [Ids -> Entry],
           \A id \in Ids : /\ r[id].as = reg[id].as /\ r[id].tcp = reg[id].tcp
                           /\ r[id].sending = reg[id].sending,
           NEW k, NEW msg \in Nat, NEW awaited, asyncSendOne(S, k, msg, awaited),
           reg' = Sending(r, S), UNCHANGED <<setup, conn, wire>>
    PROVE  SentTo(S)
<1>1. reg \in [Ids -> Entry] /\ toClient \in [Conns -> Seq(Nat)]
      /\ conn \in [Conns -> [id : Ids, state : {"free", "up", "broken", "closed", "gone"}]]
  BY DEF Types
<1>2. \A id \in Ids : reg[id].tcp # 0 => reg[id].tcp \in Conns
  BY <1>1, BoundsAssumption DEF Entry, Conns
<1>3. \A id \in S : reg[id].tcp # 0 /\ IsOpen(id)
  BY DEF LinkInv, IsOpen
<1>4. Launched(S) = S
  BY <1>3 DEF Launched
<1>5. \A i, j \in Ids : reg[i].tcp = reg[j].tcp /\ reg[i].tcp # 0 => i = j
  BY DEF LinkInv
<1>6. \A id \in Ids :
        /\ reg'[id].as = reg[id].as /\ reg'[id].tcp = reg[id].tcp
        /\ id \in S => reg'[id].sending = TRUE
        /\ id \notin S => reg'[id].sending = reg[id].sending
  <2>1. ASSUME NEW id \in Ids
        PROVE  /\ Sending(r, S)[id].as = r[id].as
               /\ Sending(r, S)[id].tcp = r[id].tcp
               /\ id \in Launched(S) => Sending(r, S)[id].sending = TRUE
               /\ id \notin Launched(S) => Sending(r, S)[id].sending = r[id].sending
    BY SendingFacts
  <2> QED
    BY <1>4, <2>1
<1>7. ASSUME NEW id \in Ids
      PROVE  /\ id \in S /\ conn[reg[id].tcp].state = "up"
                   => Len(toClient'[reg[id].tcp]) = Len(toClient[reg[id].tcp]) + 1
             /\ id \notin S /\ reg[id].tcp # 0
                   => toClient'[reg[id].tcp] = toClient[reg[id].tcp]
  <2>1. CASE id \in S /\ conn[reg[id].tcp].state = "up"
    <3>1. reg[id].tcp \in Conns
      BY <1>2, <1>3, <2>1
    <3>2. toClient'[reg[id].tcp] = Append(toClient[reg[id].tcp], msg)
      BY <2>1, <3>1 DEF asyncSendOne
    <3>3. toClient[reg[id].tcp] \in Seq(Nat)
      BY <1>1, <3>1
    <3> QED
      BY <2>1, <3>2, <3>3
  <2>2. CASE id \notin S /\ reg[id].tcp # 0
    <3>1. ~(\E i \in S : reg[i].tcp = reg[id].tcp)
      BY <1>5, <2>2
    <3>2. reg[id].tcp \in Conns
      BY <1>2, <2>2
    <3> QED
      BY <2>2, <3>1, <3>2 DEF asyncSendOne
  <2> QED
    BY <2>1, <2>2
<1>8. \A c \in Conns : conn[c].state = "free" => toClient'[c] = toClient[c]
  BY DEF asyncSendOne
<1>9. \A w \in inflight' \ inflight :
        \E id \in S : w = [tcp |-> reg[id].tcp, id |-> id, chunk |-> k, msg |-> msg,
                           awaited |-> awaited]
  BY <1>4 DEF asyncSendOne
<1>10. ASSUME NEW w \in inflight' \ inflight
       PROVE  w.id \in S /\ w.tcp = reg[w.id].tcp
  <2>1. PICK i \in S : w = [tcp |-> reg[i].tcp, id |-> i, chunk |-> k, msg |-> msg,
                            awaited |-> awaited]
    BY <1>9
  <2>2. w.id = i /\ w.tcp = reg[i].tcp
    BY <2>1
  <2> QED
    BY <2>2
<1>11. ASSUME NEW v \in inflight' \ inflight, NEW w \in inflight' \ inflight, v.id = w.id
       PROVE  v = w
  <2>1. PICK i \in S : v = [tcp |-> reg[i].tcp, id |-> i, chunk |-> k, msg |-> msg,
                            awaited |-> awaited]
    BY <1>9
  <2>2. PICK j \in S : w = [tcp |-> reg[j].tcp, id |-> j, chunk |-> k, msg |-> msg,
                            awaited |-> awaited]
    BY <1>9
  <2>3. i = j
    BY <1>11, <2>1, <2>2
  <2> QED
    BY <2>1, <2>2, <2>3
<1>12. \A w \in inflight' : w \in inflight \/ (w.id \in S /\ w.tcp = reg[w.id].tcp)
  BY <1>10
<1>13. \A v, w \in inflight' : v \in inflight \/ w \in inflight \/ v.id # w.id \/ v = w
  BY <1>11
<1>14. \A id \in Ids :
         /\ reg'[id].as = reg[id].as /\ reg'[id].tcp = reg[id].tcp
         /\ id \in S => reg'[id].sending = TRUE
         /\ id \notin S => reg'[id].sending = reg[id].sending
         /\ id \in S /\ conn[reg[id].tcp].state = "up"
               => Len(toClient'[reg[id].tcp]) = Len(toClient[reg[id].tcp]) + 1
         /\ id \notin S /\ reg[id].tcp # 0
               => toClient'[reg[id].tcp] = toClient[reg[id].tcp]
  BY <1>6, <1>7
<1> QED
  BY <1>8, <1>12, <1>13, <1>14 DEF SentTo


(* A call is taken from a handler or from the event loop.                  *)
LEMMA CallTypes ==
    ASSUME Types, NEW id \in Ids, CallOf(id)
    PROVE  calling' \subseteq Conns /\ postponed' \in [Ids -> Nat]
<1>1. calling \subseteq Conns /\ postponed \in [Ids -> Nat]
  BY DEF Types
<1>2. CASE \E c \in calling : /\ conn[c].id = id
                              /\ calling' = calling \ {c}
                              /\ UNCHANGED postponed
  BY <1>1, <1>2
<1>3. CASE /\ postponed[id] > 0
           /\ postponed' = [postponed EXCEPT ![id] = @ - 1]
           /\ UNCHANGED calling
  <2>1. postponed[id] \in Nat /\ postponed[id] - 1 \in Nat
    BY <1>1, <1>3
  <2> QED
    BY <1>1, <1>3, <2>1
<1> QED
  BY <1>2, <1>3 DEF CallOf

(* An update keeps the types.                                              *)
LEMMA UpdateTypes ==
    ASSUME Types, ReadyInv, NEW eos \in BOOLEAN, NEW final \in BOOLEAN,
           chunkId # 0, asyncUpdateNoWait(eos, final)
    PROVE  Types'
<1> DEFINE next == FirstFree(mem)
<1>0. /\ mem \in [Chunks -> Chunk] /\ reg \in [Ids -> Entry] /\ seq \in Nat
      /\ copyNext \subseteq Ids /\ common \in Seq(Chunks)
      /\ unblock \in [Ids -> 0..MaxChunks] /\ unblockShared \in 0..MaxChunks
  BY DEF Types
<1>1. chunkId \in Chunks /\ Chunks \subseteq 0..MaxChunks
  BY ChunksAssumption DEF Types, Chunks
<1>2. next \in 0..MaxChunks
  BY <1>0, FirstFreeType
<1>3. PICK share \in asyncPrepareDistribute(next, eos) :
        LET send == (CopyInputs \cap copyNext) \cup share.send
            queue == CopyQueue(next, eos) \cup share.queue
            block == CopyBlock \cup share.block
            users == Cardinality(Launched(send)) + Cardinality(queue)
                       + Cardinality(block)
                       + Cardinality({use \in {"common", "wait"} : share[use]})
            written == registerChunk(writeChunk(mem, chunkId, seq + 1, eos), next)
        IN  /\ asyncSendOne(send, chunkId, seq + 1, final)
            /\ reg' = Sending(Queued(reg, queue, chunkId), send)
            /\ mem' = decrementChunkUsage(incrementChunkUsage(written, chunkId, users),
                                          chunkId, 1)
            /\ common' = IF share.common THEN Append(common, chunkId) ELSE common
            /\ unblock' = [id \in Ids |-> IF id \in block THEN chunkId ELSE unblock[id]]
            /\ unblockShared' = IF share.wait THEN chunkId ELSE unblockShared
            /\ shareNext' = share.next
            /\ copyNext' = copyNext \ CopyInputs
  BY DEF asyncUpdateNoWait
<1> DEFINE send == (CopyInputs \cap copyNext) \cup share.send
<1> DEFINE queue == CopyQueue(next, eos) \cup share.queue
<1> DEFINE block == CopyBlock \cup share.block
<1> DEFINE users == Cardinality(Launched(send)) + Cardinality(queue) + Cardinality(block)
                       + Cardinality({use \in {"common", "wait"} : share[use]})
<1> DEFINE written == registerChunk(writeChunk(mem, chunkId, seq + 1, eos), next)
<1>4. /\ share.send \subseteq SharedInputs
      /\ share.queue \subseteq SharedInputs /\ share.block \subseteq SharedInputs
      /\ share.common \in BOOLEAN /\ share.wait \in BOOLEAN
      /\ share.next \in Seq(Ids) /\ IsInjective(share.next)
  BY ShareFacts
<1>5. send \subseteq Ids /\ queue \subseteq Ids /\ block \subseteq Ids
  BY <1>4 DEF SharedInputs, CopyInputs, Registered, CopyQueue, CopyBlock
<1>6. Launched(send) \subseteq Ids
  BY <1>5 DEF Launched
<1>7. users \in Nat
  <2>1. /\ IsFiniteSet(Launched(send)) /\ IsFiniteSet(queue) /\ IsFiniteSet(block)
    BY <1>5, <1>6, IdsAssumption, FS_Subset
  <2>2. IsFiniteSet({use \in {"common", "wait"} : share[use]})
    <3>1. IsFiniteSet({"common"} \cup {"wait"})
      BY FS_Singleton, FS_AddElement
    <3>2. {use \in {"common", "wait"} : share[use]} \subseteq {"common"} \cup {"wait"}
      OBVIOUS
    <3> QED
      BY <3>1, <3>2, FS_Subset
  <2> HIDE DEF send, queue, block
  <2>3. /\ Cardinality(Launched(send)) \in Nat /\ Cardinality(queue) \in Nat
        /\ Cardinality(block) \in Nat
        /\ Cardinality({use \in {"common", "wait"} : share[use]}) \in Nat
    BY <2>1, <2>2, FS_CardinalityType
  <2> QED
    BY <2>3
<1> HIDE DEF users, next
<1>8. mem' \in [Chunks -> Chunk]
  <2>1. seq + 1 \in Nat
    BY <1>0
  <2>2. writeChunk(mem, chunkId, seq + 1, eos) \in [Chunks -> Chunk]
    BY <1>0, <1>1, <2>1, MemoryTypes
  <2>3. written \in [Chunks -> Chunk]
    BY <1>2, <2>2, MemoryTypes
  <2> HIDE DEF written
  <2>4. incrementChunkUsage(written, chunkId, users) \in [Chunks -> Chunk]
    BY <1>1, <1>7, <2>3, MemoryTypes
  <2>5. decrementChunkUsage(incrementChunkUsage(written, chunkId, users), chunkId, 1)
          \in [Chunks -> Chunk]
    BY <1>1, <2>4, MemoryTypes
  <2>6. mem' = decrementChunkUsage(incrementChunkUsage(written, chunkId, users), chunkId, 1)
    BY <1>3 DEF written, users
  <2> QED
    BY <2>5, <2>6
<1> HIDE DEF written
<1>9. reg' \in [Ids -> Entry]
  <2>1. Queued(reg, queue, chunkId) \in [Ids -> Entry]
    BY <1>0, <1>1, QueuedFacts
  <2>2. Sending(Queued(reg, queue, chunkId), send) \in [Ids -> Entry]
    BY <2>1, SendingFacts
  <2> QED
    BY <1>3, <2>2
<1>10. /\ inflight' \subseteq [tcp : Conns, id : Ids, chunk : Chunks, msg : Nat,
                               awaited : BOOLEAN]
       /\ toClient' \in [Conns -> Seq(Nat)]
  <2>1. asyncSendOne(send, chunkId, seq + 1, final)
    BY <1>3
  <2> HIDE DEF send
  <2>2. seq + 1 \in Nat /\ send \in SUBSET Ids
    BY <1>0, <1>5
  <2> QED
    BY <1>1, <2>1, <2>2, SendTypes
<1>11. /\ common' \in Seq(Chunks) /\ unblock' \in [Ids -> 0..MaxChunks]
       /\ unblockShared' \in 0..MaxChunks
  <2>1. common' = common \/ common' = Append(common, chunkId)
    BY <1>3
  <2>2. unblock' = [id \in Ids |-> IF id \in block THEN chunkId ELSE unblock[id]]
    BY <1>3
  <2>3. unblockShared' = unblockShared \/ unblockShared' = chunkId
    BY <1>3
  <2> HIDE DEF block
  <2>4. common' \in Seq(Chunks)
    <3>1. common \in Seq(Chunks) /\ chunkId \in Chunks
      BY <1>0, <1>1
    <3>2. Append(common, chunkId) \in Seq(Chunks)
      BY <3>1
    <3> QED
      BY <2>1, <3>1, <3>2
  <2>5. \A id \in Ids : unblock[id] \in 0..MaxChunks
    BY <1>0
  <2>6. unblock' \in [Ids -> 0..MaxChunks]
    BY <1>1, <2>2, <2>5
  <2> QED
    BY <1>0, <1>1, <2>3, <2>4, <2>6
<1>12. /\ shareNext' \in Seq(Ids) /\ IsInjective(shareNext') /\ copyNext' \subseteq Ids
  BY <1>0, <1>3, <1>4
<1>13. /\ chunkId' = next /\ writer' \in {"idle", "ensure"}
       /\ writer' = "idle" => next # 0
       /\ seq' \in Nat
       /\ UNCHANGED <<setup, calling, postponed, conn, wire>>
  BY <1>0 DEF asyncUpdateNoWait, next, calls, network
<1> QED
  BY <1>2, <1>8, <1>9, <1>10, <1>11, <1>12, <1>13 DEF Types


(* A finite set of chunks can be listed.                                   *)
LEMMA ListType ==
    ASSUME NEW S \in SUBSET Chunks
    PROVE  SetToSeq(S) \in Seq(Chunks)
<1>1. IsFiniteSet(S)
  <2>1. IsFiniteSet(Chunks)
    BY ChunksAssumption, FS_Interval DEF Chunks
  <2> QED
    BY <2>1, FS_Subset
<1>2. Cardinality(S) \in Nat /\ ExistsBijection(1..Cardinality(S), S)
  BY <1>1, FS_CardinalityType
<1>3. \E f \in [1..Cardinality(S) -> S] : IsInjective(f)
  BY <1>2 DEF ExistsBijection, Bijection, Injection
<1>4. SetToSeq(S) \in [1..Cardinality(S) -> S]
  BY <1>3 DEF SetToSeq
<1> QED
  BY <1>2, <1>4

(* A write that one input asked for keeps the types.                       *)
LEMMA SendOneTypes ==
    ASSUME Types, NEW id \in Ids, NEW k \in Chunks, NEW awaited \in BOOLEAN,
           CallOf(id), SendTo(id, k, awaited),
           NEW m \in [Chunks -> Chunk], mem' = HandedOver(m, k, id),
           NEW r \in [Ids -> Entry], reg' = Sending(r, {id}),
           common' \in Seq(Chunks), unblock' \in [Ids -> 0..MaxChunks],
           unblockShared' \in 0..MaxChunks
    PROVE  Types'
<1>1. mem[k].msg \in Nat
  BY MemoryTypes DEF Types
<1>2. asyncSendOne({id}, k, mem[k].msg, awaited)
  BY DEF SendTo
<1>3. /\ inflight' \subseteq [tcp : Conns, id : Ids, chunk : Chunks, msg : Nat,
                              awaited : BOOLEAN]
      /\ toClient' \in [Conns -> Seq(Nat)]
  BY <1>1, <1>2, SendTypes
<1>4. calling' \subseteq Conns /\ postponed' \in [Ids -> Nat]
  BY CallTypes
<1>5. mem' \in [Chunks -> Chunk]
  <2>1. decrementChunkUsage(m, k, 1) \in [Chunks -> Chunk]
    BY MemoryTypes
  <2> QED
    BY <2>1 DEF HandedOver
<1>6. reg' \in [Ids -> Entry]
  BY SendingFacts
<1>7. UNCHANGED <<setup, shareNext, copyNext, chunkId, writer, seq, conn, wire>>
  BY DEF SendTo, ready, writing, network
<1> QED
  BY <1>3, <1>4, <1>5, <1>6, <1>7 DEF Types

(* onInputAvailable() keeps the types.                                     *)
LEMMA AvailableTypes ==
    ASSUME Types, NEW id \in Ids, onInputAvailable(id)
    PROVE  Types'
<1>0. /\ mem \in [Chunks -> Chunk] /\ reg \in [Ids -> Entry]
      /\ common \in Seq(Chunks) /\ unblock \in [Ids -> 0..MaxChunks]
      /\ unblockShared \in 0..MaxChunks
  BY DEF Types
<1>a. \A k : Awaited(k) \in BOOLEAN
  BY DEF Awaited
<1>b. \A n \in 0..MaxChunks : n # 0 => n \in Chunks
  BY ChunksAssumption DEF Chunks
<1>1. CASE availableButGone(id)
  <2>1. CallOf(id)
    BY <1>1 DEF availableButGone
  <2>2. calling' \subseteq Conns /\ postponed' \in [Ids -> Nat]
    BY <2>1, CallTypes
  <2> QED
    BY <1>1, <2>2 DEF Types, availableButGone, ready, blocks, writing, network, history
<1>2. CASE unblockByShared(id)
  <2>1. CallOf(id) /\ unblockShared # 0
    BY <1>2 DEF unblockByShared, Available, NextSource
  <2>2. unblockShared \in Chunks
    BY <1>0, <1>b, <2>1
  <2>3. unblockShared' = 0 /\ common' = common /\ unblock' = unblock
    BY <1>2 DEF unblockByShared
  <2>4. common' \in Seq(Chunks) /\ unblock' \in [Ids -> 0..MaxChunks]
        /\ unblockShared' \in 0..MaxChunks
    BY <1>0, <2>3, ChunksAssumption
  <2>5. /\ SendTo(id, unblockShared, Awaited(unblockShared))
        /\ mem' = HandedOver(mem, unblockShared, id) /\ reg' = Sending(reg, {id})
    BY <1>2 DEF unblockByShared
  <2> QED
    BY <1>0, <1>a, <2>1, <2>2, <2>4, <2>5, SendOneTypes
<1>3. CASE unblockById(id)
  <2>1. CallOf(id) /\ unblock[id] # 0
    BY <1>3 DEF unblockById, Available, NextSource
  <2>2. unblock[id] \in Chunks
    BY <1>0, <1>b, <2>1
  <2>3. /\ unblock' = [unblock EXCEPT ![id] = 0] /\ common' = common
        /\ unblockShared' = unblockShared
    BY <1>3 DEF unblockById
  <2>4. common' \in Seq(Chunks) /\ unblock' \in [Ids -> 0..MaxChunks]
        /\ unblockShared' \in 0..MaxChunks
    BY <1>0, <2>3, ChunksAssumption
  <2>5. /\ SendTo(id, unblock[id], Awaited(unblock[id]))
        /\ mem' = HandedOver(mem, unblock[id], id) /\ reg' = Sending(reg, {id})
    BY <1>3 DEF unblockById
  <2> QED
    BY <1>0, <1>a, <2>1, <2>2, <2>4, <2>5, SendOneTypes
<1>4. CASE sendQueued(id)
  <2> DEFINE k == Head(reg[id].queue)
  <2> DEFINE r == [reg EXCEPT ![id].queue = Tail(@)]
  <2>1. CallOf(id) /\ reg[id].queue # <<>>
    BY <1>4 DEF sendQueued, Available, NextSource
  <2>2. reg[id] \in Entry /\ reg[id].queue \in Seq(Chunks)
    BY <1>0 DEF Entry
  <2>3. k \in Chunks /\ Tail(reg[id].queue) \in Seq(Chunks)
    BY <2>1, <2>2
  <2>4. [reg[id] EXCEPT !.queue = Tail(reg[id].queue)] \in Entry
    BY <2>2, <2>3 DEF Entry
  <2>5. r \in [Ids -> Entry]
    BY <1>0, <2>4
  <2>6. common' \in Seq(Chunks) /\ unblock' \in [Ids -> 0..MaxChunks]
        /\ unblockShared' \in 0..MaxChunks
    BY <1>0, <1>4 DEF sendQueued, blocks
  <2>7. SendTo(id, k, FALSE) /\ mem' = HandedOver(mem, k, id) /\ reg' = Sending(r, {id})
    BY <1>4 DEF sendQueued
  <2> HIDE DEF r, k
  <2> QED
    BY <1>0, <2>1, <2>3, <2>5, <2>6, <2>7, SendOneTypes
<1>5. CASE sendCommon(id)
  <2> DEFINE k == Head(common)
  <2> DEFINE others == CopiedTo(id, k)
  <2> DEFINE r == Queued(reg, others, k)
  <2> DEFINE m == incrementChunkUsage(mem, k, Cardinality(others))
  <2>1. CallOf(id) /\ common # <<>>
    BY <1>5 DEF sendCommon, Available, NextSource
  <2>2. k \in Chunks /\ Tail(common) \in Seq(Chunks)
    BY <1>0, <2>1
  <2>3. others \subseteq Ids
    BY DEF CopiedTo, SharedInputs, Registered
  <2>4. IsFiniteSet(others) /\ Cardinality(others) \in Nat
    BY <2>3, IdsAssumption, FS_Subset, FS_CardinalityType
  <2>5. common' \in Seq(Chunks) /\ unblock' \in [Ids -> 0..MaxChunks]
        /\ unblockShared' \in 0..MaxChunks
    BY <1>0, <1>5, <2>2 DEF sendCommon, blocks
  <2>6. SendTo(id, k, FALSE) /\ mem' = HandedOver(m, k, id) /\ reg' = Sending(r, {id})
    BY <1>5 DEF sendCommon
  <2> HIDE DEF k, others
  <2>7. r \in [Ids -> Entry]
    BY <1>0, <2>2, QueuedFacts
  <2>8. m \in [Chunks -> Chunk]
    BY <1>0, <2>2, <2>4, MemoryTypes
  <2> HIDE DEF r, m
  <2> QED
    BY <2>1, <2>2, <2>5, <2>6, <2>7, <2>8, SendOneTypes
<1>6. CASE becomeReady(id)
  <2>1. CallOf(id)
    BY <1>6 DEF becomeReady, Available
  <2>2. calling' \subseteq Conns /\ postponed' \in [Ids -> Nat]
    BY <2>1, CallTypes
  <2>3. copyNext' \subseteq Ids
    BY <1>6 DEF becomeReady, Types
  <2>4. shareNext \in Seq(Ids) /\ IsInjective(shareNext)
    BY DEF Types
  <2>5. shareNext' = shareNext \/
        (id \notin Range(shareNext) /\ shareNext' = Append(shareNext, id))
    BY <1>6 DEF becomeReady, pushShareNext
  <2>6. shareNext' \in Seq(Ids) /\ IsInjective(shareNext')
    <3>1. CASE shareNext' = shareNext
      BY <2>4, <3>1
    <3>2. CASE id \notin Range(shareNext) /\ shareNext' = Append(shareNext, id)
      <4>1. /\ shareNext' \in Seq(Ids) /\ Len(shareNext') = Len(shareNext) + 1
            /\ Len(shareNext) \in Nat
            /\ shareNext'[Len(shareNext) + 1] = id
            /\ \A i \in 1..Len(shareNext) : shareNext'[i] = shareNext[i]
            /\ DOMAIN shareNext = 1..Len(shareNext)
            /\ DOMAIN shareNext' = 1..(Len(shareNext) + 1)
        BY <2>4, <3>2
      <4>2. \A i \in 1..Len(shareNext) : shareNext[i] # id
        BY <3>2, <4>1 DEF Range
      <4>3. ASSUME NEW i \in 1..(Len(shareNext) + 1), NEW j \in 1..(Len(shareNext) + 1),
                   shareNext'[i] = shareNext'[j]
            PROVE  i = j
        BY <2>4, <4>1, <4>2, <4>3 DEF IsInjective
      <4> QED
        BY <4>1, <4>3 DEF IsInjective
    <3> QED
      BY <2>5, <3>1, <3>2
  <2> QED
    BY <1>6, <2>2, <2>3, <2>6
    DEF Types, becomeReady, blocks, writing, network, history
<1>7. CASE \E c \in {d \in calling : conn[d].id = id} : postpone(c)
  <2>1. PICK c \in calling : conn[c].id = id /\ postpone(c)
    BY <1>7
  <2>2. calling \subseteq Conns /\ postponed \in [Ids -> Nat]
    BY DEF Types
  <2>3. postponed' = [postponed EXCEPT ![id] = @ + 1] /\ calling' = calling \ {c}
    BY <2>1 DEF postpone
  <2>4. calling' \subseteq Conns /\ postponed' \in [Ids -> Nat]
    BY <2>2, <2>3
  <2> QED
    BY <2>1, <2>4 DEF Types, postpone, ready, blocks, writing, network, history
<1> QED
  BY <1>1, <1>2, <1>3, <1>4, <1>5, <1>6, <1>7 DEF onInputAvailable


(* Dropping the oldest data from a queue leaves a queue.                   *)
LEMMA RemoveType ==
    ASSUME NEW q \in Seq(Chunks), NEW i \in 1..Len(q)
    PROVE  RemoveAt(q, i) \in Seq(Chunks)
<1>1. SubSeq(q, 1, i - 1) \in Seq(Chunks) /\ SubSeq(q, i + 1, Len(q)) \in Seq(Chunks)
  OBVIOUS
<1> QED
  BY <1>1 DEF RemoveAt

(* Connections come, break and go: the types stay.                         *)
LEMMA NetworkTypes ==
    ASSUME Types,
           \/ \E id \in Ids : hello(id)
           \/ \E c \in Conns : readUpdate(c) \/ clientRead(c) \/ breakConn(c)
    PROVE  Types'
<1>0. /\ conn \in [Conns -> [id : Ids, state : {"free", "up", "broken", "closed", "gone"}]]
      /\ toClient \in [Conns -> Seq(Nat)] /\ wire \in [Conns -> Nat]
      /\ calling \subseteq Conns /\ reg \in [Ids -> Entry] /\ setup \in Setup
  BY DEF Types
<1>1. ASSUME NEW id \in Ids, hello(id)
      PROVE  Types'
  <2>1. PICK c \in Conns :
          /\ conn' = [d \in Conns |->
                IF d = c THEN [id |-> id, state |-> "up"]
                ELSE IF d = reg[id].tcp THEN [conn[d] EXCEPT !.state = "closed"]
                ELSE conn[d]]
          /\ wire' = [d \in Conns |-> IF d = reg[id].tcp THEN 0 ELSE wire[d]]
          /\ toClient' = [d \in Conns |-> IF d = reg[id].tcp THEN <<>> ELSE toClient[d]]
          /\ reg' = [reg EXCEPT ![id] =
                [Nobody EXCEPT !.as = setup.distribution[id], !.tcp = c]]
          /\ calling' = calling \cup {c}
    BY <1>1 DEF hello
  <2>2. conn' \in [Conns -> [id : Ids, state : {"free", "up", "broken", "closed", "gone"}]]
    <3>1. \A d \in Conns :
            [conn[d] EXCEPT !.state = "closed"]
               \in [id : Ids, state : {"free", "up", "broken", "closed", "gone"}]
      BY <1>0
    <3>2. [id |-> id, state |-> "up"]
               \in [id : Ids, state : {"free", "up", "broken", "closed", "gone"}]
      OBVIOUS
    <3> QED
      BY <1>0, <2>1, <3>1, <3>2
  <2>3. wire' \in [Conns -> Nat] /\ toClient' \in [Conns -> Seq(Nat)] /\ calling' \subseteq Conns
    BY <1>0, <2>1
  <2>4. reg' \in [Ids -> Entry]
    <3>1. setup.distribution[id] \in {"shared", "copy"} /\ c \in 0..MaxConns
      BY <1>0, BoundsAssumption DEF Setup, Conns
    <3>2. [Nobody EXCEPT !.as = setup.distribution[id], !.tcp = c] \in Entry
      <4> DEFINE e == [Nobody EXCEPT !.as = setup.distribution[id]]
      <4>1. Nobody \in Entry
        BY BoundsAssumption DEF Nobody, Entry
      <4>2. e \in Entry
        BY <3>1, <4>1 DEF Entry
      <4>3. [e EXCEPT !.tcp = c] \in Entry
        BY <3>1, <4>2 DEF Entry
      <4>4. [e EXCEPT !.tcp = c] = [Nobody EXCEPT !.as = setup.distribution[id], !.tcp = c]
        OBVIOUS
      <4> QED
        BY <4>3, <4>4
    <3> QED
      BY <1>0, <2>1, <3>2
  <2> QED
    BY <1>1, <2>2, <2>3, <2>4 DEF Types, hello, ready, blocks, writing
<1>2. ASSUME NEW c \in Conns, readUpdate(c)
      PROVE  Types'
  <2>1. wire[c] \in Nat /\ wire[c] - 1 \in Nat
    BY <1>0, <1>2 DEF readUpdate
  <2>2. wire' \in [Conns -> Nat] /\ calling' \subseteq Conns
    BY <1>0, <1>2, <2>1 DEF readUpdate
  <2> QED
    BY <1>2, <2>2 DEF Types, readUpdate, ready, blocks, writing, history
<1>3. ASSUME NEW c \in Conns, clientRead(c)
      PROVE  Types'
  <2>1. wire' \in [Conns -> Nat]
    BY <1>0, <1>3 DEF clientRead
  <2>2. toClient[c] \in Seq(Nat) /\ Tail(toClient[c]) \in Seq(Nat)
    BY <1>0, <1>3 DEF clientRead
  <2>3. toClient' \in [Conns -> Seq(Nat)]
    BY <1>0, <1>3, <2>2 DEF clientRead
  <2> QED
    BY <1>3, <2>1, <2>3 DEF Types, clientRead, ready, blocks, writing, calls
<1>4. ASSUME NEW c \in Conns, breakConn(c)
      PROVE  Types'
  <2>1. [conn[c] EXCEPT !.state = "broken"]
           \in [id : Ids, state : {"free", "up", "broken", "closed", "gone"}]
    BY <1>0
  <2>2. conn' \in [Conns -> [id : Ids, state : {"free", "up", "broken", "closed", "gone"}]]
    BY <1>0, <1>4, <2>1 DEF breakConn
  <2>3. wire' \in [Conns -> Nat] /\ toClient' \in [Conns -> Seq(Nat)]
    BY <1>0, <1>4 DEF breakConn
  <2> QED
    BY <1>4, <2>2, <2>3 DEF Types, breakConn, ready, blocks, writing, calls
<1> QED
  BY <1>1, <1>2, <1>3, <1>4

(* The end of a write and of a connection keep the types.                  *)
LEMMA EndTypes ==
    ASSUME Types,
           \/ \E w \in inflight : writeComplete(w)
           \/ \E c \in Conns : onInputGone(c)
    PROVE  Types'
<1> DEFINE Writes == [tcp : Conns, id : Ids, chunk : Chunks, msg : Nat, awaited : BOOLEAN]
<1>0. /\ conn \in [Conns -> [id : Ids, state : {"free", "up", "broken", "closed", "gone"}]]
      /\ inflight \subseteq Writes
      /\ mem \in [Chunks -> Chunk] /\ reg \in [Ids -> Entry] /\ common \in Seq(Chunks)
      /\ unblock \in [Ids -> 0..MaxChunks] /\ unblockShared \in 0..MaxChunks
      /\ shareNext \in Seq(Ids) /\ IsInjective(shareNext) /\ copyNext \subseteq Ids
  BY DEF Types
<1>1. ASSUME NEW w \in inflight, writeComplete(w)
      PROVE  Types'
  <2>1. w.chunk \in Chunks /\ w.id \in Ids
    BY <1>0
  <2>2. mem' \in [Chunks -> Chunk]
    BY <1>0, <1>1, <2>1, MemoryTypes DEF writeComplete
  <2>3. [reg[w.id] EXCEPT !.sending = FALSE] \in Entry
    BY <1>0, <2>1 DEF Entry
  <2>4. reg' \in [Ids -> Entry]
    BY <1>0, <1>1, <2>3 DEF writeComplete, resetSendOngoing
  <2>5. inflight' \subseteq Writes
    BY <1>0, <1>1 DEF writeComplete
  <2> QED
    BY <1>1, <2>2, <2>4, <2>5
    DEF Types, writeComplete, ready, blocks, writing, network, calls
<1>2. ASSUME NEW c \in Conns, onInputGone(c)
      PROVE  Types'
  <2> DEFINE id == conn[c].id
  <2>1. id \in Ids /\ [conn[c] EXCEPT !.state = "gone"]
           \in [id : Ids, state : {"free", "up", "broken", "closed", "gone"}]
    BY <1>0
  <2>2. conn' \in [Conns -> [id : Ids, state : {"free", "up", "broken", "closed", "gone"}]]
    BY <1>0, <1>2, <2>1 DEF onInputGone
  <2>3. CASE reg[id].tcp # c
    <3>1. UNCHANGED <<mem, reg, shareNext, copyNext, common, unblock, unblockShared, inflight>>
      BY <1>2, <2>3 DEF onInputGone, ready, blocks
    <3> QED
      BY <1>2, <2>2, <3>1 DEF Types, onInputGone, calls, writing
  <2>4. CASE reg[id].tcp = c
    <3> DEFINE freed == {unblock[id], IF LastShared(id) THEN unblockShared ELSE 0} \ {0}
    <3>1. /\ inflight' = inflight \cup
                {[tcp |-> c, id |-> id, chunk |-> k, msg |-> mem[k].msg,
                  awaited |-> Awaited(k)] : k \in IF IsOpen(id) THEN freed ELSE {}}
          /\ mem' = releaseChunks(mem,
                ReleasedWith(id) \o (IF IsOpen(id) THEN <<>> ELSE SetToSeq(freed)))
          /\ unblock' = [unblock EXCEPT ![id] = 0]
          /\ unblockShared' = IF LastShared(id) THEN 0 ELSE unblockShared
          /\ common' = IF LastShared(id) THEN <<>> ELSE common
          /\ shareNext' = WithoutReady(id)
          /\ copyNext' = copyNext \ {id}
          /\ reg' = [reg EXCEPT ![id] = Nobody]
      BY <1>2, <2>4 DEF onInputGone
    <3>2. freed \subseteq Chunks
      <4>1. unblock[id] \in 0..MaxChunks /\ unblockShared \in 0..MaxChunks
        BY <1>0, <2>1
      <4> QED
        BY <4>1, ChunksAssumption DEF Chunks
    <3> HIDE DEF freed
    <3>3. \A k \in freed :
            [tcp |-> c, id |-> id, chunk |-> k, msg |-> mem[k].msg, awaited |-> Awaited(k)]
                \in Writes
      <4>1. \A k \in Chunks : mem[k].msg \in Nat
        BY <1>0, MemoryTypes
      <4>2. \A k : Awaited(k) \in BOOLEAN
        BY DEF Awaited
      <4> QED
        BY <2>1, <3>2, <4>1, <4>2
    <3>4. inflight' \subseteq Writes
      BY <1>0, <3>1, <3>3
    <3>5. mem' \in [Chunks -> Chunk]
      <4>1. ReleasedWith(id) \in Seq(Chunks)
        <5>1. reg[id].queue \in Seq(Chunks)
          BY <1>0, <2>1 DEF Entry
        <5> QED
          BY <1>0, <5>1 DEF ReleasedWith
      <4>2. (IF IsOpen(id) THEN <<>> ELSE SetToSeq(freed)) \in Seq(Chunks)
        BY <3>2, ListType
      <4>3. ReleasedWith(id) \o (IF IsOpen(id) THEN <<>> ELSE SetToSeq(freed)) \in Seq(Chunks)
        BY <4>1, <4>2
      <4> QED
        BY <1>0, <3>1, <4>3, MemoryTypes
    <3>6. /\ unblock' \in [Ids -> 0..MaxChunks] /\ unblockShared' \in 0..MaxChunks
          /\ common' \in Seq(Chunks) /\ copyNext' \subseteq Ids
      BY <1>0, <3>1, ChunksAssumption
    <3>7. shareNext' \in Seq(Ids) /\ IsInjective(shareNext')
      BY <1>0, <3>1, ErasedType DEF WithoutReady
    <3>8. reg' \in [Ids -> Entry]
      <4>1. Nobody \in Entry
        BY BoundsAssumption DEF Nobody, Entry
      <4> QED
        BY <1>0, <3>1, <4>1
    <3> QED
      BY <1>2, <2>2, <3>4, <3>5, <3>6, <3>7, <3>8 DEF Types, onInputGone, calls, writing
  <2> QED
    BY <2>3, <2>4
<1> QED
  BY <1>1, <1>2

(* The writer keeps the types.                                             *)
LEMMA WriterTypes ==
    ASSUME Types, ReadyInv, Writer
    PROVE  Types'
<1>0. /\ mem \in [Chunks -> Chunk] /\ reg \in [Ids -> Entry] /\ common \in Seq(Chunks)
  BY DEF Types
<1>1. CASE update \/ signalEndOfStream \/ writeAndSignalEos
  <2>1. chunkId # 0
    BY <1>1 DEF Types, update, signalEndOfStream, writeAndSignalEos, WriterMay
  <2>2. asyncUpdateNoWait(FALSE, FALSE) \/ asyncUpdateNoWait(TRUE, FALSE)
        \/ asyncUpdateNoWait(FALSE, TRUE)
    BY <1>1 DEF update, signalEndOfStream, writeAndSignalEos
  <2> QED
    BY <2>1, <2>2, UpdateTypes
<1>2. CASE sendFinalSignal
  <2>1. CASE chunkId # 0 /\ asyncUpdateNoWait(TRUE, FALSE)
    BY <2>1, UpdateTypes
  <2>2. CASE UNCHANGED <<setup, mem, reg, ready, common, blocks, calls, chunkId,
                         writer, seq, network, inflight, toClient, leaked>>
    BY <2>2 DEF Types, ready, blocks, calls, network
  <2> QED
    BY <1>2, <2>1, <2>2 DEF sendFinalSignal
<1>3. CASE updateChunkId
  <2>1. FirstFree(mem) \in 0..MaxChunks /\ FirstFree(mem) # 0
    BY <1>0, <1>3, FirstFreeType DEF updateChunkId
  <2>2. mem' \in [Chunks -> Chunk] /\ chunkId' \in 0..MaxChunks /\ chunkId' # 0
    BY <1>0, <1>3, <2>1, MemoryTypes DEF updateChunkId
  <2> QED
    BY <1>3, <2>2 DEF Types, updateChunkId, ready, blocks, calls, network
<1>4. CASE dropIndividualQueues
  <2>0. PICK id \in Ids : \E i \in Oldest(reg[id].queue) :
           /\ mem' = decrementChunkUsage(mem, reg[id].queue[i], 1)
           /\ reg' = [reg EXCEPT ![id].queue = RemoveAt(@, i)]
    BY <1>4 DEF dropIndividualQueues
  <2>1. PICK i \in Oldest(reg[id].queue) :
           /\ mem' = decrementChunkUsage(mem, reg[id].queue[i], 1)
           /\ reg' = [reg EXCEPT ![id].queue = RemoveAt(@, i)]
    BY <2>0
  <2>2. reg[id].queue \in Seq(Chunks) /\ i \in 1..Len(reg[id].queue)
    BY <1>0, <2>1 DEF Entry, Oldest
  <2>3. reg[id].queue[i] \in Chunks /\ RemoveAt(reg[id].queue, i) \in Seq(Chunks)
    BY <2>2, RemoveType
  <2>4. mem' \in [Chunks -> Chunk]
    BY <1>0, <2>1, <2>3, MemoryTypes
  <2>5. [reg[id] EXCEPT !.queue = RemoveAt(reg[id].queue, i)] \in Entry
    BY <1>0, <2>3 DEF Entry
  <2>6. reg' \in [Ids -> Entry]
    BY <1>0, <2>1, <2>5
  <2> QED
    BY <1>4, <2>4, <2>6 DEF Types, dropIndividualQueues, ready, blocks, calls, writing, network
<1>5. CASE dropCommonQueue
  <2>1. PICK i \in Oldest(common) :
           /\ mem' = decrementChunkUsage(mem, common[i], 1)
           /\ common' = RemoveAt(common, i)
    BY <1>5 DEF dropCommonQueue
  <2>2. i \in 1..Len(common)
    BY <2>1 DEF Oldest
  <2>3. common[i] \in Chunks /\ common' \in Seq(Chunks)
    BY <1>0, <2>1, <2>2, RemoveType
  <2>4. mem' \in [Chunks -> Chunk]
    BY <1>0, <2>1, <2>3, MemoryTypes
  <2> QED
    BY <1>5, <2>3, <2>4 DEF Types, dropCommonQueue, ready, blocks, calls, writing, network
<1>6. CASE sleep
  BY <1>6 DEF Types, sleep, ready, blocks, calls, network
<1> QED
  BY <1>1, <1>2, <1>3, <1>4, <1>5, <1>6 DEF Writer, ensureValidChunkId

(* All steps keep the types.                                               *)
LEMMA TypesStep ==
    ASSUME Inv, [Next]_vars
    PROVE  Types'
<1>1. Types /\ ReadyInv
  BY DEF Inv
<1>2. CASE Server
  BY <1>1, <1>2, NetworkTypes, EndTypes, AvailableTypes DEF Server
<1>3. CASE Writer
  BY <1>1, <1>3, WriterTypes
<1>4. CASE Clients
  BY <1>1, <1>4, NetworkTypes DEF Clients
<1>5. CASE UNCHANGED vars
  BY <1>1, <1>5 DEF Types, vars, ready, blocks, calls, writing, network
<1> QED
  BY <1>2, <1>3, <1>4, <1>5 DEF Next


-----------------------------------------------------------------------------
(* Steps that concern neither the requests nor the writes                  *)
Quiet ==
    /\ UNCHANGED <<setup, conn, wire, toClient, calling, postponed, shareNext, copyNext,
                   inflight>>
    /\ \A id \in Ids : /\ reg'[id].as = reg[id].as /\ reg'[id].tcp = reg[id].tcp
                       /\ reg'[id].sending = reg[id].sending

(* A call of onInputAvailable() is answered with data.                     *)
Served(id) ==
    /\ CallOf(id) /\ reg[id].as # "none" /\ ~reg[id].sending
    /\ SentTo({id})
    /\ UNCHANGED <<shareNext, copyNext>>

(* An update goes to some of the inputs that are ready.                    *)
Distributed(S) ==
    /\ \A id \in S : Ready(id)
    /\ SentTo(S)
    /\ Range(shareNext') = Range(shareNext) \ S /\ copyNext' = copyNext \ S
    /\ UNCHANGED <<calling, postponed>>

(* An update distributes.                                                  *)
LEMMA UpdateDistributes ==
    ASSUME Inv, NEW eos \in BOOLEAN, NEW final \in BOOLEAN, chunkId # 0,
           asyncUpdateNoWait(eos, final)
    PROVE  \E S \in SUBSET Ids : Distributed(S)
<1> DEFINE next == FirstFree(mem)
<1>0. Types /\ LinkInv /\ ReadyInv
  BY DEF Inv
<1>1. chunkId \in Chunks /\ seq + 1 \in Nat /\ reg \in [Ids -> Entry] /\ copyNext \subseteq Ids
  BY <1>0, ChunksAssumption DEF Types, Chunks
<1>2. PICK share \in asyncPrepareDistribute(next, eos) :
        LET send == (CopyInputs \cap copyNext) \cup share.send
            queue == CopyQueue(next, eos) \cup share.queue
        IN  /\ asyncSendOne(send, chunkId, seq + 1, final)
            /\ reg' = Sending(Queued(reg, queue, chunkId), send)
            /\ shareNext' = share.next
            /\ copyNext' = copyNext \ CopyInputs
  BY DEF asyncUpdateNoWait
<1> DEFINE send == (CopyInputs \cap copyNext) \cup share.send
<1> DEFINE queue == CopyQueue(next, eos) \cup share.queue
<1> DEFINE r == Queued(reg, queue, chunkId)
<1>3. /\ share.send \subseteq SharedInputs \cap Range(shareNext)
      /\ Range(share.next) = Range(shareNext) \ share.send
  BY <1>0, ShareFacts
<1>4. copyNext \subseteq CopyInputs /\ Range(shareNext) \cap copyNext = {}
  BY <1>0, <1>1 DEF ReadyInv, CopyInputs, Registered
<1>5. send \subseteq Ids /\ \A id \in send : reg[id].as # "none" /\ Ready(id)
  BY <1>3 DEF SharedInputs, CopyInputs, Registered, Ready
<1>6. Range(shareNext') = Range(shareNext) \ send /\ copyNext' = copyNext \ send
  BY <1>2, <1>3, <1>4
<1>7. UNCHANGED <<setup, conn, wire, calling, postponed>>
  BY DEF asyncUpdateNoWait, calls, network
<1>8. asyncSendOne(send, chunkId, seq + 1, final) /\ reg' = Sending(r, send)
  BY <1>2
<1> HIDE DEF send, queue
<1>9. /\ r \in [Ids -> Entry]
      /\ \A id \in Ids : /\ r[id].as = reg[id].as /\ r[id].tcp = reg[id].tcp
                         /\ r[id].sending = reg[id].sending
  BY <1>1, QueuedFacts
<1> HIDE DEF r
<1>10. SentTo(send)
  BY <1>0, <1>1, <1>5, <1>7, <1>8, <1>9, SendFacts
<1> QED
  BY <1>5, <1>6, <1>7, <1>10 DEF Distributed

(* onInputAvailable() serves the input unless it has nothing for it.       *)
LEMMA AvailableServes ==
    ASSUME Inv, NEW id \in Ids,
           unblockByShared(id) \/ unblockById(id) \/ sendQueued(id) \/ sendCommon(id)
    PROVE  Served(id)
<1>0. Types /\ LinkInv /\ reg \in [Ids -> Entry] /\ mem \in [Chunks -> Chunk]
  BY DEF Inv, Types
<1>1. PICK source \in {"unblockShared", "unblock", "queue", "common"} : Available(id, source)
  BY DEF unblockByShared, unblockById, sendQueued, sendCommon
<1>2. CallOf(id) /\ reg[id].as # "none" /\ ~reg[id].sending
  BY <1>1 DEF Available, MustPostpone
<1>3. ASSUME NEW k \in Chunks, NEW awaited, SendTo(id, k, awaited), NEW r \in [Ids -> Entry],
             \A i \in Ids : /\ r[i].as = reg[i].as /\ r[i].tcp = reg[i].tcp
                            /\ r[i].sending = reg[i].sending,
             reg' = Sending(r, {id})
      PROVE  Served(id)
  <2>1. asyncSendOne({id}, k, mem[k].msg, awaited) /\ mem[k].msg \in Nat
    BY <1>0, <1>3, MemoryTypes DEF SendTo
  <2>2. UNCHANGED <<setup, conn, wire, shareNext, copyNext>>
    BY <1>3 DEF SendTo, ready, network
  <2>3. {id} \in SUBSET Ids /\ \A i \in {id} : reg[i].as # "none"
    BY <1>2
  <2>4. SentTo({id})
    BY <1>0, <1>3, <2>1, <2>2, <2>3, SendFacts
  <2> QED
    BY <1>2, <2>2, <2>4 DEF Served
<1>b. \A n \in 0..MaxChunks : n # 0 => n \in Chunks
  BY ChunksAssumption DEF Chunks
<1>4. CASE unblockByShared(id)
  <2>1. unblockShared \in Chunks
    BY <1>0, <1>4, <1>b DEF Types, unblockByShared, Available, NextSource
  <2> QED
    BY <1>0, <1>3, <1>4, <2>1 DEF unblockByShared
<1>5. CASE unblockById(id)
  <2>1. unblock[id] \in Chunks
    BY <1>0, <1>5, <1>b DEF Types, unblockById, Available, NextSource
  <2> QED
    BY <1>0, <1>3, <1>5, <2>1 DEF unblockById
<1>6. CASE sendQueued(id)
  <2> DEFINE r == [reg EXCEPT ![id].queue = Tail(@)]
  <2>1. reg[id] \in Entry /\ reg[id].queue \in Seq(Chunks) /\ reg[id].queue # <<>>
    BY <1>0, <1>6 DEF Entry, sendQueued, Available, NextSource
  <2>2. Head(reg[id].queue) \in Chunks /\ Tail(reg[id].queue) \in Seq(Chunks)
    BY <2>1
  <2>3. [reg[id] EXCEPT !.queue = Tail(reg[id].queue)] \in Entry
    BY <2>1, <2>2 DEF Entry
  <2>4. /\ r \in [Ids -> Entry]
        /\ \A i \in Ids : /\ r[i].as = reg[i].as /\ r[i].tcp = reg[i].tcp
                          /\ r[i].sending = reg[i].sending
    BY <1>0, <2>1, <2>3 DEF Entry
  <2>5. SendTo(id, Head(reg[id].queue), FALSE) /\ reg' = Sending(r, {id})
    BY <1>6 DEF sendQueued
  <2> HIDE DEF r
  <2> QED
    BY <1>3, <2>2, <2>4, <2>5
<1>7. CASE sendCommon(id)
  <2> DEFINE k == Head(common)
  <2> DEFINE r == Queued(reg, CopiedTo(id, k), k)
  <2>1. common \in Seq(Chunks) /\ common # <<>>
    BY <1>0, <1>7 DEF Types, sendCommon, Available, NextSource
  <2>2. k \in Chunks
    BY <2>1
  <2>3. SendTo(id, k, FALSE) /\ reg' = Sending(r, {id})
    BY <1>7 DEF sendCommon
  <2> HIDE DEF k
  <2>4. /\ r \in [Ids -> Entry]
        /\ \A i \in Ids : /\ r[i].as = reg[i].as /\ r[i].tcp = reg[i].tcp
                          /\ r[i].sending = reg[i].sending
    BY <1>0, <2>2, QueuedFacts
  <2> HIDE DEF r
  <2> QED
    BY <1>3, <2>2, <2>3, <2>4
<1> QED
  BY <1>4, <1>5, <1>6, <1>7

(* All that a step can be, as far as the requests and the writes go        *)
Kinds ==
    \/ Quiet
    \/ \E id \in Ids : Served(id) \/ hello(id) \/ availableButGone(id) \/ becomeReady(id)
    \/ \E S \in SUBSET Ids : Distributed(S)
    \/ \E c \in Conns : readUpdate(c) \/ clientRead(c) \/ breakConn(c) \/ onInputGone(c)
    \/ \E c \in calling : postpone(c)
    \/ \E w \in inflight : writeComplete(w)

(* Nothing else happens.                                                   *)
LEMMA StepKinds ==
    ASSUME Inv, [Next]_vars
    PROVE  Kinds
<1>0. Types /\ reg \in [Ids -> Entry]
  BY DEF Inv, Types
<1>1. CASE update \/ signalEndOfStream \/ writeAndSignalEos \/ sendFinalSignal
  <2>1. CASE chunkId # 0 /\ \/ asyncUpdateNoWait(FALSE, FALSE)
                            \/ asyncUpdateNoWait(TRUE, FALSE)
                            \/ asyncUpdateNoWait(FALSE, TRUE)
    BY <2>1, UpdateDistributes DEF Kinds
  <2>2. CASE UNCHANGED <<setup, mem, reg, ready, common, blocks, calls, chunkId,
                         writer, seq, network, inflight, toClient, leaked>>
    BY <2>2 DEF Kinds, Quiet, ready, calls, network
  <2>3. update \/ signalEndOfStream \/ writeAndSignalEos => chunkId # 0
    BY <1>0 DEF Types, update, signalEndOfStream, writeAndSignalEos, WriterMay
  <2> QED
    BY <1>1, <2>1, <2>2, <2>3 DEF update, signalEndOfStream, writeAndSignalEos, sendFinalSignal
<1>2. CASE ensureValidChunkId
  <2>1. CASE updateChunkId \/ dropCommonQueue \/ sleep
    BY <2>1 DEF Kinds, Quiet, updateChunkId, dropCommonQueue, sleep, ready, calls, network
  <2>2. CASE dropIndividualQueues
    <3>1. PICK id \in Ids : \E i \in Oldest(reg[id].queue) :
             reg' = [reg EXCEPT ![id].queue = RemoveAt(@, i)]
      BY <2>2 DEF dropIndividualQueues
    <3>2. \A i \in Ids : /\ reg'[i].as = reg[i].as /\ reg'[i].tcp = reg[i].tcp
                         /\ reg'[i].sending = reg[i].sending
      BY <1>0, <3>1 DEF Entry
    <3> QED
      BY <2>2, <3>2 DEF Kinds, Quiet, dropIndividualQueues, ready, calls, network
  <2> QED
    BY <1>2, <2>1, <2>2 DEF ensureValidChunkId
<1>3. CASE Server
  BY <1>3, AvailableServes DEF Kinds, Server, onInputAvailable
<1>4. CASE Clients
  BY <1>4 DEF Kinds, Clients
<1>5. CASE UNCHANGED vars
  BY <1>5 DEF Kinds, Quiet, vars, ready, calls, network
<1> QED
  BY <1>1, <1>2, <1>3, <1>4, <1>5 DEF Next, Writer


-----------------------------------------------------------------------------
(* What connecting does to one input and to all others: the first free     *)
(* connection becomes its own, an older one is closed.                     *)
LEMMA HelloFacts ==
    ASSUME Types, LinkInv, NEW id \in Ids, hello(id)
    PROVE  \E c \in Conns :
             /\ conn[c].state = "free" /\ conn'[c].id = id /\ conn'[c].state = "up"
             /\ \A d \in Conns : d # c =>
                   /\ conn'[d].id = conn[d].id
                   /\ conn'[d].state = "free" <=> conn[d].state = "free"
                   /\ d = reg[id].tcp => /\ conn'[d].state = "closed"
                   /\ d # reg[id].tcp =>
                         /\ conn'[d].state = conn[d].state
                         /\ wire'[d] = wire[d] /\ toClient'[d] = toClient[d]
             /\ wire'[c] = 0 /\ toClient'[c] = <<>>
             /\ reg'[id].as = setup.distribution[id] /\ reg'[id].as # "none"
             /\ reg'[id].tcp = c /\ c # reg[id].tcp
             /\ \A j \in Ids : j # id => reg'[j] = reg[j]
             /\ calling' = calling \cup {c} /\ c \notin calling
             /\ UNCHANGED <<setup, shareNext, copyNext, postponed, inflight>>
<1>0. /\ conn \in [Conns -> [id : Ids, state : {"free", "up", "broken", "closed", "gone"}]]
      /\ toClient \in [Conns -> Seq(Nat)] /\ wire \in [Conns -> Nat]
      /\ reg \in [Ids -> Entry] /\ setup \in Setup
  BY DEF Types
<1>1. PICK c \in Conns :
        /\ conn[c].state = "free"
        /\ conn' = [d \in Conns |->
              IF d = c THEN [id |-> id, state |-> "up"]
              ELSE IF d = reg[id].tcp THEN [conn[d] EXCEPT !.state = "closed"]
              ELSE conn[d]]
        /\ wire' = [d \in Conns |-> IF d = reg[id].tcp THEN 0 ELSE wire[d]]
        /\ toClient' = [d \in Conns |-> IF d = reg[id].tcp THEN <<>> ELSE toClient[d]]
        /\ reg' = [reg EXCEPT ![id] =
              [Nobody EXCEPT !.as = setup.distribution[id], !.tcp = c]]
        /\ calling' = calling \cup {c}
  BY DEF hello
<1>2. /\ c \notin calling /\ wire[c] = 0 /\ toClient[c] = <<>>
      /\ reg[id].tcp # 0 => conn[reg[id].tcp].state # "free"
  BY <1>1 DEF LinkInv
<1>3. c # reg[id].tcp
  BY <1>1, <1>2, BoundsAssumption DEF Conns
<1>4. reg'[id].as = setup.distribution[id] /\ reg'[id].tcp = c
      /\ \A j \in Ids : j # id => reg'[j] = reg[j]
  <2>1. reg'[id] = [Nobody EXCEPT !.as = setup.distribution[id], !.tcp = c]
    BY <1>0, <1>1
  <2>2. /\ [Nobody EXCEPT !.as = setup.distribution[id], !.tcp = c].as = setup.distribution[id]
        /\ [Nobody EXCEPT !.as = setup.distribution[id], !.tcp = c].tcp = c
    BY DEF Nobody
  <2> QED
    BY <1>0, <1>1, <2>1, <2>2
<1>5. setup.distribution[id] # "none"
  <2>1. setup.distribution \in [Ids -> {"shared", "copy"}]
    BY <1>0 DEF Setup
  <2> QED
    BY <2>1
<1>6. conn'[c].id = id /\ conn'[c].state = "up"
  BY <1>1
<1>7. \A d \in Conns : d # c =>
        /\ conn'[d].id = conn[d].id
        /\ conn'[d].state = "free" <=> conn[d].state = "free"
        /\ d = reg[id].tcp => conn'[d].state = "closed"
        /\ d # reg[id].tcp =>
              /\ conn'[d].state = conn[d].state
              /\ wire'[d] = wire[d] /\ toClient'[d] = toClient[d]
  <2>1. ASSUME NEW d \in Conns, d # c
        PROVE  /\ conn'[d].id = conn[d].id
               /\ conn'[d].state = "free" <=> conn[d].state = "free"
               /\ d = reg[id].tcp => conn'[d].state = "closed"
               /\ d # reg[id].tcp =>
                     /\ conn'[d].state = conn[d].state
                     /\ wire'[d] = wire[d] /\ toClient'[d] = toClient[d]
    <3>0. conn[d] \in [id : Ids, state : {"free", "up", "broken", "closed", "gone"}]
      BY <1>0
    <3>1. CASE d = reg[id].tcp
      <4>1. conn'[d] = [conn[d] EXCEPT !.state = "closed"]
        BY <1>1, <2>1, <3>1
      <4>2. conn[d].state # "free"
        BY <1>2, <3>1, BoundsAssumption DEF Conns
      <4> QED
        BY <3>0, <3>1, <4>1, <4>2
    <3>2. CASE d # reg[id].tcp
      BY <1>1, <2>1, <3>2
    <3> QED
      BY <3>1, <3>2
  <2> QED
    BY <2>1
<1>8. wire'[c] = 0 /\ toClient'[c] = <<>>
  BY <1>1, <1>2, <1>3
<1>9. UNCHANGED <<setup, shareNext, copyNext, postponed, inflight>>
  BY DEF hello, ready
<1> QED
  BY <1>1, <1>2, <1>3, <1>4, <1>5, <1>6, <1>7, <1>8, <1>9

(* What the end of a connection does to one input and to all others        *)
LEMMA GoneFacts ==
    ASSUME Types, LinkInv, NEW c \in Conns, onInputGone(c)
    PROVE  /\ conn'[c].state = "gone" /\ conn'[c].id = conn[c].id
           /\ conn[c].state \in {"broken", "closed"} /\ c \notin calling
           /\ \A d \in Conns : d # c => conn'[d] = conn[d]
           /\ UNCHANGED <<setup, calling, postponed, wire, toClient>>
           /\ \A j \in Ids : j # conn[c].id =>
                 /\ reg'[j] = reg[j]
                 /\ j \in Range(shareNext') <=> j \in Range(shareNext)
                 /\ j \in copyNext' <=> j \in copyNext
           /\ reg[conn[c].id].tcp = c =>
                 /\ reg'[conn[c].id] = Nobody
                 /\ conn[c].id \notin Range(shareNext') /\ conn[c].id \notin copyNext'
                 /\ \A w \in inflight' :
                       w \in inflight \/ (w.tcp = c /\ w.id = conn[c].id)
           /\ reg[conn[c].id].tcp # c => UNCHANGED <<reg, shareNext, copyNext, inflight>>
           /\ Range(shareNext') \subseteq Range(shareNext) /\ copyNext' \subseteq copyNext
<1> DEFINE id == conn[c].id
<1>0. /\ conn \in [Conns -> [id : Ids, state : {"free", "up", "broken", "closed", "gone"}]]
      /\ reg \in [Ids -> Entry] /\ shareNext \in Seq(Ids) /\ IsInjective(shareNext)
  BY DEF Types
<1>1. id \in Ids
  BY <1>0
<1>2. /\ conn' = [conn EXCEPT ![c].state = "gone"]
      /\ conn[c].state \in {"broken", "closed"} /\ c \notin calling
      /\ UNCHANGED <<setup, calling, postponed, wire, toClient>>
  BY DEF onInputGone, calls
<1>3. /\ conn'[c].state = "gone" /\ conn'[c].id = conn[c].id
      /\ \A d \in Conns : d # c => conn'[d] = conn[d]
  BY <1>0, <1>2
<1>4. CASE reg[id].tcp # c
  <2>1. UNCHANGED <<reg, shareNext, copyNext, inflight>>
    BY <1>4 DEF onInputGone, ready
  <2> QED
    BY <1>2, <1>3, <1>4, <2>1
<1>5. CASE reg[id].tcp = c
  <2> DEFINE freed == {unblock[id], IF LastShared(id) THEN unblockShared ELSE 0} \ {0}
  <2>1. /\ inflight' = inflight \cup
              {[tcp |-> c, id |-> id, chunk |-> k, msg |-> mem[k].msg,
                awaited |-> Awaited(k)] : k \in IF IsOpen(id) THEN freed ELSE {}}
        /\ shareNext' = WithoutReady(id)
        /\ copyNext' = copyNext \ {id}
        /\ reg' = [reg EXCEPT ![id] = Nobody]
    BY <1>5 DEF onInputGone
  <2>2. Range(shareNext') = Range(shareNext) \ {id}
    BY <1>0, <2>1, ErasedType DEF WithoutReady
  <2> HIDE DEF freed
  <2>3. \A w \in inflight' : w \in inflight \/ (w.tcp = c /\ w.id = id)
    <3>1. ASSUME NEW w \in inflight', w \notin inflight
          PROVE  w.tcp = c /\ w.id = id
      <4>1. PICK k : w = [tcp |-> c, id |-> id, chunk |-> k, msg |-> mem[k].msg,
                          awaited |-> Awaited(k)]
        BY <2>1, <3>1
      <4> QED
        BY <4>1
    <3> QED
      BY <3>1
  <2>4. reg'[id] = Nobody /\ \A j \in Ids : j # id => reg'[j] = reg[j]
    BY <1>0, <1>1, <2>1
  <2> QED
    BY <1>2, <1>3, <1>5, <2>1, <2>2, <2>3, <2>4
<1> QED
  BY <1>4, <1>5

(* A call comes from a handler or from the event loop; nobody else's calls *)
(* are touched.                                                            *)
LEMMA CallFacts ==
    ASSUME Types, NEW id \in Ids, CallOf(id)
    PROVE  /\ calling' \subseteq calling
           /\ \A j \in Ids : postponed'[j] <= postponed[j] /\ postponed'[j] \in Nat
           /\ \A j \in Ids : j # id => postponed'[j] = postponed[j]
           /\ \A d \in calling : conn[d].id # id => d \in calling'
<1>1. calling \subseteq Conns /\ postponed \in [Ids -> Nat]
  BY DEF Types
<1>2. CASE \E c \in calling : /\ conn[c].id = id
                              /\ calling' = calling \ {c}
                              /\ UNCHANGED postponed
  <2>1. \A j \in Ids : postponed'[j] = postponed[j] /\ postponed[j] \in Nat
    BY <1>1, <1>2
  <2> QED
    BY <1>2, <2>1
<1>3. CASE /\ postponed[id] > 0
           /\ postponed' = [postponed EXCEPT ![id] = @ - 1]
           /\ UNCHANGED calling
  <2>1. \A j \in Ids : postponed[j] \in Nat
    BY <1>1
  <2>2. postponed'[id] = postponed[id] - 1 /\ \A j \in Ids : j # id => postponed'[j] = postponed[j]
    BY <1>1, <1>3
  <2> QED
    BY <1>3, <2>1, <2>2
<1> QED
  BY <1>2, <1>3 DEF CallOf


(* An input stays registered with the connection that says so.             *)
LEMMA LinkStep ==
    ASSUME Inv, [Next]_vars, Types'
    PROVE  LinkInv'
<1>0. Types /\ LinkInv /\ Kinds
  BY StepKinds DEF Inv
<1>t. /\ conn \in [Conns -> [id : Ids, state : {"free", "up", "broken", "closed", "gone"}]]
      /\ conn' \in [Conns -> [id : Ids, state : {"free", "up", "broken", "closed", "gone"}]]
      /\ reg \in [Ids -> Entry] /\ reg' \in [Ids -> Entry]
      /\ toClient \in [Conns -> Seq(Nat)] /\ wire \in [Conns -> Nat]
  BY <1>0 DEF Types
<1>c. \A id \in Ids : reg[id].tcp # 0 => reg[id].tcp \in Conns
  BY <1>t, BoundsAssumption DEF Entry, Conns
<1>k. ASSUME UNCHANGED <<setup, conn>>,
             \A id \in Ids : reg'[id].as = reg[id].as /\ reg'[id].tcp = reg[id].tcp,
             \A c \in Conns : conn[c].state = "free" =>
                 c \notin calling' /\ wire'[c] = 0 /\ toClient'[c] = <<>>
      PROVE  LinkInv'
  <2>1. \A id \in Ids :
          /\ reg'[id].as = "none" <=> reg'[id].tcp = 0
          /\ reg'[id].tcp # 0 =>
                /\ conn'[reg'[id].tcp].id = id
                /\ conn'[reg'[id].tcp].state \in {"up", "broken"}
                /\ reg'[id].as = setup'.distribution[id]
    BY <1>0, <1>k DEF LinkInv
  <2>2. \A c \in Conns : conn[c].id \in Ids
    BY <1>t
  <2>3. \A c \in Conns :
          /\ conn'[c].state \in {"up", "broken"} => reg'[conn'[c].id].tcp = c
          /\ conn'[c].state = "free" =>
                c \notin calling' /\ wire'[c] = 0 /\ toClient'[c] = <<>>
    BY <1>0, <1>k, <2>2 DEF LinkInv
  <2> QED
    BY <2>1, <2>3 DEF LinkInv
<1>1. CASE Quiet
  BY <1>0, <1>1, <1>k DEF Quiet, LinkInv
<1>2. ASSUME NEW S \in SUBSET Ids, SentTo(S), calling' \subseteq calling
      PROVE  LinkInv'
  BY <1>0, <1>2, <1>k DEF SentTo, LinkInv
<1>3. CASE \E id \in Ids : Served(id)
  <2>1. PICK id \in Ids : Served(id)
    BY <1>3
  <2>2. SentTo({id}) /\ calling' \subseteq calling
    BY <1>0, <2>1, CallFacts DEF Served
  <2> QED
    BY <1>2, <2>2
<1>4. CASE \E S \in SUBSET Ids : Distributed(S)
  BY <1>2, <1>4 DEF Distributed
<1>5. ASSUME NEW id \in Ids, hello(id)
      PROVE  LinkInv'
  <2>1. PICK c \in Conns :
             /\ conn[c].state = "free" /\ conn'[c].id = id /\ conn'[c].state = "up"
             /\ \A d \in Conns : d # c =>
                   /\ conn'[d].id = conn[d].id
                   /\ conn'[d].state = "free" <=> conn[d].state = "free"
                   /\ d = reg[id].tcp => /\ conn'[d].state = "closed"
                   /\ d # reg[id].tcp =>
                         /\ conn'[d].state = conn[d].state
                         /\ wire'[d] = wire[d] /\ toClient'[d] = toClient[d]
             /\ wire'[c] = 0 /\ toClient'[c] = <<>>
             /\ reg'[id].as = setup.distribution[id] /\ reg'[id].as # "none"
             /\ reg'[id].tcp = c /\ c # reg[id].tcp
             /\ \A j \in Ids : j # id => reg'[j] = reg[j]
             /\ calling' = calling \cup {c} /\ c \notin calling
             /\ UNCHANGED <<setup, shareNext, copyNext, postponed, inflight>>
    BY <1>0, <1>5, HelloFacts
  <2>2. c # 0
    BY BoundsAssumption DEF Conns
  <2>3. ASSUME NEW j \in Ids
        PROVE  /\ reg'[j].as = "none" <=> reg'[j].tcp = 0
               /\ reg'[j].tcp # 0 =>
                     /\ conn'[reg'[j].tcp].id = j
                     /\ conn'[reg'[j].tcp].state \in {"up", "broken"}
                     /\ reg'[j].as = setup'.distribution[j]
    <3>1. CASE j = id
      BY <2>1, <2>2, <3>1
    <3>2. CASE j # id
      <4>1. reg'[j] = reg[j]
        BY <2>1, <3>2
      <4>2. reg[j].tcp # 0 => /\ reg[j].tcp \in Conns /\ reg[j].tcp # c
                              /\ reg[j].tcp # reg[id].tcp
        BY <1>0, <1>c, <2>1, <3>2 DEF LinkInv
      <4> QED
        BY <1>0, <2>1, <4>1, <4>2 DEF LinkInv
    <3> QED
      BY <3>1, <3>2
  <2>4. ASSUME NEW d \in Conns
        PROVE  /\ conn'[d].state \in {"up", "broken"} => reg'[conn'[d].id].tcp = d
               /\ conn'[d].state = "free" =>
                     d \notin calling' /\ wire'[d] = 0 /\ toClient'[d] = <<>>
    <3>1. CASE d = c
      BY <2>1, <3>1
    <3>2. CASE d # c /\ d = reg[id].tcp
      BY <2>1, <3>2
    <3>3. CASE d # c /\ d # reg[id].tcp
      <4>1. /\ conn'[d].id = conn[d].id /\ conn'[d].state = conn[d].state
            /\ wire'[d] = wire[d] /\ toClient'[d] = toClient[d]
        BY <2>1, <3>3
      <4>2. conn[d].id \in Ids
        BY <1>t
      <4>3. conn[d].state \in {"up", "broken"} => reg[conn[d].id].tcp = d
        BY <1>0 DEF LinkInv
      <4>4. conn[d].state \in {"up", "broken"} => reg'[conn[d].id] = reg[conn[d].id]
        BY <2>1, <3>3, <4>2, <4>3
      <4>5. conn[d].state = "free" => d \notin calling /\ wire[d] = 0 /\ toClient[d] = <<>>
        BY <1>0 DEF LinkInv
      <4> QED
        BY <2>1, <3>3, <4>1, <4>3, <4>4, <4>5
    <3> QED
      BY <3>1, <3>2, <3>3
  <2> QED
    BY <2>3, <2>4 DEF LinkInv
<1>6. ASSUME NEW id \in Ids, availableButGone(id) \/ becomeReady(id)
      PROVE  LinkInv'
  <2>1. calling' \subseteq calling
    BY <1>0, <1>6, CallFacts DEF availableButGone, becomeReady, Available
  <2>2. UNCHANGED <<setup, conn, reg, wire, toClient>>
    BY <1>6 DEF availableButGone, becomeReady, network
  <2> QED
    BY <1>0, <1>k, <2>1, <2>2 DEF LinkInv
<1>7. ASSUME NEW c \in Conns, readUpdate(c) \/ clientRead(c)
      PROVE  LinkInv'
  <2>1. UNCHANGED <<setup, conn, reg>> /\ conn[c].state = "up" /\ calling' \subseteq calling \cup {c}
    BY <1>7 DEF readUpdate, clientRead, calls
  <2>2. \A d \in Conns : d # c => wire'[d] = wire[d] /\ toClient'[d] = toClient[d]
    BY <1>7, <1>t DEF readUpdate, clientRead
  <2>3. \A d \in Conns : conn[d].state = "free" => d # c /\ d \notin calling
                                                   /\ wire[d] = 0 /\ toClient[d] = <<>>
    BY <1>0, <2>1 DEF LinkInv
  <2> QED
    BY <1>k, <2>1, <2>2, <2>3
<1>8. ASSUME NEW c \in Conns, breakConn(c)
      PROVE  LinkInv'
  <2>1. /\ UNCHANGED <<setup, reg, calling>> /\ conn[c].state = "up"
        /\ conn'[c].state = "broken" /\ conn'[c].id = conn[c].id
        /\ \A d \in Conns : d # c => conn'[d] = conn[d]
        /\ \A d \in Conns : d # c => wire'[d] = wire[d] /\ toClient'[d] = toClient[d]
    BY <1>8, <1>t DEF breakConn, calls
  <2>2. \A id \in Ids :
          /\ reg'[id].as = "none" <=> reg'[id].tcp = 0
          /\ reg'[id].tcp # 0 =>
                /\ conn'[reg'[id].tcp].id = id
                /\ conn'[reg'[id].tcp].state \in {"up", "broken"}
                /\ reg'[id].as = setup'.distribution[id]
    BY <1>0, <1>c, <2>1 DEF LinkInv
  <2>3. \A d \in Conns :
          /\ conn'[d].state \in {"up", "broken"} => reg'[conn'[d].id].tcp = d
          /\ conn'[d].state = "free" =>
                d \notin calling' /\ wire'[d] = 0 /\ toClient'[d] = <<>>
    BY <1>0, <2>1 DEF LinkInv
  <2> QED
    BY <2>2, <2>3 DEF LinkInv
<1>9. ASSUME NEW c \in Conns, onInputGone(c)
      PROVE  LinkInv'
  <2> DEFINE id == conn[c].id
  <2>1. /\ conn'[c].state = "gone" /\ conn'[c].id = conn[c].id
        /\ conn[c].state \in {"broken", "closed"}
        /\ \A d \in Conns : d # c => conn'[d] = conn[d]
        /\ UNCHANGED <<setup, calling, postponed, wire, toClient>>
        /\ \A j \in Ids : j # id => reg'[j] = reg[j]
        /\ reg[id].tcp = c => reg'[id] = Nobody
        /\ reg[id].tcp # c => reg' = reg
    BY <1>0, <1>9, GoneFacts
  <2>2. id \in Ids
    BY <1>t
  <2>3. ASSUME NEW j \in Ids
        PROVE  /\ reg'[j].as = "none" <=> reg'[j].tcp = 0
               /\ reg'[j].tcp # 0 =>
                     /\ conn'[reg'[j].tcp].id = j
                     /\ conn'[reg'[j].tcp].state \in {"up", "broken"}
                     /\ reg'[j].as = setup'.distribution[j]
    <3>1. CASE reg[j].tcp = c
      <4>1. j = id /\ reg'[j] = Nobody
        <5>1. c # 0
          BY BoundsAssumption DEF Conns
        <5> QED
          BY <1>0, <2>1, <3>1, <5>1 DEF LinkInv
      <4> QED
        BY <4>1 DEF Nobody
    <3>2. CASE reg[j].tcp # c
      <4>1. reg'[j] = reg[j]
        BY <2>1, <3>2
      <4>2. reg[j].tcp # 0 => conn'[reg[j].tcp] = conn[reg[j].tcp]
        BY <1>c, <2>1, <3>2
      <4> QED
        BY <1>0, <2>1, <4>1, <4>2 DEF LinkInv
    <3> QED
      BY <3>1, <3>2
  <2>4. ASSUME NEW d \in Conns
        PROVE  /\ conn'[d].state \in {"up", "broken"} => reg'[conn'[d].id].tcp = d
               /\ conn'[d].state = "free" =>
                     d \notin calling' /\ wire'[d] = 0 /\ toClient'[d] = <<>>
    <3>1. CASE d = c
      BY <2>1, <3>1
    <3>2. CASE d # c
      <4>1. conn'[d] = conn[d] /\ conn[d].id \in Ids
        BY <1>t, <2>1, <3>2
      <4>2. conn[d].state \in {"up", "broken"} => reg[conn[d].id].tcp = d
        BY <1>0 DEF LinkInv
      <4>3. conn[d].state \in {"up", "broken"} => reg'[conn[d].id] = reg[conn[d].id]
        BY <2>1, <3>2, <4>1, <4>2
      <4> QED
        BY <1>0, <2>1, <4>1, <4>2, <4>3 DEF LinkInv
    <3> QED
      BY <3>1, <3>2
  <2> QED
    BY <2>3, <2>4 DEF LinkInv
<1>10. ASSUME NEW c \in calling, postpone(c)
       PROVE  LinkInv'
  <2>1. UNCHANGED <<setup, conn, reg, wire, toClient>> /\ calling' \subseteq calling
    BY <1>10 DEF postpone, network
  <2> QED
    BY <1>0, <1>k, <2>1 DEF LinkInv
<1>11. ASSUME NEW w \in inflight, writeComplete(w)
       PROVE  LinkInv'
  <2>1. UNCHANGED <<setup, conn, calling, wire, toClient>>
    BY <1>11 DEF writeComplete, network, calls
  <2>2. \A id \in Ids : reg'[id].as = reg[id].as /\ reg'[id].tcp = reg[id].tcp
    BY <1>11, <1>t DEF writeComplete, resetSendOngoing, Entry
  <2> QED
    BY <1>0, <1>k, <2>1, <2>2 DEF LinkInv
<1> QED
  BY <1>0, <1>1, <1>3, <1>4, <1>5, <1>6, <1>7, <1>8, <1>9, <1>10, <1>11 DEF Kinds

(* Who is marked as ready stays registered, or is unmarked.                *)
LEMMA ReadyStep ==
    ASSUME Inv, [Next]_vars, Types', LinkInv'
    PROVE  ReadyInv'
<1>0. Types /\ LinkInv /\ ReadyInv /\ Kinds
  BY StepKinds DEF Inv
<1>t. /\ conn \in [Conns -> [id : Ids, state : {"free", "up", "broken", "closed", "gone"}]]
      /\ reg \in [Ids -> Entry] /\ postponed \in [Ids -> Nat] /\ calling \subseteq Conns
      /\ shareNext \in Seq(Ids) /\ copyNext \subseteq Ids
  BY <1>0 DEF Types
<1>r. Range(shareNext) \subseteq Ids
  BY <1>t DEF Range
<1> DEFINE Came(id) == \E c \in Conns : conn[c].state # "free" /\ conn[c].id = id
<1>k. ASSUME Range(shareNext') \subseteq Range(shareNext), copyNext' \subseteq copyNext,
             \A id \in Ids : id \in Range(shareNext') \/ id \in copyNext' => reg'[id].as = reg[id].as,
             \A id \in Ids : Came(id) => Came(id)',
             \A id \in Ids : postponed[id] = 0 => postponed'[id] = 0 \/ Came(id)'
      PROVE  ReadyInv'
  BY <1>0, <1>k, <1>r, <1>t DEF ReadyInv
<1>z. \A id \in Ids : postponed[id] \in Nat
  BY <1>t
<1>1. CASE Quiet
  <2>1. \A id \in Ids : Came(id) => Came(id)'
    BY <1>1 DEF Quiet
  <2> QED
    BY <1>1, <1>k, <2>1 DEF Quiet
<1>2. CASE \E id \in Ids : Served(id)
  <2>1. PICK id \in Ids : Served(id)
    BY <1>2
  <2>2. \A j \in Ids : postponed'[j] <= postponed[j] /\ postponed'[j] \in Nat
    BY <1>0, <2>1, CallFacts DEF Served
  <2>3. \A j \in Ids : postponed[j] = 0 => postponed'[j] = 0
    BY <2>2
  <2>4. \A j \in Ids : reg'[j].as = reg[j].as /\ (Came(j) => Came(j)')
    BY <2>1 DEF Served, SentTo
  <2> QED
    BY <1>k, <2>1, <2>3, <2>4 DEF Served
<1>3. CASE \E S \in SUBSET Ids : Distributed(S)
  <2>1. PICK S \in SUBSET Ids : Distributed(S)
    BY <1>3
  <2>2. \A j \in Ids : reg'[j].as = reg[j].as /\ (Came(j) => Came(j)')
    BY <2>1 DEF Distributed, SentTo
  <2>3. /\ Range(shareNext') \subseteq Range(shareNext) /\ copyNext' \subseteq copyNext
        /\ postponed' = postponed
    BY <2>1 DEF Distributed
  <2> QED
    BY <1>k, <2>2, <2>3
<1>4. ASSUME NEW id \in Ids, hello(id)
      PROVE  ReadyInv'
  <2>1. PICK c \in Conns :
             /\ conn[c].state = "free" /\ conn'[c].id = id /\ conn'[c].state = "up"
             /\ \A d \in Conns : d # c =>
                   /\ conn'[d].id = conn[d].id
                   /\ conn'[d].state = "free" <=> conn[d].state = "free"
             /\ reg'[id].as = setup.distribution[id]
             /\ \A j \in Ids : j # id => reg'[j] = reg[j]
             /\ UNCHANGED <<shareNext, copyNext, postponed>>
    <3> HIDE DEF Came
    <3> QED
      BY <1>0, <1>4, HelloFacts
  <2>2. \A j \in Ids : Came(j) => Came(j)'
    BY <2>1
  <2>3. \A j \in Ids : j \in Range(shareNext) \/ j \in copyNext => reg'[j].as = reg[j].as
    <3>1. id \in Range(shareNext) \/ id \in copyNext => reg[id].as # "none"
      BY <1>0 DEF ReadyInv
    <3>2. reg[id].as # "none" => reg[id].as = setup.distribution[id]
      BY <1>0 DEF LinkInv
    <3> QED
      BY <2>1, <3>1, <3>2
  <2> QED
    BY <1>k, <2>1, <2>2, <2>3
<1>5. ASSUME NEW id \in Ids, availableButGone(id)
      PROVE  ReadyInv'
  <2>1. \A j \in Ids : postponed'[j] <= postponed[j] /\ postponed'[j] \in Nat
    BY <1>0, <1>5, CallFacts DEF availableButGone
  <2>2. \A j \in Ids : postponed[j] = 0 => postponed'[j] = 0
    BY <2>1
  <2>3. UNCHANGED <<reg, conn, shareNext, copyNext>>
    BY <1>5 DEF availableButGone, ready, network
  <2> QED
    BY <1>k, <2>2, <2>3
<1>6. ASSUME NEW id \in Ids, becomeReady(id)
      PROVE  ReadyInv'
  <2>1. \A j \in Ids : postponed'[j] <= postponed[j] /\ postponed'[j] \in Nat
    BY <1>0, <1>6, CallFacts DEF becomeReady, Available
  <2>2. \A j \in Ids : postponed[j] = 0 => postponed'[j] = 0
    BY <2>1
  <2>3. UNCHANGED <<reg, conn>> /\ reg[id].as \in {"shared", "copy"}
    BY <1>6, <1>t DEF becomeReady, Available, network, Entry
  <2>4. /\ copyNext' \subseteq copyNext \cup {id}
        /\ reg[id].as = "shared" => copyNext' = copyNext
        /\ reg[id].as # "shared" => shareNext' = shareNext
        /\ Range(shareNext') \subseteq Range(shareNext) \cup {id}
    <3>1. shareNext' = shareNext \/ shareNext' = Append(shareNext, id)
      BY <1>6 DEF becomeReady, pushShareNext
    <3>2. Range(Append(shareNext, id)) \subseteq Range(shareNext) \cup {id}
      BY <1>t DEF Range
    <3> QED
      BY <1>6, <3>1, <3>2 DEF becomeReady
  <2>5. /\ \A j \in Range(shareNext') : reg'[j].as = "shared"
        /\ \A j \in copyNext' : reg'[j].as = "copy"
    BY <1>0, <2>3, <2>4 DEF ReadyInv
  <2>6. \A j \in Ids : (\A c \in Conns : conn'[c].state # "free" => conn'[c].id # j)
                          => postponed'[j] = 0
    BY <1>0, <2>2, <2>3 DEF ReadyInv
  <2> QED
    BY <2>5, <2>6 DEF ReadyInv
<1>7. ASSUME NEW c \in Conns, readUpdate(c) \/ clientRead(c)
      PROVE  ReadyInv'
  <2>1. UNCHANGED <<reg, conn, postponed, shareNext, copyNext>>
    BY <1>7 DEF readUpdate, clientRead, ready, calls
  <2> QED
    BY <1>k, <2>1
<1>8. ASSUME NEW c \in Conns, breakConn(c)
      PROVE  ReadyInv'
  <2>1. /\ UNCHANGED <<reg, postponed, shareNext, copyNext>>
        /\ \A d \in Conns : /\ conn'[d].id = conn[d].id
                            /\ conn[d].state # "free" => conn'[d].state # "free"
    BY <1>8, <1>t DEF breakConn, ready, calls
  <2>2. \A j \in Ids : Came(j) => Came(j)'
    BY <2>1
  <2> QED
    BY <1>k, <2>1, <2>2
<1>9. ASSUME NEW c \in Conns, onInputGone(c)
      PROVE  ReadyInv'
  <2> DEFINE id == conn[c].id
  <2> HIDE DEF Came
  <2>1. /\ conn'[c].state = "gone" /\ conn'[c].id = id
        /\ \A d \in Conns : d # c => conn'[d] = conn[d]
        /\ postponed' = postponed
        /\ \A j \in Ids : j # id => reg'[j] = reg[j]
        /\ reg[id].tcp = c => id \notin Range(shareNext') /\ id \notin copyNext'
        /\ reg[id].tcp # c => reg' = reg
        /\ Range(shareNext') \subseteq Range(shareNext) /\ copyNext' \subseteq copyNext
    BY <1>0, <1>9, GoneFacts
  <2>2. \A d \in Conns : /\ conn'[d].id = conn[d].id
                         /\ conn[d].state # "free" => conn'[d].state # "free"
    BY <2>1
  <2>3. \A j \in Ids : Came(j) => Came(j)'
    BY <2>2 DEF Came
  <2>4. \A j \in Ids : j \in Range(shareNext') \/ j \in copyNext' => reg'[j].as = reg[j].as
    BY <2>1
  <2> QED
    BY <1>k, <2>1, <2>3, <2>4
<1>10. ASSUME NEW c \in calling, postpone(c)
       PROVE  ReadyInv'
  <2>1. /\ UNCHANGED <<reg, conn, shareNext, copyNext>>
        /\ postponed' = [postponed EXCEPT ![conn[c].id] = @ + 1]
    BY <1>10 DEF postpone, ready, network
  <2>2. c \in Conns /\ conn[c].state # "free"
    BY <1>0, <1>t DEF LinkInv
  <2>3. \A j \in Ids : j # conn[c].id => postponed'[j] = postponed[j]
    BY <1>t, <2>1
  <2> QED
    BY <1>k, <2>1, <2>2, <2>3
<1>11. ASSUME NEW w \in inflight, writeComplete(w)
       PROVE  ReadyInv'
  <2>1. UNCHANGED <<conn, postponed, shareNext, copyNext>>
    BY <1>11 DEF writeComplete, network, calls, ready
  <2>2. \A id \in Ids : reg'[id].as = reg[id].as
    BY <1>11, <1>t DEF writeComplete, resetSendOngoing, Entry
  <2> QED
    BY <1>k, <2>1, <2>2
<1> QED
  BY <1>0, <1>1, <1>2, <1>3, <1>4, <1>5, <1>6, <1>7, <1>8, <1>9, <1>10, <1>11 DEF Kinds


-----------------------------------------------------------------------------
(* The parts of Requests(id)                                               *)
Calls(id) == {d \in calling : conn[d].id = id}

Marks(id) ==
    Cardinality({x \in {"shared", "copy"} :
        id \in IF x = "shared" THEN Range(shareNext) ELSE copyNext})

Arriving(id) == wire[reg[id].tcp] + Len(toClient[reg[id].tcp])

Balanced(id) ==
    reg[id].as # "none" /\ conn[reg[id].tcp].state = "up" =>
        /\ Requests(id) >= 1
        /\ ConnectedOnce(id) => Requests(id) = 1

(* An input is marked at most once.                                        *)
LEMMA MarkFacts ==
    ASSUME NEW A, NEW B, NEW id, ~(id \in A /\ id \in B)
    PROVE  LET marks == Cardinality({x \in {"shared", "copy"} :
                                        id \in IF x = "shared" THEN A ELSE B})
           IN  /\ id \in A \/ id \in B => marks = 1
               /\ ~(id \in A \/ id \in B) => marks = 0
<1> DEFINE X == {x \in {"shared", "copy"} : id \in IF x = "shared" THEN A ELSE B}
<1>1. CASE id \in A
  <2>1. X = {"shared"}
    BY <1>1
  <2> QED
    BY <1>1, <2>1, FS_Singleton
<1>2. CASE id \in B
  <2>1. X = {"copy"}
    BY <1>2
  <2> QED
    BY <1>2, <2>1, FS_Singleton
<1>3. CASE ~(id \in A \/ id \in B)
  <2>1. X = {}
    BY <1>3
  <2> QED
    BY <1>3, <2>1, FS_EmptySet
<1> QED
  BY <1>1, <1>2, <1>3

(* The requests of an input are the sum of their parts.                    *)
LEMMA Parts ==
    ASSUME Types, LinkInv, ReadyInv, NEW id \in Ids
    PROVE  /\ postponed[id] \in Nat
           /\ IsFiniteSet(Calls(id)) /\ Cardinality(Calls(id)) \in Nat
           /\ Ready(id) => Marks(id) = 1
           /\ ~Ready(id) => Marks(id) = 0
           /\ reg[id].as # "none" =>
                 /\ reg[id].tcp \in Conns /\ wire[reg[id].tcp] \in Nat
                 /\ toClient[reg[id].tcp] \in Seq(Nat) /\ Arriving(id) \in Nat
                 /\ Requests(id) = postponed[id] + Cardinality(Calls(id)) + Arriving(id)
                                     + Marks(id)
<1>1. /\ postponed[id] \in Nat /\ calling \subseteq Conns /\ wire \in [Conns -> Nat]
      /\ toClient \in [Conns -> Seq(Nat)] /\ reg \in [Ids -> Entry]
  BY DEF Types
<1>2. IsFiniteSet(Calls(id)) /\ Cardinality(Calls(id)) \in Nat
  <2>1. IsFiniteSet(Conns)
    BY BoundsAssumption, FS_Interval DEF Conns
  <2>2. Calls(id) \subseteq Conns
    BY <1>1 DEF Calls
  <2> QED
    BY <2>1, <2>2, FS_Subset, FS_CardinalityType
<1>3. (Ready(id) => Marks(id) = 1) /\ (~Ready(id) => Marks(id) = 0)
  <2>1. ~(id \in Range(shareNext) /\ id \in copyNext)
    BY DEF ReadyInv
  <2> QED
    BY <2>1, MarkFacts DEF Ready, Marks
<1>4. ASSUME reg[id].as # "none"
      PROVE  /\ reg[id].tcp \in Conns /\ wire[reg[id].tcp] \in Nat
             /\ toClient[reg[id].tcp] \in Seq(Nat) /\ Arriving(id) \in Nat
             /\ Requests(id) = postponed[id] + Cardinality(Calls(id)) + Arriving(id)
                                 + Marks(id)
  <2>1. reg[id].tcp \in Conns
    BY <1>1, <1>4, BoundsAssumption DEF LinkInv, Entry, Conns
  <2>2. /\ wire[reg[id].tcp] \in Nat /\ toClient[reg[id].tcp] \in Seq(Nat)
        /\ Len(toClient[reg[id].tcp]) \in Nat
    BY <1>1, <2>1
  <2>3. Marks(id) \in Nat
    BY <1>3
  <2>4. Requests(id) = postponed[id] + Cardinality(Calls(id)) + wire[reg[id].tcp]
                         + Len(toClient[reg[id].tcp]) + Marks(id)
    BY DEF Requests, Calls, Marks
  <2> HIDE DEF Calls, Marks
  <2> QED
    BY <1>1, <1>2, <2>1, <2>2, <2>3, <2>4 DEF Arriving
<1> QED
  BY <1>1, <1>2, <1>3, <1>4

(* ... also after the step.                                                *)
LEMMA PartsNext ==
    ASSUME Types', LinkInv', ReadyInv', NEW id \in Ids
    PROVE  /\ postponed'[id] \in Nat
           /\ IsFiniteSet(Calls(id)') /\ Cardinality(Calls(id)') \in Nat
           /\ Ready(id)' => Marks(id)' = 1
           /\ ~Ready(id)' => Marks(id)' = 0
           /\ reg'[id].as # "none" =>
                 /\ reg'[id].tcp \in Conns /\ wire'[reg'[id].tcp] \in Nat
                 /\ toClient'[reg'[id].tcp] \in Seq(Nat) /\ Arriving(id)' \in Nat
                 /\ Requests(id)' = postponed'[id] + Cardinality(Calls(id)') + Arriving(id)'
                                      + Marks(id)'
<1>1. /\ postponed'[id] \in Nat /\ calling' \subseteq Conns /\ wire' \in [Conns -> Nat]
      /\ toClient' \in [Conns -> Seq(Nat)] /\ reg' \in [Ids -> Entry]
  BY DEF Types
<1>2. IsFiniteSet(Calls(id)') /\ Cardinality(Calls(id)') \in Nat
  <2>1. IsFiniteSet(Conns)
    BY BoundsAssumption, FS_Interval DEF Conns
  <2>2. Calls(id)' \subseteq Conns
    BY <1>1 DEF Calls
  <2> QED
    BY <2>1, <2>2, FS_Subset, FS_CardinalityType
<1>3. (Ready(id)' => Marks(id)' = 1) /\ (~Ready(id)' => Marks(id)' = 0)
  <2>1. ~(id \in Range(shareNext') /\ id \in copyNext')
    BY DEF ReadyInv
  <2> QED
    BY <2>1, MarkFacts DEF Ready, Marks
<1>4. ASSUME reg'[id].as # "none"
      PROVE  /\ reg'[id].tcp \in Conns /\ wire'[reg'[id].tcp] \in Nat
             /\ toClient'[reg'[id].tcp] \in Seq(Nat) /\ Arriving(id)' \in Nat
             /\ Requests(id)' = postponed'[id] + Cardinality(Calls(id)') + Arriving(id)'
                                  + Marks(id)'
  <2>1. reg'[id].tcp \in Conns
    BY <1>1, <1>4, BoundsAssumption DEF LinkInv, Entry, Conns
  <2>2. /\ wire'[reg'[id].tcp] \in Nat /\ toClient'[reg'[id].tcp] \in Seq(Nat)
        /\ Len(toClient'[reg'[id].tcp]) \in Nat
    BY <1>1, <2>1
  <2>3. Marks(id)' \in Nat
    BY <1>3
  <2>4. Requests(id)' = postponed'[id] + Cardinality(Calls(id)') + wire'[reg'[id].tcp]
                          + Len(toClient'[reg'[id].tcp]) + Marks(id)'
    BY DEF Requests, Calls, Marks
  <2> HIDE DEF Calls, Marks
  <2> QED
    BY <1>1, <1>2, <2>1, <2>2, <2>3, <2>4 DEF Arriving
<1> QED
  BY <1>1, <1>2, <1>3, <1>4

(* A call that is served is one call less, for its input only.             *)
LEMMA CallCount ==
    ASSUME Types, LinkInv, ReadyInv, NEW id \in Ids, CallOf(id), conn' = conn
    PROVE  /\ postponed[id] + Cardinality(Calls(id)) =
                 postponed'[id] + Cardinality(Calls(id)') + 1
           /\ \A j \in Ids : j # id => postponed'[j] = postponed[j] /\ Calls(j)' = Calls(j)
<1>1. /\ postponed \in [Ids -> Nat] /\ postponed[id] \in Nat
      /\ IsFiniteSet(Calls(id)) /\ Cardinality(Calls(id)) \in Nat
  BY Parts DEF Types
<1>2. CASE \E c \in calling : /\ conn[c].id = id
                              /\ calling' = calling \ {c}
                              /\ UNCHANGED postponed
  <2>1. PICK c \in calling : conn[c].id = id /\ calling' = calling \ {c} /\ UNCHANGED postponed
    BY <1>2
  <2>2. Calls(id)' = Calls(id) \ {c} /\ c \in Calls(id)
    BY <2>1 DEF Calls
  <2>3. \A j \in Ids : j # id => Calls(j)' = Calls(j)
    BY <2>1 DEF Calls
  <2>4. Cardinality(Calls(id)') = Cardinality(Calls(id)) - 1
    BY <1>1, <2>2, FS_RemoveElement
  <2> QED
    BY <1>1, <2>1, <2>3, <2>4
<1>3. CASE /\ postponed[id] > 0
           /\ postponed' = [postponed EXCEPT ![id] = @ - 1]
           /\ UNCHANGED calling
  <2>1. \A j \in Ids : Calls(j)' = Calls(j)
    BY <1>3 DEF Calls
  <2>2. postponed'[id] = postponed[id] - 1 /\ \A j \in Ids : j # id => postponed'[j] = postponed[j]
    BY <1>1, <1>3
  <2> QED
    BY <1>1, <2>1, <2>2
<1> QED
  BY <1>2, <1>3 DEF CallOf

(* A connection that was made stays that of its input for ever.            *)
LEMMA ConnectionsStay ==
    ASSUME Inv, Kinds
    PROVE  /\ \A c \in Conns : conn[c].state # "free" =>
                  conn'[c].state # "free" /\ conn'[c].id = conn[c].id
           /\ \A id \in Ids : ConnectedOnce(id)' => ConnectedOnce(id)
<1>0. Types /\ LinkInv
      /\ conn \in [Conns -> [id : Ids, state : {"free", "up", "broken", "closed", "gone"}]]
  BY DEF Inv, Types
<1>1. \A c \in Conns : conn[c].state # "free" =>
          conn'[c].state # "free" /\ conn'[c].id = conn[c].id
  <2>1. CASE conn' = conn
    BY <2>1
  <2>2. ASSUME NEW id \in Ids, hello(id)
        PROVE  \A c \in Conns : conn[c].state # "free" =>
                  conn'[c].state # "free" /\ conn'[c].id = conn[c].id
    BY <1>0, <2>2, HelloFacts
  <2>3. ASSUME NEW c \in Conns, breakConn(c)
        PROVE  \A d \in Conns : conn[d].state # "free" =>
                  conn'[d].state # "free" /\ conn'[d].id = conn[d].id
    BY <1>0, <2>3 DEF breakConn
  <2>4. ASSUME NEW c \in Conns, onInputGone(c)
        PROVE  \A d \in Conns : conn[d].state # "free" =>
                  conn'[d].state # "free" /\ conn'[d].id = conn[d].id
    BY <1>0, <2>4 DEF onInputGone
  <2>5. \/ conn' = conn
        \/ \E id \in Ids : hello(id)
        \/ \E c \in Conns : breakConn(c) \/ onInputGone(c)
    BY DEF Kinds, Quiet, Served, Distributed, SentTo, availableButGone, becomeReady,
           readUpdate, clientRead, postpone, writeComplete, network
  <2> QED
    BY <2>1, <2>2, <2>3, <2>4, <2>5
<1>2. \A id \in Ids : ConnectedOnce(id)' => ConnectedOnce(id)
  BY <1>1 DEF ConnectedOnce
<1> QED
  BY <1>1, <1>2


Credit(id) == postponed[id] + Cardinality(Calls(id)) + Arriving(id) + Marks(id)

(* Each step moves the request of an input on; none gets lost, and none is *)
(* made twice.                                                             *)
LEMMA BalanceStep ==
    ASSUME Inv, [Next]_vars, Types', LinkInv', ReadyInv'
    PROVE  RequestBalance'
<1>0. Types /\ LinkInv /\ ReadyInv /\ Kinds
  BY StepKinds DEF Inv
<1>t. /\ conn \in [Conns -> [id : Ids, state : {"free", "up", "broken", "closed", "gone"}]]
      /\ reg \in [Ids -> Entry] /\ postponed \in [Ids -> Nat] /\ calling \subseteq Conns
      /\ toClient \in [Conns -> Seq(Nat)] /\ wire \in [Conns -> Nat]
      /\ shareNext \in Seq(Ids)
  BY <1>0 DEF Types
<1>b. \A id \in Ids : Balanced(id)
  BY DEF Inv, RequestBalance, Balanced
<1>s. SUFFICES ASSUME NEW id \in Ids, reg'[id].as # "none", conn'[reg'[id].tcp].state = "up"
               PROVE  Balanced(id)'
  BY DEF RequestBalance, Balanced
<1>p. /\ postponed[id] \in Nat /\ IsFiniteSet(Calls(id)) /\ Cardinality(Calls(id)) \in Nat
      /\ Ready(id) => Marks(id) = 1
      /\ ~Ready(id) => Marks(id) = 0
      /\ reg[id].as # "none" =>
            /\ reg[id].tcp \in Conns /\ wire[reg[id].tcp] \in Nat
            /\ toClient[reg[id].tcp] \in Seq(Nat) /\ Arriving(id) \in Nat
            /\ Requests(id) = Credit(id)
  BY <1>0, Parts DEF Credit
<1>q. /\ postponed'[id] \in Nat /\ IsFiniteSet(Calls(id)') /\ Cardinality(Calls(id)') \in Nat
      /\ Ready(id)' => Marks(id)' = 1
      /\ ~Ready(id)' => Marks(id)' = 0
      /\ reg'[id].tcp \in Conns /\ wire'[reg'[id].tcp] \in Nat
      /\ toClient'[reg'[id].tcp] \in Seq(Nat) /\ Arriving(id)' \in Nat
      /\ Requests(id)' = Credit(id)'
  BY <1>s, PartsNext DEF Credit
<1>n. /\ postponed[id] \in Nat /\ Cardinality(Calls(id)) \in Nat /\ Marks(id) \in Nat
      /\ reg[id].as # "none" => Arriving(id) \in Nat
      /\ postponed'[id] \in Nat /\ Cardinality(Calls(id)') \in Nat /\ Marks(id)' \in Nat
      /\ Arriving(id)' \in Nat
  BY <1>p, <1>q
<1>e. /\ Credit(id) = postponed[id] + Cardinality(Calls(id)) + Arriving(id) + Marks(id)
      /\ Credit(id)' = postponed'[id] + Cardinality(Calls(id)') + Arriving(id)' + Marks(id)'
  BY DEF Credit
<1>k. ASSUME reg[id].as # "none", conn[reg[id].tcp].state = "up", Credit(id)' = Credit(id)
      PROVE  Balanced(id)'
  <2>1. ConnectedOnce(id)' => ConnectedOnce(id)
    BY <1>0, ConnectionsStay
  <2>2. Requests(id) >= 1 /\ (ConnectedOnce(id) => Requests(id) = 1)
    BY <1>b, <1>k DEF Balanced
  <2> QED
    BY <1>k, <1>p, <1>q, <2>1, <2>2 DEF Balanced
<1>1. CASE Quiet
  <2>1. /\ reg'[id].as = reg[id].as /\ reg'[id].tcp = reg[id].tcp
        /\ UNCHANGED <<conn, wire, toClient, calling, postponed, shareNext, copyNext>>
    BY <1>1 DEF Quiet
  <2>2. Credit(id)' = Credit(id)
    BY <2>1 DEF Credit, Calls, Marks, Arriving
  <2> QED
    BY <1>k, <1>s, <2>1, <2>2
<1>2. ASSUME NEW S \in SUBSET Ids, SentTo(S),
             postponed'[id] + Cardinality(Calls(id)') + Marks(id)' + (IF id \in S THEN 1 ELSE 0)
               = postponed[id] + Cardinality(Calls(id)) + Marks(id)
      PROVE  Balanced(id)'
  <2>1. /\ reg'[id].as = reg[id].as /\ reg'[id].tcp = reg[id].tcp /\ conn' = conn /\ wire' = wire
        /\ id \in S /\ conn[reg[id].tcp].state = "up"
              => Len(toClient'[reg[id].tcp]) = Len(toClient[reg[id].tcp]) + 1
        /\ id \notin S /\ reg[id].tcp # 0
              => toClient'[reg[id].tcp] = toClient[reg[id].tcp]
    BY <1>2 DEF SentTo
  <2>2. /\ reg[id].as # "none" /\ conn[reg[id].tcp].state = "up" /\ reg[id].tcp # 0
    BY <1>0, <1>s, <2>1 DEF LinkInv
  <2>3. Len(toClient[reg[id].tcp]) \in Nat /\ wire[reg[id].tcp] \in Nat
    BY <1>p, <2>2
  <2>4. Arriving(id)' = Arriving(id) + (IF id \in S THEN 1 ELSE 0)
    <3>1. CASE id \in S
      BY <2>1, <2>2, <2>3, <3>1 DEF Arriving
    <3>2. CASE id \notin S
      BY <1>p, <2>1, <2>2, <3>2 DEF Arriving
    <3> QED
      BY <3>1, <3>2
  <2>6. Credit(id)' = Credit(id)
    <3>1. CASE id \in S
      BY <1>2, <1>n, <1>e, <2>2, <2>4, <3>1
    <3>2. CASE id \notin S
      BY <1>2, <1>n, <1>e, <2>2, <2>4, <3>2
    <3> QED
      BY <3>1, <3>2
  <2> QED
    BY <1>k, <2>2, <2>6
<1>3. ASSUME NEW j \in Ids, Served(j)
      PROVE  Balanced(id)'
  <2>1. CallOf(j) /\ SentTo({j}) /\ conn' = conn /\ UNCHANGED <<shareNext, copyNext>>
    BY <1>3 DEF Served, SentTo
  <2>2. /\ postponed[j] + Cardinality(Calls(j)) = postponed'[j] + Cardinality(Calls(j)') + 1
        /\ j # id => postponed'[id] = postponed[id] /\ Calls(id)' = Calls(id)
    BY <1>0, <2>1, CallCount
  <2>3. Marks(id)' = Marks(id) /\ Marks(id) \in Nat
    BY <1>p, <2>1 DEF Marks
  <2>4. postponed'[id] + Cardinality(Calls(id)') + Marks(id)' + (IF id \in {j} THEN 1 ELSE 0)
          = postponed[id] + Cardinality(Calls(id)) + Marks(id)
    <3>1. CASE j = id
      BY <1>p, <1>q, <2>2, <2>3, <3>1
    <3>2. CASE j # id
      BY <1>p, <1>q, <2>2, <2>3, <3>2
    <3> QED
      BY <3>1, <3>2
  <2> QED
    BY <1>2, <2>1, <2>4
<1>4. ASSUME NEW S \in SUBSET Ids, Distributed(S)
      PROVE  Balanced(id)'
  <2>1. /\ SentTo(S) /\ UNCHANGED <<calling, postponed>> /\ conn' = conn
        /\ Range(shareNext') = Range(shareNext) \ S /\ copyNext' = copyNext \ S
        /\ id \in S => Ready(id)
    BY <1>4 DEF Distributed, SentTo
  <2>2. Calls(id)' = Calls(id) /\ postponed'[id] = postponed[id]
    BY <2>1 DEF Calls
  <2>3. CASE id \in S
    <3>1. Ready(id) /\ ~Ready(id)'
      BY <2>1, <2>3 DEF Ready
    <3>2. Marks(id) = 1 /\ Marks(id)' = 0
      BY <1>p, <1>q, <3>1
    <3>3. postponed'[id] + Cardinality(Calls(id)') + Marks(id)' + (IF id \in S THEN 1 ELSE 0)
            = postponed[id] + Cardinality(Calls(id)) + Marks(id)
      BY <1>p, <1>q, <2>2, <2>3, <3>2
    <3> QED
      BY <1>2, <2>1, <3>3
  <2>4. CASE id \notin S
    <3>1. Ready(id)' <=> Ready(id)
      BY <2>1, <2>4 DEF Ready
    <3>2. Marks(id)' = Marks(id) /\ Marks(id) \in Nat
      BY <1>p, <1>q, <3>1
    <3>3. postponed'[id] + Cardinality(Calls(id)') + Marks(id)' + (IF id \in S THEN 1 ELSE 0)
            = postponed[id] + Cardinality(Calls(id)) + Marks(id)
      BY <1>p, <1>q, <2>2, <2>4, <3>2
    <3> QED
      BY <1>2, <2>1, <3>3
  <2> QED
    BY <2>3, <2>4
<1>5. ASSUME NEW j \in Ids, hello(j)
      PROVE  Balanced(id)'
  <2>1. PICK c \in Conns :
             /\ conn[c].state = "free" /\ conn'[c].id = j /\ conn'[c].state = "up"
             /\ \A d \in Conns : d # c =>
                   /\ conn'[d].id = conn[d].id
                   /\ conn'[d].state = "free" <=> conn[d].state = "free"
                   /\ d = reg[j].tcp => /\ conn'[d].state = "closed"
                   /\ d # reg[j].tcp =>
                         /\ conn'[d].state = conn[d].state
                         /\ wire'[d] = wire[d] /\ toClient'[d] = toClient[d]
             /\ wire'[c] = 0 /\ toClient'[c] = <<>>
             /\ reg'[j].as = setup.distribution[j] /\ reg'[j].as # "none"
             /\ reg'[j].tcp = c /\ c # reg[j].tcp
             /\ \A i \in Ids : i # j => reg'[i] = reg[i]
             /\ calling' = calling \cup {c} /\ c \notin calling
             /\ UNCHANGED <<setup, shareNext, copyNext, postponed, inflight>>
    BY <1>0, <1>5, HelloFacts
  <2>2. /\ j = id => Calls(id)' = Calls(id) \cup {c} /\ c \notin Calls(id)
        /\ j # id => Calls(id)' = Calls(id)
    BY <1>t, <2>1 DEF Calls
  <2>3. Marks(id)' = Marks(id) /\ Marks(id) \in Nat
    BY <1>p, <2>1 DEF Marks
  <2>4. CASE j # id
    <3>1. reg'[id] = reg[id] /\ reg[id].as # "none"
      BY <1>s, <2>1, <2>4
    <3>2. reg[id].tcp \in Conns /\ reg[id].tcp # c /\ reg[id].tcp # reg[j].tcp
          /\ conn[reg[id].tcp].state = "up"
      BY <1>0, <1>p, <1>s, <2>1, <2>4, <3>1 DEF LinkInv
    <3>3. Arriving(id)' = Arriving(id)
      BY <2>1, <3>1, <3>2 DEF Arriving
    <3>4. Credit(id)' = Credit(id)
      BY <2>1, <2>2, <2>3, <2>4, <3>3 DEF Credit
    <3> QED
      BY <1>k, <3>1, <3>2, <3>4
  <2>5. CASE j = id
    <3>1. Cardinality(Calls(id)') = Cardinality(Calls(id)) + 1
      BY <1>p, <2>2, <2>5, FS_AddElement
    <3>2. Arriving(id)' = 0
      <4>1. reg'[id].tcp = c /\ Len(<<>>) = 0
        BY <2>1, <2>5
      <4> QED
        BY <2>1, <4>1 DEF Arriving
    <3>3. Credit(id)' = postponed[id] + Cardinality(Calls(id)) + 1 + Marks(id)
      <4>1. postponed'[id] = postponed[id]
        BY <2>1
      <4> QED
        BY <1>n, <1>e, <2>3, <3>1, <3>2, <4>1
    <3>4. ASSUME ConnectedOnce(id)' PROVE Credit(id)' = 1
      <4>1. \A d \in Conns : conn[d].state # "free" => conn[d].id # id
        <5>1. ASSUME NEW d \in Conns, conn[d].state # "free", conn[d].id = id PROVE FALSE
          <6>1. d # c /\ conn'[d].state # "free" /\ conn'[d].id = id
            BY <2>1, <5>1
          <6>2. conn'[c].state # "free" /\ conn'[c].id = id
            BY <2>1, <2>5
          <6> QED
            BY <3>4, <6>1, <6>2 DEF ConnectedOnce
        <5> QED
          BY <5>1
      <4>2. postponed[id] = 0
        BY <1>0, <4>1 DEF ReadyInv
      <4>3. Calls(id) = {}
        BY <1>0, <1>t, <4>1 DEF Calls, LinkInv
      <4>4. Cardinality(Calls(id)) = 0
        BY <4>3, FS_EmptySet
      <4>5. reg[id].as = "none"
        BY <1>0, <1>p, <4>1 DEF LinkInv
      <4>6. ~Ready(id)
        BY <1>0, <4>5 DEF Ready, ReadyInv
      <4>7. Marks(id) = 0
        BY <1>p, <4>6
      <4> QED
        BY <3>3, <4>2, <4>4, <4>7
    <3>5. Credit(id)' >= 1
      BY <1>p, <2>3, <3>3
    <3> QED
      BY <1>q, <3>4, <3>5 DEF Balanced
  <2> QED
    BY <2>4, <2>5
<1>6. ASSUME NEW j \in Ids, availableButGone(j)
      PROVE  Balanced(id)'
  <2>1. CallOf(j) /\ reg[j].as = "none"
        /\ UNCHANGED <<reg, conn, wire, toClient, shareNext, copyNext>>
    BY <1>6 DEF availableButGone, network, ready
  <2>2. j # id
    BY <1>s, <2>1
  <2>3. postponed'[id] = postponed[id] /\ Calls(id)' = Calls(id)
    BY <1>0, <2>1, <2>2, CallCount
  <2>4. Arriving(id)' = Arriving(id) /\ Marks(id)' = Marks(id)
    BY <2>1 DEF Arriving, Marks
  <2>5. Credit(id)' = Credit(id)
    BY <2>3, <2>4 DEF Credit
  <2> QED
    BY <1>k, <1>s, <2>1, <2>5
<1>7. ASSUME NEW j \in Ids, becomeReady(j)
      PROVE  Balanced(id)'
  <2>1. CallOf(j) /\ reg[j].as # "none" /\ UNCHANGED <<reg, conn, wire, toClient>>
    BY <1>7 DEF becomeReady, Available, network
  <2>2. /\ postponed[j] + Cardinality(Calls(j)) = postponed'[j] + Cardinality(Calls(j)') + 1
        /\ j # id => postponed'[id] = postponed[id] /\ Calls(id)' = Calls(id)
    BY <1>0, <2>1, CallCount
  <2>3. Arriving(id)' = Arriving(id) /\ reg[id].as # "none"
        /\ conn[reg[id].tcp].state = "up"
    BY <1>s, <2>1 DEF Arriving
  <2>4. /\ j # id => (Ready(id)' <=> Ready(id))
        /\ Ready(j)'
    <3>1. CASE reg[j].as = "shared"
      <4>1. shareNext' = pushShareNext(j) /\ copyNext' = copyNext
        BY <1>7, <3>1 DEF becomeReady
      <4>2. Range(shareNext') = Range(shareNext) \cup {j}
        <5>1. CASE j \in Range(shareNext)
          BY <4>1, <5>1 DEF pushShareNext
        <5>2. CASE j \notin Range(shareNext)
          <6>1. shareNext' = Append(shareNext, j)
            BY <4>1, <5>2 DEF pushShareNext
          <6>2. /\ DOMAIN shareNext' = 1..(Len(shareNext) + 1) /\ Len(shareNext) \in Nat
                /\ DOMAIN shareNext = 1..Len(shareNext)
                /\ shareNext'[Len(shareNext) + 1] = j
                /\ \A i \in 1..Len(shareNext) : shareNext'[i] = shareNext[i]
            BY <1>t, <6>1
          <6>3. DOMAIN shareNext' = DOMAIN shareNext \cup {Len(shareNext) + 1}
            BY <6>2
          <6> QED
            BY <6>2, <6>3 DEF Range
        <5> QED
          BY <5>1, <5>2
      <4> QED
        BY <4>1, <4>2 DEF Ready
    <3>2. CASE reg[j].as # "shared"
      BY <1>7, <3>2 DEF becomeReady, Ready
    <3> QED
      BY <3>1, <3>2
  <2>5. CASE j # id
    <3>1. Marks(id)' = Marks(id)
      BY <1>p, <1>q, <2>4, <2>5
    <3>2. Credit(id)' = Credit(id)
      BY <2>2, <2>3, <2>5, <3>1 DEF Credit
    <3> QED
      BY <1>k, <2>3, <3>2
  <2>6. CASE j = id
    <3>1. Marks(id)' = 1
      BY <1>q, <2>4, <2>6
    <3>2. CASE ~Ready(id)
      <4>1. Marks(id) = 0
        BY <1>p, <3>2
      <4>2. Credit(id)' = Credit(id)
        BY <1>n, <1>e, <2>2, <2>3, <2>6, <3>1, <4>1
      <4> QED
        BY <1>k, <2>3, <4>2
    <3>3. CASE Ready(id)
      <4>1. Marks(id) = 1
        BY <1>p, <3>3
      <4>2. Credit(id) = Credit(id)' + 1 /\ Credit(id) >= 2 /\ Credit(id)' \in Nat
        BY <1>n, <1>e, <2>2, <2>3, <2>6, <3>1, <4>1
      <4>3. ~ConnectedOnce(id)
        BY <1>b, <1>p, <2>3, <4>2 DEF Balanced
      <4>4. ~ConnectedOnce(id)'
        BY <1>0, <4>3, ConnectionsStay
      <4> QED
        BY <1>p, <1>q, <2>3, <4>2, <4>4 DEF Balanced
    <3> QED
      BY <3>2, <3>3
  <2> QED
    BY <2>5, <2>6
<1>8. ASSUME NEW c \in Conns, readUpdate(c)
      PROVE  Balanced(id)'
  <2>1. /\ conn[c].state = "up" /\ wire[c] > 0 /\ c \notin calling
        /\ wire' = [wire EXCEPT ![c] = @ - 1] /\ calling' = calling \cup {c}
        /\ UNCHANGED <<reg, conn, toClient, postponed, shareNext, copyNext>>
    BY <1>8 DEF readUpdate, ready
  <2>2. Marks(id)' = Marks(id) /\ Marks(id) \in Nat /\ reg[id].as # "none"
        /\ conn[reg[id].tcp].state = "up"
    BY <1>p, <1>s, <2>1 DEF Marks
  <2>3. reg[id].tcp = c <=> conn[c].id = id
    BY <1>0, <2>1, <2>2 DEF LinkInv
  <2>4. CASE conn[c].id = id
    <3>1. Calls(id)' = Calls(id) \cup {c} /\ c \notin Calls(id)
      BY <2>1, <2>4 DEF Calls
    <3>2. Cardinality(Calls(id)') = Cardinality(Calls(id)) + 1
      BY <1>p, <3>1, FS_AddElement
    <3>3. wire'[c] = wire[c] - 1 /\ wire[c] \in Nat /\ toClient[c] \in Seq(Nat)
      BY <1>t, <2>1
    <3>4. Arriving(id)' = Arriving(id) - 1
      BY <2>1, <2>3, <2>4, <3>3 DEF Arriving
    <3>5. Credit(id)' = Credit(id)
      <4>1. postponed'[id] = postponed[id]
        BY <2>1
      <4> QED
        BY <1>n, <1>e, <2>2, <3>2, <3>4, <4>1
    <3> QED
      BY <1>k, <2>2, <3>5
  <2>5. CASE conn[c].id # id
    <3>1. Calls(id)' = Calls(id)
      BY <2>1, <2>5 DEF Calls
    <3>2. Arriving(id)' = Arriving(id)
      BY <1>p, <1>t, <2>1, <2>2, <2>3, <2>5 DEF Arriving
    <3>3. Credit(id)' = Credit(id)
      BY <2>1, <2>2, <3>1, <3>2 DEF Credit
    <3> QED
      BY <1>k, <2>2, <3>3
  <2> QED
    BY <2>4, <2>5
<1>9. ASSUME NEW c \in Conns, clientRead(c)
      PROVE  Balanced(id)'
  <2>1. /\ conn[c].state = "up" /\ toClient[c] # <<>>
        /\ wire' = [wire EXCEPT ![c] = @ + 1] /\ toClient' = [toClient EXCEPT ![c] = Tail(@)]
        /\ UNCHANGED <<reg, conn, calling, postponed, shareNext, copyNext>>
    BY <1>9 DEF clientRead, ready, calls
  <2>2. Marks(id)' = Marks(id) /\ Calls(id)' = Calls(id) /\ reg[id].as # "none"
        /\ conn[reg[id].tcp].state = "up"
    BY <1>s, <2>1 DEF Marks, Calls
  <2>3. Arriving(id)' = Arriving(id)
    <3>1. CASE reg[id].tcp = c
      <4>1. wire'[c] = wire[c] + 1 /\ wire[c] \in Nat /\ toClient'[c] = Tail(toClient[c])
        BY <1>t, <2>1
      <4>2. toClient[c] \in Seq(Nat) /\ toClient[c] # <<>>
        BY <1>t, <2>1
      <4>3. Len(Tail(toClient[c])) = Len(toClient[c]) - 1 /\ Len(toClient[c]) \in Nat
        BY <4>2
      <4>4. /\ Arriving(id) = wire[c] + Len(toClient[c])
            /\ Arriving(id)' = wire'[c] + Len(toClient'[c])
        BY <2>1, <3>1 DEF Arriving
      <4> QED
        BY <4>1, <4>3, <4>4
    <3>2. CASE reg[id].tcp # c
      BY <1>p, <1>t, <2>1, <2>2, <3>2 DEF Arriving
    <3> QED
      BY <3>1, <3>2
  <2>4. Credit(id)' = Credit(id)
    BY <2>1, <2>2, <2>3 DEF Credit
  <2> QED
    BY <1>k, <2>2, <2>4
<1>10. ASSUME NEW c \in Conns, breakConn(c)
       PROVE  Balanced(id)'
  <2>1. /\ UNCHANGED <<reg, calling, postponed, shareNext, copyNext>>
        /\ conn'[c].state = "broken"
        /\ \A d \in Conns : conn'[d].id = conn[d].id
        /\ \A d \in Conns : d # c => /\ conn'[d] = conn[d] /\ wire'[d] = wire[d]
                                     /\ toClient'[d] = toClient[d]
    BY <1>10, <1>t DEF breakConn, ready, calls
  <2>2. reg[id].as # "none" /\ reg[id].tcp \in Conns /\ reg[id].tcp # c
        /\ conn[reg[id].tcp].state = "up"
    BY <1>p, <1>s, <2>1
  <2>3. Arriving(id)' = Arriving(id) /\ Marks(id)' = Marks(id)
    BY <2>1, <2>2 DEF Arriving, Marks
  <2>4. Calls(id)' = Calls(id)
    BY <1>t, <2>1 DEF Calls
  <2>5. Credit(id)' = Credit(id)
    BY <2>1, <2>3, <2>4 DEF Credit
  <2> QED
    BY <1>k, <2>2, <2>5
<1>11. ASSUME NEW c \in Conns, onInputGone(c)
       PROVE  Balanced(id)'
  <2>1. /\ conn'[c].state = "gone" /\ conn'[c].id = conn[c].id
        /\ \A d \in Conns : d # c => conn'[d] = conn[d]
        /\ UNCHANGED <<calling, postponed, wire, toClient>>
        /\ \A j \in Ids : j # conn[c].id =>
              /\ reg'[j] = reg[j]
              /\ j \in Range(shareNext') <=> j \in Range(shareNext)
              /\ j \in copyNext' <=> j \in copyNext
        /\ reg[conn[c].id].tcp = c => reg'[conn[c].id] = Nobody
        /\ reg[conn[c].id].tcp # c => UNCHANGED <<reg, shareNext, copyNext>>
    BY <1>0, <1>11, GoneFacts
  <2>2. reg'[id] = reg[id] /\ (Ready(id)' <=> Ready(id))
    <3>1. CASE id # conn[c].id
      BY <2>1, <3>1 DEF Ready
    <3>2. CASE id = conn[c].id /\ reg[id].tcp # c
      BY <2>1, <3>2 DEF Ready
    <3>3. CASE id = conn[c].id /\ reg[id].tcp = c
      BY <1>s, <2>1, <3>3 DEF Nobody
    <3> QED
      BY <3>1, <3>2, <3>3
  <2>3. reg[id].as # "none" /\ reg[id].tcp \in Conns /\ reg[id].tcp # c
        /\ conn[reg[id].tcp].state = "up"
    BY <1>p, <1>s, <2>1, <2>2
  <2>4. Marks(id)' = Marks(id)
    BY <1>p, <1>q, <2>2
  <2>5. Arriving(id)' = Arriving(id)
    BY <2>1, <2>2 DEF Arriving
  <2>6. Calls(id)' = Calls(id)
    BY <1>t, <2>1 DEF Calls
  <2>7. Credit(id)' = Credit(id)
    BY <2>1, <2>4, <2>5, <2>6 DEF Credit
  <2> QED
    BY <1>k, <2>3, <2>7
<1>12. ASSUME NEW c \in calling, postpone(c)
       PROVE  Balanced(id)'
  <2>1. /\ calling' = calling \ {c}
        /\ postponed' = [postponed EXCEPT ![conn[c].id] = @ + 1]
        /\ UNCHANGED <<reg, conn, wire, toClient, shareNext, copyNext>>
    BY <1>12 DEF postpone, ready, network
  <2>2. Marks(id)' = Marks(id) /\ Marks(id) \in Nat /\ Arriving(id)' = Arriving(id)
        /\ reg[id].as # "none" /\ conn[reg[id].tcp].state = "up"
    BY <1>p, <1>s, <2>1 DEF Marks, Arriving
  <2>3. CASE conn[c].id = id
    <3>1. Calls(id)' = Calls(id) \ {c} /\ c \in Calls(id)
      BY <2>1, <2>3 DEF Calls
    <3>2. Cardinality(Calls(id)') = Cardinality(Calls(id)) - 1
      BY <1>p, <3>1, FS_RemoveElement
    <3>3. postponed'[id] = postponed[id] + 1
      BY <1>t, <2>1, <2>3
    <3>4. Credit(id)' = Credit(id)
      BY <1>n, <1>e, <2>2, <3>2, <3>3
    <3> QED
      BY <1>k, <2>2, <3>4
  <2>4. CASE conn[c].id # id
    <3>1. Calls(id)' = Calls(id) /\ postponed'[id] = postponed[id]
      BY <1>t, <2>1, <2>4 DEF Calls
    <3>2. Credit(id)' = Credit(id)
      BY <2>2, <3>1 DEF Credit
    <3> QED
      BY <1>k, <2>2, <3>2
  <2> QED
    BY <2>3, <2>4
<1>13. ASSUME NEW w \in inflight, writeComplete(w)
       PROVE  Balanced(id)'
  <2>1. UNCHANGED <<conn, wire, toClient, calling, postponed, shareNext, copyNext>>
    BY <1>13 DEF writeComplete, network, calls, ready
  <2>2. reg'[id].as = reg[id].as /\ reg'[id].tcp = reg[id].tcp
    BY <1>13, <1>t DEF writeComplete, resetSendOngoing, Entry
  <2>3. Credit(id)' = Credit(id)
    BY <2>1, <2>2 DEF Credit, Calls, Marks, Arriving
  <2> QED
    BY <1>k, <1>s, <2>1, <2>2, <2>3
<1> QED
  BY <1>0, <1>1, <1>3, <1>4, <1>5, <1>6, <1>7, <1>8, <1>9, <1>10, <1>11, <1>12, <1>13
  DEF Kinds


(* No write is started for an input while another one is going on, as long *)
(* as its id connected only once.                                          *)
LEMMA WriteStep ==
    ASSUME Inv, [Next]_vars, Types', LinkInv', ReadyInv', RequestBalance'
    PROVE  WriteInv'
<1>0. Types /\ LinkInv /\ ReadyInv /\ WriteInv /\ Kinds
  BY StepKinds DEF Inv
<1>t. /\ conn \in [Conns -> [id : Ids, state : {"free", "up", "broken", "closed", "gone"}]]
      /\ reg \in [Ids -> Entry]
      /\ inflight \subseteq [tcp : Conns, id : Ids, chunk : Chunks, msg : Nat,
                             awaited : BOOLEAN]
  BY <1>0 DEF Types
<1>w. \A w \in inflight : w.tcp \in Conns /\ w.id \in Ids
  BY <1>t
<1>c. /\ \A c \in Conns : conn[c].state # "free" =>
             conn'[c].state # "free" /\ conn'[c].id = conn[c].id
      /\ \A id \in Ids : ConnectedOnce(id)' => ConnectedOnce(id)
  BY <1>0, ConnectionsStay
<1>r. \A id \in Ids : reg[id].as # "none" =>
        /\ reg[id].tcp \in Conns /\ conn[reg[id].tcp].state # "free"
        /\ conn[reg[id].tcp].id = id
  BY <1>0, <1>t, BoundsAssumption DEF LinkInv, Entry, Conns
<1>y. \A id \in Ids : Ready(id) => reg[id].as # "none"
  BY <1>0 DEF Ready, ReadyInv
<1> DEFINE Goal(id) ==
        \A w \in inflight' : w.id = id =>
            /\ reg'[id].sending
            /\ ~Ready(id)'
            /\ \A v \in inflight' : v.id = id => v = w
<1>1. \A w \in inflight' : conn'[w.tcp].state # "free" /\ conn'[w.tcp].id = w.id
  <2>1. SUFFICES ASSUME NEW w \in inflight', w \notin inflight
                 PROVE  \E c \in Conns : /\ w.tcp = c /\ w.id = conn[c].id
                                         /\ conn[c].state # "free"
    <3>1. ASSUME NEW w \in inflight'
          PROVE  conn'[w.tcp].state # "free" /\ conn'[w.tcp].id = w.id
      <4>1. CASE w \in inflight
        BY <1>0, <1>c, <1>w, <4>1 DEF WriteInv
      <4>2. CASE w \notin inflight
        BY <1>c, <2>1, <4>2
      <4> QED
        BY <4>1, <4>2
    <3> QED
      BY <3>1
  <2>2. ASSUME NEW S \in SUBSET Ids, SentTo(S), \A id \in S : reg[id].as # "none"
        PROVE  \E c \in Conns : w.tcp = c /\ w.id = conn[c].id /\ conn[c].state # "free"
    <3>1. w.id \in S /\ w.tcp = reg[w.id].tcp
      BY <2>1, <2>2 DEF SentTo
    <3> QED
      BY <1>r, <2>2, <3>1
  <2>3. ASSUME NEW id \in Ids, Served(id)
        PROVE  \E c \in Conns : w.tcp = c /\ w.id = conn[c].id /\ conn[c].state # "free"
    BY <2>2, <2>3 DEF Served
  <2>4. ASSUME NEW S \in SUBSET Ids, Distributed(S)
        PROVE  \E c \in Conns : w.tcp = c /\ w.id = conn[c].id /\ conn[c].state # "free"
    BY <1>y, <2>2, <2>4 DEF Distributed
  <2>5. ASSUME NEW c \in Conns, onInputGone(c)
        PROVE  \E d \in Conns : w.tcp = d /\ w.id = conn[d].id /\ conn[d].state # "free"
    BY <1>0, <2>1, <2>5, GoneFacts
  <2>6. \/ \E id \in Ids : Served(id)
        \/ \E S \in SUBSET Ids : Distributed(S)
        \/ \E c \in Conns : onInputGone(c)
        \/ inflight' \subseteq inflight
    BY <1>0 DEF Kinds, Quiet, hello, availableButGone, becomeReady, readUpdate, clientRead,
                breakConn, postpone, writeComplete
  <2> QED
    BY <2>1, <2>3, <2>4, <2>5, <2>6
<1>2. ASSUME NEW id \in Ids, reg'[id].as # "none", conn'[reg'[id].tcp].state = "up",
             ConnectedOnce(id)'
      PROVE  Goal(id)
  <2>o. ConnectedOnce(id)
    BY <1>2, <1>c
  <2>k. ASSUME reg[id].as # "none", conn[reg[id].tcp].state = "up",
               reg[id].sending => reg'[id].sending,
               Ready(id)' => Ready(id),
               \A w \in inflight' : w.id = id => w \in inflight
        PROVE  Goal(id)
    BY <1>0, <2>k, <2>o DEF WriteInv
  <2>1. CASE Quiet
    <3>1. reg'[id].as = reg[id].as /\ reg'[id].tcp = reg[id].tcp
          /\ reg'[id].sending = reg[id].sending /\ UNCHANGED <<conn, inflight, shareNext, copyNext>>
      BY <2>1 DEF Quiet
    <3>2. Ready(id)' <=> Ready(id)
      BY <3>1 DEF Ready
    <3> HIDE DEF Goal
    <3> QED
      BY <1>2, <2>k, <3>1, <3>2
  <2>2. ASSUME NEW S \in SUBSET Ids, SentTo(S), Ready(id)' => Ready(id),
               id \in S => ~Ready(id)' /\ (Ready(id) \/ ~reg[id].sending)
        PROVE  Goal(id)
    <3>1. /\ reg'[id].as = reg[id].as /\ reg'[id].tcp = reg[id].tcp /\ conn' = conn
          /\ id \in S => reg'[id].sending = TRUE
          /\ id \notin S => reg'[id].sending = reg[id].sending
          /\ \A w \in inflight' : w \in inflight \/ w.id \in S
          /\ \A v, w \in inflight' : v \in inflight \/ w \in inflight \/ v.id # w.id \/ v = w
      BY <2>2 DEF SentTo
    <3>2. CASE id \notin S
      <4>1. \A w \in inflight' : w.id = id => w \in inflight
        BY <3>1, <3>2
      <4> HIDE DEF Goal
      <4> QED
        BY <1>2, <2>2, <2>k, <3>1, <3>2, <4>1
    <3>3. CASE id \in S
      <4>1. \A w \in inflight : w.id # id
        BY <1>0, <1>2, <2>2, <2>o, <3>1, <3>3 DEF WriteInv
      <4> QED
        BY <2>2, <3>1, <3>3, <4>1
    <3> QED
      BY <3>2, <3>3
  <2>3. ASSUME NEW j \in Ids, Served(j)
        PROVE  Goal(id)
    <3>1. /\ CallOf(j) /\ SentTo({j}) /\ UNCHANGED <<shareNext, copyNext>> /\ conn' = conn
          /\ ~reg[j].sending
      BY <2>3 DEF Served, SentTo
    <3>2. Ready(id)' <=> Ready(id)
      BY <3>1 DEF Ready
    <3>3. CASE id \notin {j}
      <4> HIDE DEF Goal
      <4> QED
        BY <2>2, <3>1, <3>2, <3>3
    <3>4. CASE id = j
      <4>1. ~Ready(id)
        <5>1. SUFFICES ASSUME Ready(id) PROVE FALSE
          OBVIOUS
        <5>2. reg[id].as # "none" /\ conn[reg[id].tcp].state = "up"
          BY <1>2, <2>3, <3>1 DEF Served, SentTo
        <5>3. Requests(id) = 1
          BY <2>o, <5>2 DEF Inv, RequestBalance
        <5>4. /\ postponed[id] \in Nat /\ Cardinality(Calls(id)) \in Nat
              /\ Marks(id) = 1 /\ Arriving(id) \in Nat
              /\ Requests(id) = postponed[id] + Cardinality(Calls(id)) + Arriving(id) + Marks(id)
          BY <1>0, <5>1, <5>2, Parts
        <5>5. /\ postponed[id] + Cardinality(Calls(id)) = postponed'[id] + Cardinality(Calls(id)') + 1
              /\ postponed'[id] \in Nat /\ Cardinality(Calls(id)') \in Nat
          BY <1>0, <3>1, <3>4, CallCount, PartsNext
        <5> QED
          BY <5>3, <5>4, <5>5
      <4> HIDE DEF Goal
      <4> QED
        BY <2>2, <3>1, <3>2, <3>4, <4>1
    <3> QED
      BY <3>3, <3>4
  <2>4. ASSUME NEW S \in SUBSET Ids, Distributed(S)
        PROVE  Goal(id)
    <3>1. /\ SentTo(S) /\ Range(shareNext') = Range(shareNext) \ S /\ copyNext' = copyNext \ S
          /\ id \in S => Ready(id)
      BY <2>4 DEF Distributed
    <3>2. (Ready(id)' => Ready(id)) /\ (id \in S => ~Ready(id)')
      BY <3>1 DEF Ready
    <3> HIDE DEF Goal
    <3> QED
      BY <2>2, <3>1, <3>2
  <2>5. ASSUME NEW j \in Ids, hello(j)
        PROVE  Goal(id)
    <3> HIDE DEF Goal
    <3>1. PICK c \in Conns :
             /\ conn[c].state = "free" /\ conn'[c].id = j /\ conn'[c].state = "up"
             /\ \A d \in Conns : d # c /\ d # reg[j].tcp => conn'[d].state = conn[d].state
             /\ reg'[j].tcp = c
             /\ \A i \in Ids : i # j => reg'[i] = reg[i]
             /\ UNCHANGED <<shareNext, copyNext, inflight>>
      BY <1>0, <2>5, HelloFacts
    <3>2. CASE j # id
      <4>1. reg'[id] = reg[id] /\ reg[id].as # "none"
        BY <1>2, <3>1, <3>2
      <4>2. reg[id].tcp \in Conns /\ reg[id].tcp # c /\ reg[id].tcp # reg[j].tcp
        BY <1>0, <1>r, <3>1, <3>2, <4>1 DEF LinkInv
      <4>3. conn[reg[id].tcp].state = "up"
        BY <1>2, <3>1, <4>1, <4>2
      <4>4. Ready(id)' <=> Ready(id)
        BY <3>1 DEF Ready
      <4> QED
        BY <2>k, <3>1, <4>1, <4>3, <4>4
    <3>3. CASE j = id
      <4>1. ASSUME NEW w \in inflight, w.id = id PROVE FALSE
        <5>1. conn[w.tcp].state # "free" /\ conn[w.tcp].id = id /\ w.tcp \in Conns
          BY <1>0, <1>w, <4>1 DEF WriteInv
        <5>2. w.tcp # c /\ conn'[w.tcp].state # "free" /\ conn'[w.tcp].id = id
          BY <1>c, <3>1, <5>1
        <5>3. conn'[c].state # "free" /\ conn'[c].id = id
          BY <3>1, <3>3
        <5> QED
          BY <1>2, <5>1, <5>2, <5>3 DEF ConnectedOnce
      <4> QED
        BY <3>1, <4>1 DEF Goal
    <3> QED
      BY <3>2, <3>3
  <2>6. ASSUME NEW j \in Ids, becomeReady(j)
        PROVE  Goal(id)
    <3>1. ~reg[j].sending /\ UNCHANGED <<reg, conn, inflight>> /\ reg[j].as # "none"
      BY <2>6 DEF becomeReady, Available, MustPostpone, network
    <3>2. CASE j = id
      <4>1. \A w \in inflight : w.id # id
        BY <1>0, <1>2, <2>o, <3>1, <3>2 DEF WriteInv
      <4> QED
        BY <3>1, <4>1
    <3>3. CASE j # id
      <4>1. Ready(id)' => Ready(id)
        <5>1. copyNext' \subseteq copyNext \cup {j}
          BY <2>6 DEF becomeReady
        <5>2. shareNext' = shareNext \/ shareNext' = Append(shareNext, j)
          BY <2>6 DEF becomeReady, pushShareNext
        <5>3. shareNext \in Seq(Ids)
          BY <1>0 DEF Types
        <5>4. Range(Append(shareNext, j)) \subseteq Range(shareNext) \cup {j}
          BY <5>3 DEF Range
        <5>5. Range(shareNext') \subseteq Range(shareNext) \cup {j}
          BY <5>2, <5>4
        <5> QED
          BY <3>3, <5>1, <5>5 DEF Ready
      <4> HIDE DEF Goal
      <4> QED
        BY <1>2, <2>k, <3>1, <4>1
    <3> QED
      BY <3>2, <3>3
  <2>7. ASSUME NEW c \in Conns, onInputGone(c)
        PROVE  Goal(id)
    <3> HIDE DEF Goal
    <3>1. /\ conn'[c].state = "gone"
          /\ \A d \in Conns : d # c => conn'[d] = conn[d]
          /\ \A j \in Ids : j # conn[c].id =>
                /\ reg'[j] = reg[j]
                /\ j \in Range(shareNext') <=> j \in Range(shareNext)
                /\ j \in copyNext' <=> j \in copyNext
          /\ reg[conn[c].id].tcp = c =>
                /\ reg'[conn[c].id] = Nobody
                /\ \A w \in inflight' : w \in inflight \/ (w.tcp = c /\ w.id = conn[c].id)
          /\ reg[conn[c].id].tcp # c => UNCHANGED <<reg, shareNext, copyNext, inflight>>
      BY <1>0, <2>7, GoneFacts
    <3>2. CASE reg[conn[c].id].tcp # c
      <4>1. /\ UNCHANGED <<reg, inflight>> /\ (Ready(id)' <=> Ready(id)) /\ reg[id].as # "none"
        BY <1>2, <3>1, <3>2 DEF Ready
      <4>2. conn[reg[id].tcp].state = "up"
        BY <1>2, <1>r, <3>1, <4>1
      <4> QED
        BY <2>k, <4>1, <4>2
    <3>3. CASE reg[conn[c].id].tcp = c
      <4>1. id # conn[c].id
        BY <1>2, <3>1, <3>3 DEF Nobody
      <4>2. /\ reg'[id] = reg[id] /\ (Ready(id)' <=> Ready(id)) /\ reg[id].as # "none"
            /\ \A w \in inflight' : w.id = id => w \in inflight
        BY <1>2, <3>1, <3>3, <4>1 DEF Ready
      <4>3. conn[reg[id].tcp].state = "up"
        BY <1>2, <1>r, <3>1, <4>2
      <4> QED
        BY <2>k, <4>2, <4>3
    <3> QED
      BY <3>2, <3>3
  <2>8. ASSUME NEW w \in inflight, writeComplete(w)
        PROVE  Goal(id)
    <3>1. UNCHANGED <<conn, shareNext, copyNext>> /\ inflight' = inflight \ {w}
      BY <2>8 DEF writeComplete, network, ready
    <3>2. /\ reg'[id].as = reg[id].as /\ reg'[id].tcp = reg[id].tcp
          /\ id # w.id => reg'[id].sending = reg[id].sending
      BY <1>t, <1>w, <2>8 DEF writeComplete, resetSendOngoing, Entry
    <3>3. Ready(id)' <=> Ready(id)
      BY <3>1 DEF Ready
    <3>4. CASE id # w.id
      <4> HIDE DEF Goal
      <4> QED
        BY <1>2, <2>k, <3>1, <3>2, <3>3, <3>4
    <3>5. CASE id = w.id
      <4>1. \A v \in inflight : v.id = id => v = w
        BY <1>0, <1>2, <2>o, <3>1, <3>2, <3>5 DEF WriteInv
      <4> QED
        BY <3>1, <4>1
    <3> QED
      BY <3>4, <3>5
  <2>9. ASSUME NEW c \in Conns, breakConn(c)
        PROVE  Goal(id)
    <3>1. UNCHANGED <<reg, shareNext, copyNext, inflight>> /\ conn'[c].state = "broken"
          /\ \A d \in Conns : d # c => conn'[d] = conn[d]
      BY <1>t, <2>9 DEF breakConn, ready
    <3>2. reg[id].as # "none" /\ conn[reg[id].tcp].state = "up"
      BY <1>2, <1>r, <3>1
    <3>3. Ready(id)' <=> Ready(id)
      BY <3>1 DEF Ready
    <3> HIDE DEF Goal
    <3> QED
      BY <2>k, <3>1, <3>2, <3>3
  <2>10. CASE UNCHANGED <<reg, conn, shareNext, copyNext, inflight>>
    <3>1. Ready(id)' <=> Ready(id)
      BY <2>10 DEF Ready
    <3> HIDE DEF Goal
    <3> QED
      BY <1>2, <2>10, <2>k, <3>1
  <2>11. \/ Quiet
         \/ \E j \in Ids : Served(j) \/ hello(j) \/ becomeReady(j)
         \/ \E S \in SUBSET Ids : Distributed(S)
         \/ \E c \in Conns : breakConn(c) \/ onInputGone(c)
         \/ \E w \in inflight : writeComplete(w)
         \/ UNCHANGED <<reg, conn, shareNext, copyNext, inflight>>
    BY <1>0 DEF Kinds, availableButGone, readUpdate, clientRead, postpone, ready, network
  <2> HIDE DEF Goal
  <2> QED
    BY <2>1, <2>3, <2>4, <2>5, <2>6, <2>7, <2>8, <2>9, <2>10, <2>11
<1> QED
  BY <1>1, <1>2 DEF WriteInv

(* It holds at the beginning.                                              *)
LEMMA InvInit ==
    ASSUME Init
    PROVE  Inv
<1>1. Types
  <2>1. FreeChunk \in Chunk
    BY DEF FreeChunk, Chunk
  <2>2. [k \in Chunks |-> FreeChunk] \in [Chunks -> Chunk]
    BY <2>1
  <2>3. 1 \in 0..MaxChunks
    BY ChunksAssumption
  <2>4. mem \in [Chunks -> Chunk]
    BY <2>2, <2>3, MemoryTypes DEF Init
  <2>5. Nobody \in Entry
    BY BoundsAssumption DEF Nobody, Entry
  <2>6. reg \in [Ids -> Entry]
    BY <2>5 DEF Init
  <2>7. (CHOOSE id \in Ids : TRUE) \in Ids
    BY IdsAssumption
  <2>8. conn \in [Conns -> [id : Ids, state : {"free", "up", "broken", "closed", "gone"}]]
    BY <2>7 DEF Init
  <2>9. setup \in Setup /\ chunkId \in 0..MaxChunks /\ chunkId # 0
    BY <2>3, SetupAssumption DEF Init
  <2>10. shareNext \in Seq(Ids) /\ IsInjective(shareNext) /\ common \in Seq(Chunks)
    BY DEF Init, IsInjective
  <2>11. unblock \in [Ids -> 0..MaxChunks] /\ unblockShared \in 0..MaxChunks
    BY ChunksAssumption DEF Init
  <2>12. toClient \in [Conns -> Seq(Nat)] /\ wire \in [Conns -> Nat] /\ postponed \in [Ids -> Nat]
    BY DEF Init
  <2>13. copyNext \subseteq Ids /\ calling \subseteq Conns /\ writer \in {"idle", "ensure", "sleep"}
         /\ seq \in Nat /\ inflight = {}
    BY DEF Init
  <2> QED
    BY <2>4, <2>6, <2>8, <2>9, <2>10, <2>11, <2>12, <2>13 DEF Types
<1>2. \A id \in Ids : reg[id].as = "none" /\ reg[id].tcp = 0
  BY DEF Init, Nobody
<1>3. \A c \in Conns : conn[c].state = "free"
  BY DEF Init
<1>4. LinkInv
  BY <1>2, <1>3 DEF LinkInv, Init
<1>5. ReadyInv
  <2>1. Range(shareNext) = {}
    BY DEF Init, Range
  <2> QED
    BY <2>1 DEF ReadyInv, Init
<1>6. RequestBalance
  BY <1>2 DEF RequestBalance
<1>7. WriteInv
  BY <1>2 DEF WriteInv, Init
<1> QED
  BY <1>1, <1>4, <1>5, <1>6, <1>7 DEF Inv

(* Every step keeps the inductive invariant.                               *)
LEMMA InvStep ==
    ASSUME Inv, [Next]_vars
    PROVE  Inv'
<1>1. Types'
  BY TypesStep
<1>2. LinkInv'
  BY <1>1, LinkStep
<1>3. ReadyInv'
  BY <1>1, <1>2, ReadyStep
<1>4. RequestBalance'
  BY <1>1, <1>2, <1>3, BalanceStep
<1>5. WriteInv'
  BY <1>1, <1>2, <1>3, <1>4, WriteStep
<1> QED
  BY <1>1, <1>2, <1>3, <1>4, <1>5 DEF Inv

(* The inductive invariant holds in all reachable states of an output      *)
(* channel with any finite number of inputs, connections and chunks.       *)
THEOREM Invariance == Spec => []Inv
<1>1. Init => Inv
  BY InvInit
<1>2. Inv /\ [Next]_vars => Inv'
  BY InvStep
<1> QED
  BY <1>1, <1>2, PTL DEF Spec

(* A connected input always has a request, and exactly one as long as its  *)
(* id connected only once: no "update" gets lost between the handlers of   *)
(* its connection, calls posted while a write goes on, m_shareNext or      *)
(* m_copyNext and the message that answers it.                             *)
THEOREM RequestsKept == Spec => []RequestBalance
<1>1. Inv => RequestBalance
  BY DEF Inv
<1> QED
  BY <1>1, Invariance, PTL

(* asyncSendOne() is never called for an input while a write to it is      *)
(* going on, if the connection is up and its id connected only once.       *)
THEOREM WritesDoNotOverlap == Spec => []NoOverlapOnFirstConnection
<1>1. Inv => NoOverlapOnFirstConnection
  <2> SUFFICES ASSUME Inv, NEW c \in Conns, conn[c].state = "up", ConnectedOnce(conn[c].id),
                      NEW v \in inflight, NEW w \in inflight, v.tcp = c, w.tcp = c
               PROVE  v = w
    BY DEF NoOverlapOnFirstConnection, Overlap
  <2> DEFINE id == conn[c].id
  <2>1. id \in Ids /\ reg[id].tcp = c
    BY DEF Inv, LinkInv, Types
  <2>2. reg[id].as # "none"
    BY <2>1, BoundsAssumption DEF Inv, LinkInv, Conns
  <2>3. v.id = id /\ w.id = id
    BY DEF Inv, WriteInv
  <2> QED
    BY <2>1, <2>2, <2>3 DEF Inv, WriteInv
<1> QED
  BY <1>1, Invariance, PTL

-----------------------------------------------------------------------------
(* Data: who holds which chunk, and in which order messages go out.        *)

(* Every use of a chunk is accounted for; the writer is the only user of   *)
(* the chunk that it writes to.                                            *)
StockInv ==
    /\ IsFiniteSet(inflight)
    /\ leaked \in [Chunks -> Nat]
    /\ ChunkAccounting
    /\ chunkId # 0 => mem[chunkId].use = 1
    /\ writer # "idle" => chunkId = 0

Msg(k) == mem[k].msg

(* The chunks that wait to be sent to an input.                            *)
Waiting(id) ==
    {k \in Chunks :
        \/ k = unblock[id]
        \/ k \in Range(reg[id].queue)
        \/ reg[id].as = "shared" /\ (k = unblockShared \/ k \in Range(common))}

(* What was sent on a connection, read or not, is older than message n.    *)
SentBefore(c, n) ==
    /\ last[c] < n
    /\ \A i \in 1..Len(toClient[c]) : toClient[c][i] < n
    /\ \A w \in inflight : w.tcp = c => w.msg < n

Increasing(q) == \A i, j \in 1..Len(q) : i < j => Msg(q[i]) < Msg(q[j])

(* The writer waits for an input that is too slow, instead of queueing.    *)
Waits(id) ==
    IF setup.distribution[id] = "shared" THEN setup.noInputShared = "wait"
    ELSE setup.slowness[id] = "wait"

(* Where something can wait, by the configuration, and that the writer is  *)
(* blocked by one input, or by all shared ones, but not by both.           *)
PlaceInv ==
    /\ \A id \in Ids :
          /\ unblock[id] # 0 => reg[id].as # "none" /\ Waits(id)
          /\ reg[id].queue # <<>> => reg[id].as # "none" /\ ~Waits(id)
          /\ reg[id].as = "shared" /\ unblockShared # 0 => unblock[id] = 0
          /\ Ready(id) => Waiting(id) = {}
    /\ unblockShared # 0 => setup.noInputShared = "wait"
    /\ common # <<>> => setup.noInputShared = "queueDrop" /\ ~setup.selector

(* What a connection was sent is in order and older than what is written   *)
(* next; a connection that was never made was sent nothing.                *)
SentInv ==
    /\ InOrder
    /\ last \in [Conns -> Nat]
    /\ \A c \in Conns : /\ SentBefore(c, seq + 1)
                        /\ conn[c].state = "free" => last[c] = 0

(* What was sent to an input is older than what waits for it.              *)
TurnInv ==
    \A id \in Ids : \A k \in Waiting(id) :
        reg[id].as # "none" => SentBefore(reg[id].tcp, Msg(k))

(* Whatever waits was written.                                             *)
AgeInv ==
    \A k \in Chunks :
        (k = unblockShared \/ k \in Range(common) \/ \E id \in Ids : k \in Waiting(id))
            => Msg(k) \in 1..seq

(* The queues are in order, and the queue of a shared input is older than  *)
(* the common one.                                                         *)
QueueInv ==
    /\ Increasing(common)
    /\ \A id \in Ids :
          /\ Increasing(reg[id].queue)
          /\ reg[id].as = "shared" =>
                \A k \in Range(reg[id].queue) : \A l \in Range(common) : Msg(k) < Msg(l)

(* Each input is served in the order of the messages.                      *)
OrderInv == SentInv /\ TurnInv /\ AgeInv /\ QueueInv

(* An end-of-stream that is due is on its way to its input, or waits for   *)
(* it; the common queue is one of shared inputs.                           *)
HoldsEos(k, n) == k # 0 /\ mem[k].eos /\ Msg(k) = n

EosWaits(id, n) ==
    \/ HoldsEos(unblock[id], n)
    \/ \E k \in Range(reg[id].queue) : HoldsEos(k, n)
    \/ reg[id].as = "shared" /\ \E k \in Range(common) : HoldsEos(k, n)

DueInv ==
    \A due \in eosDue :
        /\ due = <<due[1], due[2]>> /\ due[1] \in Conns /\ conn[due[1]].state = "up"
        /\ \/ due[2] = 0
           \/ due[2] \in Range(toClient[due[1]])
           \/ EosWaits(conn[due[1]].id, due[2])

DataInv == StockInv /\ PlaceInv /\ OrderInv /\ DueInv


-----------------------------------------------------------------------------
(* Counting                                                                *)

(* A one-to-one correspondence keeps the size of a finite set.             *)
LEMMA SameSize ==
    ASSUME NEW S, NEW T, IsFiniteSet(S), NEW f \in [S -> T],
           \A a, b \in S : f[a] = f[b] => a = b,
           \A t \in T : \E s \in S : f[s] = t
    PROVE  IsFiniteSet(T) /\ Cardinality(T) = Cardinality(S)
<1>1. f \in Bijection(S, T)
  BY DEF Bijection, Injection, Surjection, IsInjective
<1>2. ExistsBijection(S, T)
  BY <1>1 DEF ExistsBijection
<1> QED
  BY <1>2, FS_Bijection

(* The positions of a chunk in a queue.                                    *)
Positions(q, k) == {i \in 1..Len(q) : q[i] = k}

(* They are finitely many, and there are some if the queue has the chunk.  *)
LEMMA PositionsType ==
    ASSUME NEW q \in Seq(Chunks), NEW k
    PROVE  /\ IsFiniteSet(Positions(q, k))
           /\ Occurrences(q, k) = Cardinality(Positions(q, k))
           /\ Occurrences(q, k) \in Nat
           /\ k \in Range(q) <=> Occurrences(q, k) # 0
<1>1. IsFiniteSet(1..Len(q))
  BY FS_Interval
<1>2. Positions(q, k) \subseteq 1..Len(q)
  BY DEF Positions
<1>3. IsFiniteSet(Positions(q, k))
  BY <1>1, <1>2, FS_Subset
<1>4. Occurrences(q, k) = Cardinality(Positions(q, k))
  BY DEF Occurrences, Positions
<1>5. k \in Range(q) <=> Positions(q, k) # {}
  BY DEF Range, Positions
<1> QED
  BY <1>3, <1>4, <1>5, FS_CardinalityType, FS_EmptySet

(* p is q without its i-th entry: f tells where the entries of p come from *)
Without(p, q, i, f) ==
    /\ p \in Seq(Chunks) /\ q \in Seq(Chunks) /\ i \in 1..Len(q)
    /\ f \in [1..Len(p) -> 1..Len(q)]
    /\ \A a, b \in 1..Len(p) : f[a] = f[b] => a = b
    /\ \A a \in 1..Len(p) : f[a] # i /\ p[a] = q[f[a]]
    /\ \A b \in 1..Len(q) : b # i => \E a \in 1..Len(p) : f[a] = b

(* A queue from which one entry is taken has the others.                   *)
LEMMA OccurrencesWithout ==
    ASSUME NEW p, NEW q, NEW i, NEW f, Without(p, q, i, f), NEW k
    PROVE  Occurrences(q, k) = Occurrences(p, k) + (IF q[i] = k THEN 1 ELSE 0)
<1> USE DEF Without
<1> DEFINE g == [a \in Positions(p, k) |-> f[a]]
<1>1. /\ IsFiniteSet(Positions(p, k)) /\ Occurrences(p, k) = Cardinality(Positions(p, k))
      /\ IsFiniteSet(Positions(q, k)) /\ Occurrences(q, k) = Cardinality(Positions(q, k))
      /\ Occurrences(p, k) \in Nat /\ Occurrences(q, k) \in Nat
  BY PositionsType
<1>2. \A a \in Positions(p, k) : a \in 1..Len(p) /\ f[a] \in Positions(q, k) \ {i}
  BY DEF Positions
<1>3. g \in [Positions(p, k) -> Positions(q, k) \ {i}]
  BY <1>2
<1>4. \A a, b \in Positions(p, k) : g[a] = g[b] => a = b
  BY <1>2
<1>5. \A t \in Positions(q, k) \ {i} : \E s \in Positions(p, k) : g[s] = t
  <2>1. ASSUME NEW t \in Positions(q, k) \ {i}
        PROVE  \E s \in Positions(p, k) : g[s] = t
    <3>1. t \in 1..Len(q) /\ t # i /\ q[t] = k
      BY DEF Positions
    <3>2. PICK a \in 1..Len(p) : f[a] = t
      BY <3>1
    <3>3. a \in Positions(p, k)
      BY <3>1, <3>2 DEF Positions
    <3> QED
      BY <3>2, <3>3
  <2> QED
    BY <2>1
<1> HIDE DEF g
<1>6. Cardinality(Positions(q, k) \ {i}) = Cardinality(Positions(p, k))
  BY <1>1, <1>3, <1>4, <1>5, SameSize
<1>7. Cardinality(Positions(q, k) \ {i}) =
         IF i \in Positions(q, k) THEN Cardinality(Positions(q, k)) - 1
         ELSE Cardinality(Positions(q, k))
  BY <1>1, FS_RemoveElement
<1>8. i \in Positions(q, k) <=> q[i] = k
  BY DEF Positions
<1> QED
  BY <1>1, <1>6, <1>7, <1>8

(* How the operations on queues change what they hold, and how often:      *)
(* push_back(),                                                            *)
LEMMA OccurrencesAppend ==
    ASSUME NEW q \in Seq(Chunks), NEW x \in Chunks
    PROVE  /\ Append(q, x) \in Seq(Chunks) /\ Range(Append(q, x)) = Range(q) \cup {x}
           /\ \A k : Occurrences(Append(q, x), k) =
                        Occurrences(q, k) + (IF x = k THEN 1 ELSE 0)
<1> DEFINE p == Append(q, x)
<1> DEFINE f == [a \in 1..Len(q) |-> a]
<1>1. p \in Seq(Chunks) /\ Len(p) = Len(q) + 1 /\ p[Len(q) + 1] = x
      /\ \A a \in 1..Len(q) : p[a] = q[a]
  OBVIOUS
<1>2. Len(q) \in Nat
  OBVIOUS
<1> HIDE DEF p
<1>3. Range(p) = Range(q) \cup {x}
  <2>1. Range(q) = {q[a] : a \in 1..Len(q)} /\ Range(p) = {p[a] : a \in 1..Len(p)}
    BY <1>1 DEF Range
  <2>2. 1..Len(p) = (1..Len(q)) \cup {Len(q) + 1}
    BY <1>1, <1>2
  <2> QED
    BY <1>1, <2>1, <2>2
<1>4. Len(q) + 1 \in 1..Len(p) /\ f \in [1..Len(q) -> 1..Len(p)]
  BY <1>1, <1>2
<1>5. ASSUME NEW k
      PROVE  Occurrences(p, k) = Occurrences(q, k) + (IF x = k THEN 1 ELSE 0)
  <2>1. \A a, b \in 1..Len(q) : f[a] = f[b] => a = b
    OBVIOUS
  <2>2. \A a \in 1..Len(q) : f[a] # Len(q) + 1 /\ q[a] = p[f[a]]
    BY <1>1, <1>2
  <2>3. \A b \in 1..Len(p) : b # Len(q) + 1 => \E a \in 1..Len(q) : f[a] = b
    BY <1>1, <1>2
  <2>f. f \in [1..Len(q) -> 1..Len(p)]
    BY <1>4
  <2> HIDE DEF f
  <2>4. PICK i \in 1..Len(p) : i = Len(q) + 1
    BY <1>4
  <2>5. \A a \in 1..Len(q) : f[a] # i /\ q[a] = p[f[a]]
    BY <2>2, <2>4
  <2>6. \A b \in 1..Len(p) : b # i => \E a \in 1..Len(q) : f[a] = b
    BY <2>3, <2>4
  <2>7. Occurrences(p, k) = Occurrences(q, k) + (IF p[i] = k THEN 1 ELSE 0)
    <3>1. Without(q, p, i, f)
      BY <1>1, <2>f, <2>1, <2>4, <2>5, <2>6 DEF Without
    <3> QED
      BY <3>1, OccurrencesWithout
  <2> QED
    BY <1>1, <2>4, <2>7
<1> QED
  BY <1>1, <1>3, <1>5 DEF p

(* pop_front(),                                                            *)
LEMMA OccurrencesTail ==
    ASSUME NEW q \in Seq(Chunks), q # <<>>
    PROVE  /\ Tail(q) \in Seq(Chunks) /\ Head(q) \in Chunks
           /\ Head(q) \in Range(q) /\ Range(Tail(q)) \subseteq Range(q)
           /\ \A k : Occurrences(q, k) =
                        Occurrences(Tail(q), k) + (IF Head(q) = k THEN 1 ELSE 0)
<1> DEFINE p == Tail(q)
<1> DEFINE f == [a \in 1..Len(p) |-> a + 1]
<1>1. /\ p \in Seq(Chunks) /\ Len(p) = Len(q) - 1 /\ Len(q) \in Nat /\ Len(q) >= 1
      /\ Head(q) = q[1] /\ \A a \in 1..Len(p) : p[a] = q[a + 1]
  OBVIOUS
<1>2. Head(q) \in Chunks /\ Head(q) \in Range(q)
  BY <1>1 DEF Range
<1>3. Range(p) \subseteq Range(q)
  <2>1. \A a \in 1..Len(p) : a + 1 \in 1..Len(q)
    BY <1>1
  <2> QED
    BY <1>1, <2>1 DEF Range
<1>4. ASSUME NEW k
      PROVE  Occurrences(q, k) = Occurrences(p, k) + (IF Head(q) = k THEN 1 ELSE 0)
  <2>1. f \in [1..Len(p) -> 1..Len(q)]
    BY <1>1
  <2>2. \A a, b \in 1..Len(p) : f[a] = f[b] => a = b
    BY <1>1
  <2>3. PICK i \in 1..Len(q) : i = 1
    BY <1>1
  <2>4. \A a \in 1..Len(p) : f[a] # i /\ p[a] = q[f[a]]
    BY <1>1, <2>3
  <2>5. \A b \in 1..Len(q) : b # i => \E a \in 1..Len(p) : f[a] = b
    <3>1. ASSUME NEW b \in 1..Len(q), b # i PROVE \E a \in 1..Len(p) : f[a] = b
      <4>1. b - 1 \in 1..Len(p) /\ (b - 1) + 1 = b
        BY <1>1, <2>3, <3>1
      <4> QED
        BY <4>1
    <3> QED
      BY <3>1
  <2>p. p \in Seq(Chunks)
    BY <1>1
  <2> HIDE DEF f, p
  <2>6. Occurrences(q, k) = Occurrences(p, k) + (IF q[i] = k THEN 1 ELSE 0)
    <3>1. Without(p, q, i, f)
      BY <2>p, <2>1, <2>2, <2>3, <2>4, <2>5 DEF Without
    <3> QED
      BY <3>1, OccurrencesWithout
  <2> QED
    BY <1>1, <2>3, <2>6
<1> QED
  BY <1>1, <1>2, <1>3, <1>4

(* erase(), and                                                            *)
LEMMA OccurrencesRemove ==
    ASSUME NEW q \in Seq(Chunks), NEW i \in 1..Len(q)
    PROVE  /\ RemoveAt(q, i) \in Seq(Chunks) /\ q[i] \in Chunks /\ Len(RemoveAt(q, i)) = Len(q) - 1
           /\ Range(RemoveAt(q, i)) \subseteq Range(q) /\ q[i] \in Range(q)
           /\ \A a \in 1..(Len(q) - 1) : RemoveAt(q, i)[a] = IF a < i THEN q[a] ELSE q[a + 1]
           /\ \A k : Occurrences(q, k) =
                        Occurrences(RemoveAt(q, i), k) + (IF q[i] = k THEN 1 ELSE 0)
<1> DEFINE p == RemoveAt(q, i)
<1> DEFINE f == [a \in 1..Len(p) |-> IF a < i THEN a ELSE a + 1]
<1>0. Len(q) \in Nat /\ i \in Nat /\ 1 <= i /\ i <= Len(q)
  OBVIOUS
<1> DEFINE u == SubSeq(q, 1, i - 1)
<1> DEFINE v == SubSeq(q, i + 1, Len(q))
<1>1. /\ u \in Seq(Chunks) /\ Len(u) = i - 1 /\ \A a \in 1..(i - 1) : u[a] = q[a]
  BY <1>0
<1>2. /\ v \in Seq(Chunks) /\ Len(v) = Len(q) - i
      /\ \A a \in 1..(Len(q) - i) : v[a] = q[a + i]
  BY <1>0
<1>3. /\ p \in Seq(Chunks) /\ Len(p) = Len(q) - 1
      /\ \A a \in 1..(Len(q) - 1) : p[a] = IF a < i THEN q[a] ELSE q[a + 1]
  <2>1. p = u \o v
    BY DEF RemoveAt
  <2> HIDE DEF p, u, v
  <2>2. p \in Seq(Chunks) /\ Len(p) = Len(q) - 1
    BY <1>0, <1>1, <1>2, <2>1
  <2>c. /\ \A a \in 1..Len(u) : p[a] = u[a]
        /\ \A a \in 1..Len(v) : p[a + Len(u)] = v[a]
    BY <1>1, <1>2, <2>1
  <2>3. ASSUME NEW a \in 1..(Len(q) - 1)
        PROVE  p[a] = IF a < i THEN q[a] ELSE q[a + 1]
    <3>1. CASE a < i
      <4>1. a \in 1..(i - 1)
        BY <1>0, <3>1
      <4> QED
        BY <1>1, <2>c, <3>1, <4>1
    <3>2. CASE ~(a < i)
      <4>1. a - (i - 1) \in 1..(Len(q) - i) /\ (a - (i - 1)) + i = a + 1
            /\ (a - (i - 1)) + (i - 1) = a
        BY <1>0, <3>2
      <4>2. p[a] = v[a - (i - 1)]
        BY <1>1, <1>2, <2>c, <4>1
      <4> QED
        BY <1>2, <3>2, <4>1, <4>2
    <3> QED
      BY <3>1, <3>2
  <2> QED
    BY <2>2, <2>3
<1> HIDE DEF p
<1>4. q[i] \in Chunks /\ q[i] \in Range(q)
  BY DEF Range
<1>5. f \in [1..Len(p) -> 1..Len(q)] /\ \A a \in 1..Len(p) : f[a] # i /\ p[a] = q[f[a]]
  BY <1>0, <1>3
<1>6. \A a, b \in 1..Len(p) : f[a] = f[b] => a = b
  BY <1>0, <1>3
<1>7. \A b \in 1..Len(q) : b # i => \E a \in 1..Len(p) : f[a] = b
  <2>1. ASSUME NEW b \in 1..Len(q), b < i PROVE \E a \in 1..Len(p) : f[a] = b
    BY <1>0, <1>3, <2>1
  <2>2. ASSUME NEW b \in 1..Len(q), i < b PROVE \E a \in 1..Len(p) : f[a] = b
    <3>1. b - 1 \in 1..Len(p) /\ ~(b - 1 < i) /\ (b - 1) + 1 = b
      BY <1>0, <1>3, <2>2
    <3> QED
      BY <3>1
  <2> QED
    BY <1>0, <2>1, <2>2
<1> HIDE DEF f
<1>8. \A k : Occurrences(q, k) = Occurrences(p, k) + (IF q[i] = k THEN 1 ELSE 0)
  <2>1. Without(p, q, i, f)
    BY <1>3, <1>5, <1>6, <1>7 DEF Without
  <2> QED
    BY <2>1, OccurrencesWithout
<1>9. Range(p) \subseteq Range(q)
  BY <1>3, <1>5 DEF Range
<1> QED
  BY <1>3, <1>4, <1>8, <1>9 DEF p

(* one queue after the other.                                              *)
LEMMA OccurrencesConcat ==
    ASSUME NEW p \in Seq(Chunks), NEW q \in Seq(Chunks), NEW k
    PROVE  Occurrences(p \o q, k) = Occurrences(p, k) + Occurrences(q, k)
<1> DEFINE s == p \o q
<1> DEFINE Q == {i \in Positions(s, k) : i > Len(p)}
<1> DEFINE g == [a \in Positions(q, k) |-> a + Len(p)]
<1>1. /\ s \in Seq(Chunks) /\ Len(s) = Len(p) + Len(q) /\ Len(p) \in Nat /\ Len(q) \in Nat
      /\ \A a \in 1..Len(p) : s[a] = p[a]
      /\ \A a \in 1..Len(q) : s[a + Len(p)] = q[a]
  OBVIOUS
<1> HIDE DEF s
<1>2. /\ IsFiniteSet(Positions(p, k)) /\ Occurrences(p, k) = Cardinality(Positions(p, k))
      /\ IsFiniteSet(Positions(q, k)) /\ Occurrences(q, k) = Cardinality(Positions(q, k))
      /\ IsFiniteSet(Positions(s, k)) /\ Occurrences(s, k) = Cardinality(Positions(s, k))
      /\ Occurrences(p, k) \in Nat /\ Occurrences(q, k) \in Nat
  BY <1>1, PositionsType
<1>3. \A a \in Positions(q, k) : a \in 1..Len(q) /\ a + Len(p) \in Q
  BY <1>1 DEF Positions
<1>4. g \in [Positions(q, k) -> Q] /\ \A a, b \in Positions(q, k) : g[a] = g[b] => a = b
  BY <1>1, <1>3
<1>5. \A t \in Q : \E a \in Positions(q, k) : g[a] = t
  <2>1. ASSUME NEW t \in Q PROVE \E a \in Positions(q, k) : g[a] = t
    <3>1. t \in 1..Len(s) /\ t > Len(p) /\ s[t] = k
      BY DEF Positions
    <3>2. t - Len(p) \in 1..Len(q) /\ (t - Len(p)) + Len(p) = t
      BY <1>1, <3>1
    <3>3. t - Len(p) \in Positions(q, k)
      BY <1>1, <3>1, <3>2 DEF Positions
    <3> QED
      BY <3>2, <3>3
  <2> QED
    BY <2>1
<1>6. Positions(s, k) = Positions(p, k) \cup Q /\ Positions(p, k) \cap Q = {}
  BY <1>1 DEF Positions
<1> HIDE DEF Q, g
<1>7. IsFiniteSet(Q) /\ Cardinality(Q) = Cardinality(Positions(q, k))
  BY <1>2, <1>4, <1>5, SameSize
<1>8. Cardinality(Positions(p, k) \cup Q) =
         Cardinality(Positions(p, k)) + Cardinality(Q) - Cardinality(Positions(p, k) \cap Q)
  BY <1>2, <1>7, FS_Union
<1>9. Cardinality(Positions(s, k)) = Cardinality(Positions(p, k)) + Cardinality(Q)
  <2>1. Cardinality(Positions(p, k) \cap Q) = 0
    BY <1>6, FS_EmptySet
  <2>2. Cardinality(Positions(p, k)) \in Nat /\ Cardinality(Q) \in Nat
    BY <1>2, <1>7
  <2> QED
    BY <1>6, <1>8, <2>1, <2>2
<1>10. Occurrences(s, k) = Occurrences(p, k) + Occurrences(q, k)
  BY <1>2, <1>7, <1>9
<1> QED
  BY <1>10 DEF s

(* An entry is a position in one of the queues; there are finitely many.   *)
LEMMA EntriesType ==
    ASSUME NEW r \in [Ids -> Entry], NEW k
    PROVE  /\ \A e : e \in QueueEntries(r, k) <=>
                 \E id \in Ids : \E i \in Positions(r[id].queue, k) : e = <<id, i>>
           /\ IsFiniteSet(QueueEntries(r, k)) /\ Cardinality(QueueEntries(r, k)) \in Nat
           /\ \A id \in Ids : k \in Range(r[id].queue) => Cardinality(QueueEntries(r, k)) # 0
<1> DEFINE f == [id \in Ids |-> {id} \X (1..Len(r[id].queue))]
<1> DEFINE T == {{id} \X (1..Len(r[id].queue)) : id \in Ids}
<1>1. ASSUME NEW e
      PROVE  e \in QueueEntries(r, k) <=>
                 \E id \in Ids : \E i \in Positions(r[id].queue, k) : e = <<id, i>>
  <2>1. ASSUME e \in QueueEntries(r, k)
        PROVE  \E id \in Ids : \E i \in Positions(r[id].queue, k) : e = <<id, i>>
    <3>1. PICK id \in Ids : e \in {id} \X (1..Len(r[id].queue)) /\ r[e[1]].queue[e[2]] = k
      BY <2>1 DEF QueueEntries
    <3>2. e = <<id, e[2]>> /\ e[2] \in 1..Len(r[id].queue) /\ e[1] = id
      BY <3>1
    <3>3. e[2] \in Positions(r[id].queue, k)
      BY <3>1, <3>2 DEF Positions
    <3> QED
      BY <3>2, <3>3
  <2>2. ASSUME NEW id \in Ids, NEW i \in Positions(r[id].queue, k), e = <<id, i>>
        PROVE  e \in QueueEntries(r, k)
    <3>1. i \in 1..Len(r[id].queue) /\ r[id].queue[i] = k
      BY DEF Positions
    <3>2. e \in {id} \X (1..Len(r[id].queue)) /\ e[1] = id /\ e[2] = i
      BY <2>2, <3>1
    <3>3. e \in UNION {{j} \X (1..Len(r[j].queue)) : j \in Ids}
      BY <3>2
    <3>4. r[e[1]].queue[e[2]] = k
      BY <3>1, <3>2
    <3> QED
      BY <3>3, <3>4 DEF QueueEntries
  <2> QED
    BY <2>1, <2>2
<1>2. IsFiniteSet(T)
  <2>1. f \in Surjection(Ids, T)
    BY DEF Surjection
  <2> HIDE DEF f, T
  <2> QED
    BY <2>1, IdsAssumption, FS_Surjection
<1>3. \A t \in T : IsFiniteSet(t)
  <2>1. ASSUME NEW id \in Ids
        PROVE  IsFiniteSet({id} \X (1..Len(r[id].queue)))
    <3>1. r[id].queue \in Seq(Chunks)
      BY DEF Entry
    <3>2. IsFiniteSet({id}) /\ IsFiniteSet(1..Len(r[id].queue))
      <4>1. Len(r[id].queue) \in Int
        BY <3>1
      <4>2. IsFiniteSet(1..Len(r[id].queue))
        BY <4>1, FS_Interval
      <4> QED
        BY <4>2, FS_Singleton
    <3> QED
      BY <3>2, FS_Product
  <2> QED
    BY <2>1
<1>4. QueueEntries(r, k) \subseteq UNION T
  BY DEF QueueEntries
<1> HIDE DEF T
<1>5. IsFiniteSet(UNION T)
  BY <1>2, <1>3, FS_UNION
<1>6. IsFiniteSet(QueueEntries(r, k))
  BY <1>4, <1>5, FS_Subset
<1>7. ASSUME NEW id \in Ids, k \in Range(r[id].queue)
      PROVE  QueueEntries(r, k) # {}
  <2>1. r[id].queue \in Seq(Chunks)
    BY DEF Entry
  <2>2. PICK i \in 1..Len(r[id].queue) : r[id].queue[i] = k
    BY <1>7, <2>1 DEF Range
  <2>3. <<id, i>> \in QueueEntries(r, k)
    BY <1>1, <2>2 DEF Positions
  <2> QED
    BY <2>3
<1> QED
  BY <1>1, <1>6, <1>7, FS_CardinalityType, FS_EmptySet

(* The entries of one input and those of the others                        *)
LEMMA EntriesSplit ==
    ASSUME NEW r \in [Ids -> Entry], NEW k, NEW id \in Ids
    PROVE  /\ IsFiniteSet({e \in QueueEntries(r, k) : e[1] # id})
           /\ Cardinality({e \in QueueEntries(r, k) : e[1] # id}) \in Nat
           /\ Occurrences(r[id].queue, k) \in Nat
           /\ Cardinality(QueueEntries(r, k)) =
                 Cardinality({e \in QueueEntries(r, k) : e[1] # id})
                   + Occurrences(r[id].queue, k)
<1> DEFINE R == {e \in QueueEntries(r, k) : e[1] # id}
<1> DEFINE O == {e \in QueueEntries(r, k) : e[1] = id}
<1> DEFINE g == [i \in Positions(r[id].queue, k) |-> <<id, i>>]
<1>1. r[id].queue \in Seq(Chunks)
  BY DEF Entry
<1>2. /\ IsFiniteSet(Positions(r[id].queue, k)) /\ Occurrences(r[id].queue, k) \in Nat
      /\ Occurrences(r[id].queue, k) = Cardinality(Positions(r[id].queue, k))
  BY <1>1, PositionsType
<1>3. /\ IsFiniteSet(QueueEntries(r, k))
      /\ \A e : e \in QueueEntries(r, k) <=>
            \E j \in Ids : \E i \in Positions(r[j].queue, k) : e = <<j, i>>
  BY EntriesType
<1>4. R \subseteq QueueEntries(r, k) /\ O \subseteq QueueEntries(r, k)
      /\ QueueEntries(r, k) = R \cup O /\ R \cap O = {}
  OBVIOUS
<1>5. g \in [Positions(r[id].queue, k) -> O]
  BY <1>3
<1>6. \A a, b \in Positions(r[id].queue, k) : g[a] = g[b] => a = b
  OBVIOUS
<1>7. \A t \in O : \E a \in Positions(r[id].queue, k) : g[a] = t
  BY <1>3
<1> HIDE DEF R, O, g
<1>8. IsFiniteSet(O) /\ Cardinality(O) = Occurrences(r[id].queue, k)
  BY <1>2, <1>5, <1>6, <1>7, SameSize
<1>9. IsFiniteSet(R) /\ Cardinality(R) \in Nat
  BY <1>3, <1>4, FS_Subset, FS_CardinalityType
<1>10. Cardinality(R \cup O) = Cardinality(R) + Cardinality(O) - Cardinality(R \cap O)
  BY <1>8, <1>9, FS_Union
<1>11. Cardinality(R \cap O) = 0
  BY <1>4, FS_EmptySet
<1>12. Cardinality(QueueEntries(r, k)) = Cardinality(R) + Occurrences(r[id].queue, k)
  BY <1>2, <1>4, <1>8, <1>9, <1>10, <1>11
<1> QED
  BY <1>2, <1>9, <1>12 DEF R

(* If the queue of one input changes, the entries change as it does.       *)
LEMMA EntriesChange ==
    ASSUME NEW r \in [Ids -> Entry], NEW s \in [Ids -> Entry], NEW id \in Ids,
           \A j \in Ids : j # id => s[j].queue = r[j].queue, NEW k
    PROVE  Cardinality(QueueEntries(s, k)) + Occurrences(r[id].queue, k) =
               Cardinality(QueueEntries(r, k)) + Occurrences(s[id].queue, k)
<1> DEFINE R(x) == {e \in QueueEntries(x, k) : e[1] # id}
<1>1. R(s) = R(r)
  <2>1. \A e : e \in R(s) <=>
          \E j \in Ids : \E i \in Positions(s[j].queue, k) : e = <<j, i>> /\ j # id
    <3>1. \A e : e \in QueueEntries(s, k) <=>
             \E j \in Ids : \E i \in Positions(s[j].queue, k) : e = <<j, i>>
      BY EntriesType
    <3> QED
      BY <3>1
  <2>2. \A e : e \in R(r) <=>
          \E j \in Ids : \E i \in Positions(r[j].queue, k) : e = <<j, i>> /\ j # id
    <3>1. \A e : e \in QueueEntries(r, k) <=>
             \E j \in Ids : \E i \in Positions(r[j].queue, k) : e = <<j, i>>
      BY EntriesType
    <3> QED
      BY <3>1
  <2>3. \A j \in Ids : j # id => Positions(s[j].queue, k) = Positions(r[j].queue, k)
    OBVIOUS
  <2> HIDE DEF R
  <2>4. \A e : e \in R(s) <=> e \in R(r)
    BY <2>1, <2>2, <2>3
  <2> QED
    BY <2>4 DEF R
<1>2. /\ Cardinality(QueueEntries(r, k)) = Cardinality(R(r)) + Occurrences(r[id].queue, k)
      /\ Cardinality(QueueEntries(s, k)) = Cardinality(R(s)) + Occurrences(s[id].queue, k)
      /\ Cardinality(R(r)) \in Nat /\ Occurrences(r[id].queue, k) \in Nat
      /\ Occurrences(s[id].queue, k) \in Nat
  BY EntriesSplit
<1> HIDE DEF R
<1> QED
  BY <1>1, <1>2

(* Chunk x is appended to the queues of the inputs S.                      *)
AppendedFor(r, s, S, x) ==
    /\ r \in [Ids -> Entry] /\ s \in [Ids -> Entry] /\ S \in SUBSET Ids /\ x \in Chunks
    /\ \A j \in S : s[j].queue = Append(r[j].queue, x)
    /\ \A j \in Ids \ S : s[j].queue = r[j].queue

(* Then there is one more entry for each of them.                          *)
LEMMA EntriesQueued ==
    ASSUME NEW r, NEW s, NEW S, NEW x, AppendedFor(r, s, S, x), NEW k
    PROVE  Cardinality(QueueEntries(s, k)) =
               Cardinality(QueueEntries(r, k)) + (IF k = x THEN Cardinality(S) ELSE 0)
<1>0. /\ r \in [Ids -> Entry] /\ s \in [Ids -> Entry] /\ S \in SUBSET Ids /\ x \in Chunks
      /\ \A j \in S : s[j].queue = Append(r[j].queue, x)
      /\ \A j \in Ids \ S : s[j].queue = r[j].queue
  BY DEF AppendedFor
<1> USE <1>0
<1> DEFINE N == {<<j, Len(r[j].queue) + 1>> : j \in S}
<1> DEFINE g == [j \in S |-> <<j, Len(r[j].queue) + 1>>]
<1>1. /\ \A e : e \in QueueEntries(s, k) <=>
            \E j \in Ids : \E i \in Positions(s[j].queue, k) : e = <<j, i>>
      /\ \A e : e \in QueueEntries(r, k) <=>
            \E j \in Ids : \E i \in Positions(r[j].queue, k) : e = <<j, i>>
      /\ IsFiniteSet(QueueEntries(r, k)) /\ Cardinality(QueueEntries(r, k)) \in Nat
  BY EntriesType
<1>2. ASSUME NEW j \in S
      PROVE  Positions(s[j].queue, k) =
                Positions(r[j].queue, k) \cup (IF k = x THEN {Len(r[j].queue) + 1} ELSE {})
  <2>1. r[j].queue \in Seq(Chunks)
    BY DEF Entry
  <2>2. PICK q \in Seq(Chunks) : q = r[j].queue
    BY <2>1
  <2>3. Positions(Append(q, x), k) = Positions(q, k) \cup (IF k = x THEN {Len(q) + 1} ELSE {})
    BY DEF Positions
  <2> QED
    BY <2>2, <2>3
<1>3. \A j \in Ids \ S : Positions(s[j].queue, k) = Positions(r[j].queue, k)
  OBVIOUS
<1>4. \A j \in Ids : Len(r[j].queue) + 1 \notin Positions(r[j].queue, k)
  <2>1. ASSUME NEW j \in Ids, Len(r[j].queue) + 1 \in Positions(r[j].queue, k) PROVE FALSE
    <3>1. r[j].queue \in Seq(Chunks)
      BY DEF Entry
    <3>2. Len(r[j].queue) \in Nat /\ Len(r[j].queue) + 1 <= Len(r[j].queue)
      BY <2>1, <3>1 DEF Positions
    <3> QED
      BY <3>2
  <2> QED
    BY <2>1
<1>5. CASE k # x
  <2>1. \A j \in Ids : Positions(s[j].queue, k) = Positions(r[j].queue, k)
    BY <1>2, <1>3, <1>5
  <2>2. QueueEntries(s, k) = QueueEntries(r, k)
    BY <1>1, <2>1
  <2> QED
    BY <1>1, <1>5, <2>2
<1>6. CASE k = x
  <2>1. \A j \in S : Positions(s[j].queue, k) = Positions(r[j].queue, k) \cup {Len(r[j].queue) + 1}
    BY <1>2, <1>6
  <2>2. QueueEntries(s, k) = QueueEntries(r, k) \cup N
    <3>1. ASSUME NEW e \in QueueEntries(s, k) PROVE e \in QueueEntries(r, k) \cup N
      <4>1. PICK j \in Ids : \E i \in Positions(s[j].queue, k) : e = <<j, i>>
        BY <1>1
      <4>2. PICK i \in Positions(s[j].queue, k) : e = <<j, i>>
        BY <4>1
      <4>3. CASE i \in Positions(r[j].queue, k)
        BY <1>1, <4>2, <4>3
      <4>4. CASE i \notin Positions(r[j].queue, k)
        <5>1. j \in S /\ i = Len(r[j].queue) + 1
          BY <1>3, <2>1, <4>4
        <5> QED
          BY <4>2, <5>1
      <4> QED
        BY <4>3, <4>4
    <3>2. ASSUME NEW e \in QueueEntries(r, k) PROVE e \in QueueEntries(s, k)
      <4>1. PICK j \in Ids : \E i \in Positions(r[j].queue, k) : e = <<j, i>>
        BY <1>1
      <4>2. Positions(r[j].queue, k) \subseteq Positions(s[j].queue, k)
        BY <1>3, <2>1
      <4> QED
        BY <1>1, <4>1, <4>2
    <3>3. ASSUME NEW e \in N PROVE e \in QueueEntries(s, k)
      <4>1. PICK j \in S : e = <<j, Len(r[j].queue) + 1>>
        OBVIOUS
      <4>2. j \in Ids /\ Len(r[j].queue) + 1 \in Positions(s[j].queue, k)
        BY <2>1
      <4> QED
        BY <1>1, <4>1, <4>2
    <3> QED
      BY <3>1, <3>2, <3>3
  <2>3. QueueEntries(r, k) \cap N = {}
    <3>1. ASSUME NEW e \in N, e \in QueueEntries(r, k) PROVE FALSE
      <4>1. PICK j \in S : e = <<j, Len(r[j].queue) + 1>>
        OBVIOUS
      <4>2. PICK l \in Ids : \E i \in Positions(r[l].queue, k) : e = <<l, i>>
        BY <1>1, <3>1
      <4>3. l = j /\ Len(r[j].queue) + 1 \in Positions(r[j].queue, k)
        BY <4>1, <4>2
      <4> QED
        BY <1>4, <4>3
    <3> QED
      BY <3>1
  <2>4. g \in [S -> N] /\ (\A a, b \in S : g[a] = g[b] => a = b) /\ \A t \in N : \E a \in S : g[a] = t
    OBVIOUS
  <2>5. IsFiniteSet(S) /\ Cardinality(S) \in Nat
    BY IdsAssumption, FS_Subset, FS_CardinalityType
  <2> HIDE DEF N, g
  <2>6. IsFiniteSet(N) /\ Cardinality(N) = Cardinality(S)
    BY <2>4, <2>5, SameSize
  <2>7. Cardinality(QueueEntries(r, k) \cup N) =
           Cardinality(QueueEntries(r, k)) + Cardinality(N) - Cardinality(QueueEntries(r, k) \cap N)
    BY <1>1, <2>6, FS_Union
  <2>8. Cardinality(QueueEntries(r, k) \cap N) = 0
    BY <2>3, FS_EmptySet
  <2> QED
    BY <1>1, <1>6, <2>2, <2>5, <2>6, <2>7, <2>8
<1> QED
  BY <1>5, <1>6

One(a, b) == IF a = b THEN 1 ELSE 0

(* What the operations of Memory do to the usage of chunks and to the data *)
(* of those that stay in use.                                              *)
LEMMA MemoryUse ==
    ASSUME NEW m \in [Chunks -> Chunk], NEW k \in Chunks, NEW n \in Nat, NEW j \in Chunks
    PROVE  /\ decrementChunkUsage(m, k, n)[j].use =
                 IF j = k THEN (IF m[k].use <= n THEN 0 ELSE m[k].use - n) ELSE m[j].use
           /\ decrementChunkUsage(m, k, n)[j].use # 0 =>
                 /\ decrementChunkUsage(m, k, n)[j].msg = m[j].msg
                 /\ decrementChunkUsage(m, k, n)[j].eos = m[j].eos
           /\ incrementChunkUsage(m, k, n)[j].use = m[j].use + (IF j = k THEN n ELSE 0)
           /\ incrementChunkUsage(m, k, n)[j].msg = m[j].msg
           /\ incrementChunkUsage(m, k, n)[j].eos = m[j].eos
           /\ registerChunk(m, k)[j].use = IF j = k THEN 1 ELSE m[j].use
           /\ j # k => registerChunk(m, k)[j] = m[j]
<1>1. m[k] \in Chunk /\ m[j] \in Chunk /\ m[k].use \in Nat /\ m[j].use \in Nat
  BY DEF Chunk
<1>2. FreeChunk.use = 0 /\ [FreeChunk EXCEPT !.use = 1].use = 1
  BY DEF FreeChunk
<1>3. /\ [m[k] EXCEPT !.use = m[k].use - n].use = m[k].use - n
      /\ [m[k] EXCEPT !.use = m[k].use - n].msg = m[k].msg
      /\ [m[k] EXCEPT !.use = m[k].use - n].eos = m[k].eos
      /\ [m[k] EXCEPT !.use = @ + n].use = m[k].use + n
      /\ [m[k] EXCEPT !.use = @ + n].msg = m[k].msg
      /\ [m[k] EXCEPT !.use = @ + n].eos = m[k].eos
  BY <1>1 DEF Chunk
<1>4. /\ decrementChunkUsage(m, k, n)[j].use =
            IF j = k THEN (IF m[k].use <= n THEN 0 ELSE m[k].use - n) ELSE m[j].use
      /\ decrementChunkUsage(m, k, n)[j].use # 0 =>
            /\ decrementChunkUsage(m, k, n)[j].msg = m[j].msg
            /\ decrementChunkUsage(m, k, n)[j].eos = m[j].eos
  <2>1. CASE j # k
    BY <2>1 DEF decrementChunkUsage
  <2>2. CASE j = k /\ m[k].use <= n
    <3>1. decrementChunkUsage(m, k, n)[j] = FreeChunk
      BY <2>2 DEF decrementChunkUsage
    <3> QED
      BY <1>2, <2>2, <3>1
  <2>3. CASE j = k /\ ~(m[k].use <= n)
    <3>1. decrementChunkUsage(m, k, n)[j] = [m[k] EXCEPT !.use = m[k].use - n]
      BY <2>3 DEF decrementChunkUsage
    <3> QED
      BY <1>3, <2>3, <3>1
  <2> QED
    BY <2>1, <2>2, <2>3
<1>5. /\ incrementChunkUsage(m, k, n)[j].use = m[j].use + (IF j = k THEN n ELSE 0)
      /\ incrementChunkUsage(m, k, n)[j].msg = m[j].msg
      /\ incrementChunkUsage(m, k, n)[j].eos = m[j].eos
  <2>1. CASE j # k
    BY <1>1, <2>1 DEF incrementChunkUsage
  <2>2. CASE j = k
    <3>1. incrementChunkUsage(m, k, n)[j] = [m[k] EXCEPT !.use = @ + n]
      BY <2>2 DEF incrementChunkUsage
    <3> QED
      BY <1>3, <2>2, <3>1
  <2> QED
    BY <2>1, <2>2
<1>6. /\ registerChunk(m, k)[j].use = IF j = k THEN 1 ELSE m[j].use
      /\ j # k => registerChunk(m, k)[j] = m[j]
  <2>1. k # 0
    BY ChunksAssumption DEF Chunks
  <2> QED
    BY <1>2, <2>1 DEF registerChunk
<1> QED
  BY <1>4, <1>5, <1>6

(* The parts of Users(k), from the variables they depend on                *)
WritesOf(inf, k) == {w \in inf : w.chunk = k}
BlockedBy(ub, k) == {id \in Ids : ub[id] = k}
Marked(k, id, ubs) == {x \in {"writer", "shared"} : k = IF x = "writer" THEN id ELSE ubs}

(* Writes and blocking inputs can be counted,                              *)
LEMMA WritesType ==
    ASSUME NEW inf, IsFiniteSet(inf), NEW k
    PROVE  IsFiniteSet(WritesOf(inf, k)) /\ Cardinality(WritesOf(inf, k)) \in Nat
<1>1. WritesOf(inf, k) \subseteq inf
  BY DEF WritesOf
<1> QED
  BY <1>1, FS_Subset, FS_CardinalityType

(* both are finite;                                                        *)
LEMMA BlockedType ==
    ASSUME NEW ub, NEW k
    PROVE  IsFiniteSet(BlockedBy(ub, k)) /\ Cardinality(BlockedBy(ub, k)) \in Nat
<1>1. BlockedBy(ub, k) \subseteq Ids
  BY DEF BlockedBy
<1> QED
  BY <1>1, IdsAssumption, FS_Subset, FS_CardinalityType

(* the writer and the block of all shared inputs count as one each.        *)
LEMMA MarkedCount ==
    ASSUME NEW k, NEW id, NEW ubs
    PROVE  Cardinality(Marked(k, id, ubs)) = One(k, id) + One(k, ubs)
<1> DEFINE X == Marked(k, id, ubs)
<1>1. CASE k = id /\ k = ubs
  <2>1. X = {"writer"} \cup {"shared"}
    BY <1>1 DEF Marked
  <2>2. IsFiniteSet({"writer"}) /\ Cardinality({"writer"}) = 1 /\ "shared" \notin {"writer"}
    BY FS_Singleton
  <2>3. Cardinality({"writer"} \cup {"shared"}) = 1 + 1
    BY <2>2, FS_AddElement
  <2> QED
    BY <1>1, <2>1, <2>3 DEF One
<1>2. CASE k = id /\ k # ubs
  <2>1. X = {"writer"}
    BY <1>2 DEF Marked
  <2>2. Cardinality(X) = 1
    BY <2>1, FS_Singleton
  <2>3. One(k, id) = 1 /\ One(k, ubs) = 0
    BY <1>2 DEF One
  <2> QED
    BY <2>2, <2>3
<1>3. CASE k # id /\ k = ubs
  <2>1. X = {"shared"}
    BY <1>3 DEF Marked
  <2>2. Cardinality(X) = 1
    BY <2>1, FS_Singleton
  <2>3. One(k, id) = 0 /\ One(k, ubs) = 1
    BY <1>3 DEF One
  <2> QED
    BY <2>2, <2>3
<1>4. CASE k # id /\ k # ubs
  <2>1. X = {}
    BY <1>4 DEF Marked
  <2> QED
    BY <1>4, <2>1, FS_EmptySet DEF One
<1> QED
  BY <1>1, <1>2, <1>3, <1>4

(* The sum                                                                 *)
Sum(inf, ub, id, ubs, com, l, r, k) ==
    Cardinality(WritesOf(inf, k)) + Cardinality(BlockedBy(ub, k))
      + One(k, id) + One(k, ubs) + Occurrences(com, k) + l + Cardinality(QueueEntries(r, k))

(* Who else than the writer has a chunk                                    *)
HeldBy(inf, ub, ubs, com, r, k) ==
    \/ \E w \in inf : w.chunk = k
    \/ \E id \in Ids : ub[id] = k
    \/ k = ubs
    \/ k \in Range(com)
    \/ \E id \in Ids : k \in Range(r[id].queue)

Held(k) == HeldBy(inflight, unblock, unblockShared, common, reg, k)

(* The parts are numbers, and each holder counts.                          *)
LEMMA SumParts ==
    ASSUME NEW inf, IsFiniteSet(inf), NEW ub, NEW com \in Seq(Chunks),
           NEW r \in [Ids -> Entry], NEW k
    PROVE  /\ Cardinality(WritesOf(inf, k)) \in Nat /\ Cardinality(BlockedBy(ub, k)) \in Nat
           /\ Occurrences(com, k) \in Nat /\ Cardinality(QueueEntries(r, k)) \in Nat
           /\ \A x : One(k, x) \in {0, 1} /\ (k = x <=> One(k, x) = 1)
           /\ \A ubs : HeldBy(inf, ub, ubs, com, r, k) =>
                 Cardinality(WritesOf(inf, k)) + Cardinality(BlockedBy(ub, k)) + One(k, ubs)
                   + Occurrences(com, k) + Cardinality(QueueEntries(r, k)) >= 1
<1> DEFINE A == WritesOf(inf, k)
<1> DEFINE B == BlockedBy(ub, k)
<1> DEFINE E == QueueEntries(r, k)
<1>1. /\ Cardinality(A) \in Nat /\ IsFiniteSet(A) /\ Cardinality(B) \in Nat /\ IsFiniteSet(B)
      /\ Occurrences(com, k) \in Nat /\ Cardinality(E) \in Nat
  BY WritesType, BlockedType, PositionsType, EntriesType
<1>2. \A x : One(k, x) \in {0, 1} /\ (k = x <=> One(k, x) = 1)
  BY DEF One
<1>3. (\E w \in inf : w.chunk = k) => A # {}
  BY DEF WritesOf
<1>4. (\E id \in Ids : ub[id] = k) => B # {}
  BY DEF BlockedBy
<1> HIDE DEF A, B
<1>5. (A # {} => Cardinality(A) # 0) /\ (B # {} => Cardinality(B) # 0)
  BY <1>1, FS_EmptySet
<1>6. k \in Range(com) => Occurrences(com, k) # 0
  BY PositionsType
<1>7. (\E id \in Ids : k \in Range(r[id].queue)) => Cardinality(E) # 0
  BY EntriesType
<1> HIDE DEF E
<1>8. ASSUME NEW ubs, HeldBy(inf, ub, ubs, com, r, k)
      PROVE  Cardinality(A) + Cardinality(B) + One(k, ubs) + Occurrences(com, k)
               + Cardinality(E) >= 1
  <2>1. \/ Cardinality(A) # 0 \/ Cardinality(B) # 0 \/ One(k, ubs) = 1
        \/ Occurrences(com, k) # 0 \/ Cardinality(E) # 0
    BY <1>2, <1>3, <1>4, <1>5, <1>6, <1>7, <1>8 DEF HeldBy
  <2>2. One(k, ubs) \in {0, 1}
    BY <1>2
  <2> QED
    BY <1>1, <2>1, <2>2
<1> QED
  BY <1>1, <1>2, <1>8 DEF A, B, E

(* Users(k) is that sum,                                                   *)
LEMMA UsersSum ==
    ASSUME Types, IsFiniteSet(inflight), leaked \in [Chunks -> Nat], NEW k \in Chunks
    PROVE  /\ Users(k) = Sum(inflight, unblock, chunkId, unblockShared, common,
                              leaked[k], reg, k)
           /\ leaked[k] \in Nat /\ common \in Seq(Chunks) /\ reg \in [Ids -> Entry]
<1>1. common \in Seq(Chunks) /\ reg \in [Ids -> Entry] /\ leaked[k] \in Nat
  BY DEF Types
<1> DEFINE A == Cardinality(WritesOf(inflight, k))
<1> DEFINE B == Cardinality(BlockedBy(unblock, k))
<1> DEFINE X == Cardinality(Marked(k, chunkId, unblockShared))
<1> DEFINE C == Occurrences(common, k)
<1> DEFINE E == Cardinality(QueueEntries(reg, k))
<1>2. /\ A \in Nat /\ B \in Nat /\ C \in Nat /\ E \in Nat
      /\ One(k, chunkId) \in {0, 1} /\ One(k, unblockShared) \in {0, 1}
  BY <1>1, SumParts
<1>3. X = One(k, chunkId) + One(k, unblockShared)
  BY MarkedCount
<1>4. Users(k) = A + B + X + C + leaked[k] + E
  BY DEF Users, WritesOf, BlockedBy, Marked
<1>5. Sum(inflight, unblock, chunkId, unblockShared, common, leaked[k], reg, k) =
         A + B + One(k, chunkId) + One(k, unblockShared) + C + leaked[k] + E
  BY DEF Sum
<1> HIDE DEF A, B, X, C, E
<1>6. A + B + X + C + leaked[k] + E =
         A + B + One(k, chunkId) + One(k, unblockShared) + C + leaked[k] + E
  BY <1>1, <1>2, <1>3
<1> QED
  BY <1>1, <1>4, <1>5, <1>6

(* also after the step.                                                    *)
LEMMA UsersSumNext ==
    ASSUME Types', IsFiniteSet(inflight'), leaked' \in [Chunks -> Nat], NEW k \in Chunks
    PROVE  /\ Users(k)' = Sum(inflight', unblock', chunkId', unblockShared', common',
                              leaked'[k], reg', k)
           /\ leaked'[k] \in Nat /\ common' \in Seq(Chunks) /\ reg' \in [Ids -> Entry]
<1>1. common' \in Seq(Chunks) /\ reg' \in [Ids -> Entry] /\ leaked'[k] \in Nat
  BY DEF Types
<1> DEFINE A == Cardinality(WritesOf(inflight', k))
<1> DEFINE B == Cardinality(BlockedBy(unblock', k))
<1> DEFINE X == Cardinality(Marked(k, chunkId', unblockShared'))
<1> DEFINE C == Occurrences(common', k)
<1> DEFINE E == Cardinality(QueueEntries(reg', k))
<1>2. /\ A \in Nat /\ B \in Nat /\ C \in Nat /\ E \in Nat
      /\ One(k, chunkId') \in {0, 1} /\ One(k, unblockShared') \in {0, 1}
  BY <1>1, SumParts
<1>3. X = One(k, chunkId') + One(k, unblockShared')
  BY MarkedCount
<1>4. Users(k)' = A + B + X + C + leaked'[k] + E
  BY DEF Users, WritesOf, BlockedBy, Marked, Occurrences, QueueEntries
<1>5. Sum(inflight', unblock', chunkId', unblockShared', common', leaked'[k], reg', k) =
         A + B + One(k, chunkId') + One(k, unblockShared') + C + leaked'[k] + E
  BY DEF Sum
<1> HIDE DEF A, B, X, C, E
<1>6. A + B + X + C + leaked'[k] + E =
         A + B + One(k, chunkId') + One(k, unblockShared') + C + leaked'[k] + E
  BY <1>1, <1>2, <1>3
<1> QED
  BY <1>1, <1>4, <1>5, <1>6

(* A chunk that is held is in use, and is not the one of the writer,       *)
LEMMA HeldUse ==
    ASSUME Types, StockInv, NEW k \in Chunks, Held(k)
    PROVE  mem[k].use >= 1 /\ k # chunkId
<1>0. /\ IsFiniteSet(inflight) /\ leaked \in [Chunks -> Nat] /\ k # 0
      /\ mem[k].use = Users(k) /\ (chunkId # 0 => mem[chunkId].use = 1)
  BY ChunksAssumption DEF Chunks, StockInv, ChunkAccounting
<1>1. /\ Users(k) = Sum(inflight, unblock, chunkId, unblockShared, common,
                      leaked[k], reg, k)
      /\ leaked[k] \in Nat /\ common \in Seq(Chunks) /\ reg \in [Ids -> Entry]
  BY <1>0, UsersSum
<1>2. HeldBy(inflight, unblock, unblockShared, common, reg, k)
  BY DEF Held
<1> DEFINE A == Cardinality(WritesOf(inflight, k))
<1> DEFINE B == Cardinality(BlockedBy(unblock, k))
<1> DEFINE C == Occurrences(common, k)
<1> DEFINE E == Cardinality(QueueEntries(reg, k))
<1>3. /\ A \in Nat /\ B \in Nat /\ C \in Nat /\ E \in Nat
      /\ One(k, chunkId) \in {0, 1} /\ One(k, unblockShared) \in {0, 1}
      /\ k = chunkId <=> One(k, chunkId) = 1
      /\ A + B + One(k, unblockShared) + C + E >= 1
  BY <1>0, <1>1, <1>2, SumParts
<1>4. Users(k) = A + B + One(k, chunkId) + One(k, unblockShared) + C + leaked[k] + E
  BY <1>1 DEF Sum
<1> HIDE DEF A, B, C, E
<1> QED
  BY <1>0, <1>1, <1>3, <1>4

(* also after the step.                                                    *)
LEMMA HeldUseNext ==
    ASSUME Types', IsFiniteSet(inflight'), leaked' \in [Chunks -> Nat], NEW k \in Chunks,
           mem'[k].use = Users(k)', chunkId' # 0 => mem'[chunkId'].use = 1, Held(k)'
    PROVE  mem'[k].use >= 1 /\ k # chunkId'
<1>0. /\ IsFiniteSet(inflight') /\ leaked' \in [Chunks -> Nat] /\ k # 0
      /\ mem'[k].use = Users(k)' /\ (chunkId' # 0 => mem'[chunkId'].use = 1)
  BY ChunksAssumption DEF Chunks
<1>1. /\ Users(k)' = Sum(inflight', unblock', chunkId', unblockShared', common',
                      leaked'[k], reg', k)
      /\ leaked'[k] \in Nat /\ common' \in Seq(Chunks) /\ reg' \in [Ids -> Entry]
  BY <1>0, UsersSumNext
<1>2. HeldBy(inflight', unblock', unblockShared', common', reg', k)
  BY DEF Held, HeldBy
<1> DEFINE A == Cardinality(WritesOf(inflight', k))
<1> DEFINE B == Cardinality(BlockedBy(unblock', k))
<1> DEFINE C == Occurrences(common', k)
<1> DEFINE E == Cardinality(QueueEntries(reg', k))
<1>3. /\ A \in Nat /\ B \in Nat /\ C \in Nat /\ E \in Nat
      /\ One(k, chunkId') \in {0, 1} /\ One(k, unblockShared') \in {0, 1}
      /\ k = chunkId' <=> One(k, chunkId') = 1
      /\ A + B + One(k, unblockShared') + C + E >= 1
  BY <1>0, <1>1, <1>2, SumParts
<1>4. Users(k)' = A + B + One(k, chunkId') + One(k, unblockShared') + C + leaked'[k] + E
  BY <1>1 DEF Sum
<1> HIDE DEF A, B, C, E
<1> QED
  BY <1>0, <1>1, <1>3, <1>4

(* What every step does to the chunks                                      *)
StockStep ==
    /\ IsFiniteSet(inflight') /\ leaked' \in [Chunks -> Nat]
    /\ \A k \in Chunks : mem'[k].use = Users(k)'
    /\ \A k \in Chunks : k # chunkId /\ k # chunkId' /\ mem'[k].use # 0 =>
          mem'[k].msg = mem[k].msg /\ mem'[k].eos = mem[k].eos
    /\ \A w \in inflight' \ inflight : mem'[w.chunk].msg = w.msg
    /\ chunkId' # 0 => mem'[chunkId'].use = 1
    /\ writer' # "idle" => chunkId' = 0

(* The data of a chunk stays while it is held.                             *)
LEMMA DataKept ==
    ASSUME Types, Types', StockInv, StockStep
    PROVE  \A k \in Chunks : Held(k) /\ Held(k)' =>
              mem'[k].msg = mem[k].msg /\ mem'[k].eos = mem[k].eos
<1> SUFFICES ASSUME NEW k \in Chunks, Held(k), Held(k)'
             PROVE  mem'[k].msg = mem[k].msg /\ mem'[k].eos = mem[k].eos
  OBVIOUS
<1>1. k # chunkId
  BY HeldUse
<1>2. mem'[k].use >= 1 /\ k # chunkId'
  BY HeldUseNext DEF StockStep
<1>3. mem'[k].use # 0
  BY <1>2
<1> QED
  BY <1>1, <1>2, <1>3 DEF StockStep

(* So the stock is kept.                                                   *)
LEMMA StockKept ==
    ASSUME Types, Types', StockInv, StockStep
    PROVE  StockInv'
<1>1. ASSUME NEW w \in inflight'
      PROVE  mem'[w.chunk].msg = w.msg
  <2>1. CASE w \in inflight
    <3>1. w.chunk \in Chunks /\ mem[w.chunk].msg = w.msg
      BY <2>1 DEF Types, StockInv, ChunkAccounting
    <3>2. Held(w.chunk) /\ Held(w.chunk)'
      BY <2>1 DEF Held, HeldBy
    <3> QED
      BY <3>1, <3>2, DataKept
  <2>2. CASE w \notin inflight
    BY <2>2 DEF StockStep
  <2> QED
    BY <2>1, <2>2
<1>2. ChunkAccounting'
  BY <1>1 DEF ChunkAccounting, StockStep
<1> QED
  BY <1>2 DEF StockInv, StockStep

-----------------------------------------------------------------------------
(* How the parts change                                                    *)

(* A write begins or ends,                                                 *)
LEMMA WritesAdd ==
    ASSUME NEW inf, IsFiniteSet(inf), NEW w, w \notin inf
    PROVE  /\ IsFiniteSet(inf \cup {w})
           /\ \A k : Cardinality(WritesOf(inf \cup {w}, k)) =
                        Cardinality(WritesOf(inf, k)) + One(k, w.chunk)
<1>1. IsFiniteSet(inf \cup {w})
  BY FS_AddElement
<1>2. ASSUME NEW k
      PROVE  Cardinality(WritesOf(inf \cup {w}, k)) =
                Cardinality(WritesOf(inf, k)) + One(k, w.chunk)
  <2>0. IsFiniteSet(WritesOf(inf, k)) /\ Cardinality(WritesOf(inf, k)) \in Nat
    BY WritesType
  <2>1. CASE w.chunk = k
    <3>1. WritesOf(inf \cup {w}, k) = WritesOf(inf, k) \cup {w} /\ w \notin WritesOf(inf, k)
      BY <2>1 DEF WritesOf
    <3>2. Cardinality(WritesOf(inf, k) \cup {w}) = Cardinality(WritesOf(inf, k)) + 1
      BY <2>0, <3>1, FS_AddElement
    <3> QED
      BY <2>1, <3>1, <3>2 DEF One
  <2>2. CASE w.chunk # k
    <3>1. WritesOf(inf \cup {w}, k) = WritesOf(inf, k)
      BY <2>2 DEF WritesOf
    <3>2. One(k, w.chunk) = 0
      BY <2>2 DEF One
    <3> QED
      BY <2>0, <3>1, <3>2
  <2> QED
    BY <2>1, <2>2
<1> QED
  BY <1>1, <1>2

(* or ends,                                                                *)
LEMMA WritesRemove ==
    ASSUME NEW inf, IsFiniteSet(inf), NEW w \in inf
    PROVE  /\ IsFiniteSet(inf \ {w})
           /\ \A k : Cardinality(WritesOf(inf, k)) =
                        Cardinality(WritesOf(inf \ {w}, k)) + One(k, w.chunk)
<1>1. IsFiniteSet(inf \ {w}) /\ w \notin inf \ {w} /\ (inf \ {w}) \cup {w} = inf
  BY FS_RemoveElement
<1> DEFINE rest == inf \ {w}
<1> HIDE DEF rest
<1>2. IsFiniteSet(rest) /\ w \notin rest /\ rest \cup {w} = inf
  BY <1>1 DEF rest
<1>3. \A k : Cardinality(WritesOf(rest \cup {w}, k)) =
                Cardinality(WritesOf(rest, k)) + One(k, w.chunk)
  BY <1>2, WritesAdd
<1> QED
  BY <1>2, <1>3 DEF rest

(* or several writes of chunk x begin, one for each of some inputs,        *)
OneFor(f, S, N, x) ==
    /\ S \in SUBSET Ids /\ f \in [S -> N] /\ \A a, b \in S : f[a] = f[b] => a = b
    /\ \A w \in N : w.chunk = x /\ \E a \in S : f[a] = w

(* which are counted,                                                      *)
LEMMA WritesAddAll ==
    ASSUME NEW inf, IsFiniteSet(inf), NEW S, NEW N, N \cap inf = {},
           NEW x, NEW f, OneFor(f, S, N, x)
    PROVE  /\ IsFiniteSet(inf \cup N)
           /\ \A k : Cardinality(WritesOf(inf \cup N, k)) =
                        Cardinality(WritesOf(inf, k)) + (IF k = x THEN Cardinality(S) ELSE 0)
<1>0. /\ S \in SUBSET Ids /\ f \in [S -> N] /\ \A a, b \in S : f[a] = f[b] => a = b
      /\ \A w \in N : w.chunk = x /\ \E a \in S : f[a] = w
  BY DEF OneFor
<1> USE <1>0
<1>1. IsFiniteSet(S) /\ Cardinality(S) \in Nat
  BY IdsAssumption, FS_Subset, FS_CardinalityType
<1>2. IsFiniteSet(N) /\ Cardinality(N) = Cardinality(S)
  BY <1>1, SameSize
<1>3. IsFiniteSet(inf \cup N)
  BY <1>2, FS_Union
<1>4. ASSUME NEW k
      PROVE  Cardinality(WritesOf(inf \cup N, k)) =
                Cardinality(WritesOf(inf, k)) + (IF k = x THEN Cardinality(S) ELSE 0)
  <2>0. IsFiniteSet(WritesOf(inf, k)) /\ Cardinality(WritesOf(inf, k)) \in Nat
    BY WritesType
  <2>1. CASE k = x
    <3>1. WritesOf(inf \cup N, k) = WritesOf(inf, k) \cup N /\ WritesOf(inf, k) \cap N = {}
      BY <2>1 DEF WritesOf
    <3>2. Cardinality(WritesOf(inf, k) \cup N) =
             Cardinality(WritesOf(inf, k)) + Cardinality(N) - Cardinality(WritesOf(inf, k) \cap N)
      BY <1>2, <2>0, FS_Union
    <3>3. Cardinality(WritesOf(inf, k) \cap N) = 0
      BY <3>1, FS_EmptySet
    <3>4. Cardinality(WritesOf(inf, k) \cup N) = Cardinality(WritesOf(inf, k)) + Cardinality(S)
      BY <1>1, <1>2, <2>0, <3>2, <3>3
    <3> QED
      BY <2>1, <3>1, <3>4
  <2>2. CASE k # x
    <3>1. WritesOf(inf \cup N, k) = WritesOf(inf, k)
      BY <2>2 DEF WritesOf
    <3> QED
      BY <2>0, <2>2, <3>1
  <2> QED
    BY <2>1, <2>2
<1> QED
  BY <1>3, <1>4

(* an input does not block any more,                                       *)
LEMMA BlockedClear ==
    ASSUME NEW ub \in [Ids -> 0..MaxChunks], NEW id \in Ids, NEW k \in Chunks
    PROVE  Cardinality(BlockedBy(ub, k)) =
              Cardinality(BlockedBy([ub EXCEPT ![id] = 0], k)) + One(k, ub[id])
<1> DEFINE vb == [ub EXCEPT ![id] = 0]
<1>0. k # 0
  BY ChunksAssumption DEF Chunks
<1>1. BlockedBy(vb, k) = BlockedBy(ub, k) \ {id}
  BY <1>0 DEF BlockedBy
<1>2. IsFiniteSet(BlockedBy(ub, k)) /\ Cardinality(BlockedBy(ub, k)) \in Nat
  BY BlockedType
<1>3. Cardinality(BlockedBy(ub, k) \ {id}) =
         IF id \in BlockedBy(ub, k) THEN Cardinality(BlockedBy(ub, k)) - 1
         ELSE Cardinality(BlockedBy(ub, k))
  BY <1>2, FS_RemoveElement
<1>4. id \in BlockedBy(ub, k) <=> ub[id] = k
  BY DEF BlockedBy
<1> HIDE DEF vb
<1>5. Cardinality(BlockedBy(ub, k)) = Cardinality(BlockedBy(vb, k)) + One(k, ub[id])
  BY <1>1, <1>2, <1>3, <1>4 DEF One
<1> QED
  BY <1>5 DEF vb

(* some inputs block: the writer waits with chunk x for the inputs S,      *)
Blocks(ub, vb, S, x) ==
    /\ S \in SUBSET Ids /\ \A id \in Ids : ub[id] = 0
    /\ vb = [id \in Ids |-> IF id \in S THEN x ELSE ub[id]]

(* and for nobody else,                                                    *)
LEMMA BlockedSet ==
    ASSUME NEW ub, NEW vb, NEW S, NEW x, Blocks(ub, vb, S, x), NEW k \in Chunks
    PROVE  /\ Cardinality(BlockedBy(vb, k)) = IF k = x THEN Cardinality(S) ELSE 0
           /\ Cardinality(BlockedBy(ub, k)) = 0
<1>0. k # 0
  BY ChunksAssumption DEF Chunks
<1>1. BlockedBy(vb, k) = IF k = x THEN S ELSE {}
  BY <1>0 DEF BlockedBy, Blocks
<1>2. BlockedBy(ub, k) = {}
  BY <1>0 DEF BlockedBy, Blocks
<1> QED
  BY <1>1, <1>2, FS_EmptySet

(* or the queues stay.                                                     *)
LEMMA EntriesSame ==
    ASSUME NEW r \in [Ids -> Entry], NEW s \in [Ids -> Entry],
           \A j \in Ids : s[j].queue = r[j].queue
    PROVE  \A k : QueueEntries(s, k) = QueueEntries(r, k)
<1> SUFFICES ASSUME NEW k PROVE QueueEntries(s, k) = QueueEntries(r, k)
  OBVIOUS
<1>1. \A e : e \in QueueEntries(s, k) <=>
         \E j \in Ids : \E i \in Positions(s[j].queue, k) : e = <<j, i>>
  BY EntriesType
<1>2. \A e : e \in QueueEntries(r, k) <=>
         \E j \in Ids : \E i \in Positions(r[j].queue, k) : e = <<j, i>>
  BY EntriesType
<1>3. \A j \in Ids : Positions(s[j].queue, k) = Positions(r[j].queue, k)
  OBVIOUS
<1> QED
  BY <1>1, <1>2, <1>3

-----------------------------------------------------------------------------
(* Every action keeps the stock.                                           *)

(* The facts that all of them start from                                   *)
LEMMA StockFacts ==
    ASSUME Inv, StockInv
    PROVE  /\ Types /\ LinkInv /\ IsFiniteSet(inflight) /\ leaked \in [Chunks -> Nat]
           /\ mem \in [Chunks -> Chunk] /\ reg \in [Ids -> Entry] /\ common \in Seq(Chunks)
           /\ unblock \in [Ids -> 0..MaxChunks] /\ unblockShared \in 0..MaxChunks
           /\ \A id \in Ids : reg[id] \in Entry /\ reg[id].queue \in Seq(Chunks)
           /\ \A id \in Ids : unblock[id] # 0 => unblock[id] \in Chunks
           /\ unblockShared # 0 => unblockShared \in Chunks
           /\ 0 \notin Chunks
           /\ \A k \in Chunks :
                 /\ mem[k].use \in Nat /\ leaked[k] \in Nat
                 /\ mem[k].use = Users(k)
                 /\ Users(k) = Sum(inflight, unblock, chunkId, unblockShared, common,
                                   leaked[k], reg, k)
                 /\ Cardinality(WritesOf(inflight, k)) \in Nat
                 /\ Cardinality(BlockedBy(unblock, k)) \in Nat
                 /\ Occurrences(common, k) \in Nat /\ Cardinality(QueueEntries(reg, k)) \in Nat
                 /\ One(k, chunkId) \in {0, 1} /\ One(k, unblockShared) \in {0, 1}
           /\ chunkId # 0 => mem[chunkId].use = 1
           /\ writer # "idle" => chunkId = 0
<1>1. /\ Types /\ LinkInv /\ IsFiniteSet(inflight) /\ leaked \in [Chunks -> Nat]
      /\ mem \in [Chunks -> Chunk] /\ reg \in [Ids -> Entry] /\ common \in Seq(Chunks)
      /\ unblock \in [Ids -> 0..MaxChunks] /\ unblockShared \in 0..MaxChunks
      /\ \A k \in Chunks : mem[k].use = Users(k)
      /\ chunkId # 0 => mem[chunkId].use = 1
      /\ writer # "idle" => chunkId = 0
  BY DEF Inv, Types, StockInv, ChunkAccounting
<1>2. \A id \in Ids : reg[id] \in Entry /\ reg[id].queue \in Seq(Chunks)
  BY <1>1 DEF Entry
<1>3. \A n \in 0..MaxChunks : n # 0 => n \in Chunks
  BY ChunksAssumption DEF Chunks
<1>4. 0 \notin Chunks
  BY ChunksAssumption DEF Chunks
<1>5. ASSUME NEW k \in Chunks
      PROVE  /\ mem[k].use \in Nat /\ leaked[k] \in Nat
             /\ Users(k) = Sum(inflight, unblock, chunkId, unblockShared, common,
                               leaked[k], reg, k)
             /\ Cardinality(WritesOf(inflight, k)) \in Nat
             /\ Cardinality(BlockedBy(unblock, k)) \in Nat
             /\ Occurrences(common, k) \in Nat /\ Cardinality(QueueEntries(reg, k)) \in Nat
             /\ One(k, chunkId) \in {0, 1} /\ One(k, unblockShared) \in {0, 1}
  BY <1>1, UsersSum, SumParts, MemoryTypes
<1> QED
  BY <1>1, <1>2, <1>3, <1>4, <1>5

(* Most leave chunks and their users alone.                                *)
LEMMA StockQuiet ==
    ASSUME Inv, StockInv, Types',
           UNCHANGED <<mem, chunkId, inflight, unblock, unblockShared, common, leaked>>,
           writer' # "idle" => chunkId' = 0,
           \A id \in Ids : reg'[id].queue = reg[id].queue
    PROVE  StockStep
<1>1. \A k \in Chunks : Users(k)' = Users(k)
  <2>1. reg \in [Ids -> Entry] /\ reg' \in [Ids -> Entry]
    BY DEF Inv, Types
  <2>2. \A k : QueueEntries(reg', k) = QueueEntries(reg, k)
    BY <2>1, EntriesSame
  <2>3. IsFiniteSet(inflight') /\ leaked' \in [Chunks -> Nat]
    BY StockFacts
  <2>4. ASSUME NEW k \in Chunks PROVE Users(k)' = Users(k)
    <3>1. Users(k)' = Sum(inflight', unblock', chunkId', unblockShared', common',
                          leaked'[k], reg', k)
      BY <2>3, UsersSumNext
    <3>2. Users(k) = Sum(inflight, unblock, chunkId, unblockShared, common, leaked[k], reg, k)
      BY StockFacts
    <3> QED
      BY <2>2, <3>1, <3>2 DEF Sum
  <2> QED
    BY <2>4
<1> QED
  BY <1>1, StockFacts DEF StockStep

(* The use of a chunk in numbers, before and after a step                  *)
Counted(k) ==
    /\ mem[k].use \in Nat /\ leaked[k] \in Nat
    /\ mem[k].use =
          Cardinality(WritesOf(inflight, k)) + Cardinality(BlockedBy(unblock, k))
            + One(k, chunkId) + One(k, unblockShared) + Occurrences(common, k)
            + leaked[k] + Cardinality(QueueEntries(reg, k))
    /\ Cardinality(WritesOf(inflight, k)) \in Nat
    /\ Cardinality(BlockedBy(unblock, k)) \in Nat
    /\ Occurrences(common, k) \in Nat /\ Cardinality(QueueEntries(reg, k)) \in Nat
    /\ One(k, chunkId) \in {0, 1} /\ One(k, unblockShared) \in {0, 1}

CountedNext(k) ==
    /\ leaked'[k] \in Nat
    /\ Users(k)' =
          Cardinality(WritesOf(inflight', k)) + Cardinality(BlockedBy(unblock', k))
            + One(k, chunkId') + One(k, unblockShared') + Occurrences(common', k)
            + leaked'[k] + Cardinality(QueueEntries(reg', k))
    /\ Cardinality(WritesOf(inflight', k)) \in Nat
    /\ Cardinality(BlockedBy(unblock', k)) \in Nat
    /\ Occurrences(common', k) \in Nat /\ Cardinality(QueueEntries(reg', k)) \in Nat
    /\ One(k, chunkId') \in {0, 1} /\ One(k, unblockShared') \in {0, 1}

(* Users(k) adds them up,                                                  *)
LEMMA StockAt ==
    ASSUME Inv, StockInv, NEW k \in Chunks
    PROVE  Counted(k)
<1>1. /\ mem[k].use = Users(k)
      /\ Users(k) = Sum(inflight, unblock, chunkId, unblockShared, common, leaked[k], reg, k)
  BY StockFacts
<1>2. mem[k].use =
         Cardinality(WritesOf(inflight, k)) + Cardinality(BlockedBy(unblock, k))
           + One(k, chunkId) + One(k, unblockShared) + Occurrences(common, k)
           + leaked[k] + Cardinality(QueueEntries(reg, k))
  BY <1>1 DEF Sum
<1> QED
  BY <1>2, StockFacts DEF Counted

(* also after the step.                                                    *)
LEMMA StockAtNext ==
    ASSUME Types', IsFiniteSet(inflight'), leaked' \in [Chunks -> Nat], NEW k \in Chunks
    PROVE  CountedNext(k)
<1>1. /\ Users(k)' = Sum(inflight', unblock', chunkId', unblockShared', common',
                         leaked'[k], reg', k)
      /\ leaked'[k] \in Nat /\ common' \in Seq(Chunks) /\ reg' \in [Ids -> Entry]
  BY UsersSumNext
<1>2. Users(k)' =
         Cardinality(WritesOf(inflight', k)) + Cardinality(BlockedBy(unblock', k))
           + One(k, chunkId') + One(k, unblockShared') + Occurrences(common', k)
           + leaked'[k] + Cardinality(QueueEntries(reg', k))
  BY <1>1 DEF Sum
<1>3. /\ Cardinality(WritesOf(inflight', k)) \in Nat /\ Cardinality(BlockedBy(unblock', k)) \in Nat
      /\ Occurrences(common', k) \in Nat /\ Cardinality(QueueEntries(reg', k)) \in Nat
      /\ One(k, chunkId') \in {0, 1} /\ One(k, unblockShared') \in {0, 1}
  BY <1>1, SumParts
<1> QED
  BY <1>1, <1>2, <1>3 DEF CountedNext

(* A decrement releases one use.                                           *)
LEMMA Released ==
    ASSUME Inv, StockInv, NEW x \in Chunks, Held(x), mem' = decrementChunkUsage(mem, x, 1),
           chunkId' = chunkId
    PROVE  /\ \A k \in Chunks :
                 /\ mem'[k].use = mem[k].use - One(k, x)
                 /\ mem'[k].use # 0 => mem'[k].msg = mem[k].msg /\ mem'[k].eos = mem[k].eos
           /\ chunkId' # 0 => mem'[chunkId'].use = 1
<1>0. mem \in [Chunks -> Chunk] /\ 1 \in Nat /\ \A k \in Chunks : mem[k].use \in Nat
  BY StockFacts
<1>1. mem[x].use >= 1 /\ x # chunkId
  BY HeldUse DEF Inv
<1>2. ASSUME NEW k \in Chunks
      PROVE  /\ mem'[k].use = mem[k].use - One(k, x)
             /\ mem'[k].use # 0 => mem'[k].msg = mem[k].msg /\ mem'[k].eos = mem[k].eos
  <2>1. PICK one \in Nat : one = 1
    OBVIOUS
  <2>2. /\ decrementChunkUsage(mem, x, one)[k].use =
              IF k = x THEN (IF mem[x].use <= one THEN 0 ELSE mem[x].use - one) ELSE mem[k].use
        /\ decrementChunkUsage(mem, x, one)[k].use # 0 =>
              /\ decrementChunkUsage(mem, x, one)[k].msg = mem[k].msg
              /\ decrementChunkUsage(mem, x, one)[k].eos = mem[k].eos
    BY <1>0, MemoryUse
  <2>3. mem' = decrementChunkUsage(mem, x, one)
    BY <2>1
  <2>4. mem'[k].use = IF k = x THEN (IF mem[x].use <= 1 THEN 0 ELSE mem[x].use - 1)
                      ELSE mem[k].use
    BY <2>1, <2>2, <2>3
  <2>5. mem[k].use \in Nat /\ mem[x].use \in Nat
    BY <1>0
  <2>6. mem'[k].use = mem[k].use - One(k, x)
    BY <1>1, <2>4, <2>5 DEF One
  <2> QED
    BY <2>2, <2>3, <2>6
<1>3. ASSUME chunkId # 0 PROVE mem'[chunkId].use = 1
  <2>1. chunkId \in Chunks /\ mem[chunkId].use = 1
    BY <1>3, StockFacts, ChunksAssumption DEF Inv, Types, Chunks
  <2>2. mem'[chunkId].use = mem[chunkId].use - One(chunkId, x) /\ One(chunkId, x) = 0
    BY <1>1, <1>2, <2>1 DEF One
  <2> QED
    BY <2>1, <2>2
<1> QED
  BY <1>2, <1>3

(* A connection is replaced: what was queued for the old one leaks.        *)
LEMMA StockHello ==
    ASSUME Inv, StockInv, Types', NEW id \in Ids, hello(id)
    PROVE  StockStep
<1>0. /\ reg' \in [Ids -> Entry]
      /\ UNCHANGED <<mem, chunkId, writer, inflight, unblock, unblockShared, common>>
      /\ leaked' = [k \in Chunks |-> leaked[k] + Occurrences(reg[id].queue, k)]
      /\ reg'[id].queue = <<>> /\ \A j \in Ids : j # id => reg'[j].queue = reg[j].queue
  <2>1. \E c \in Conns : reg' = [reg EXCEPT ![id] =
                            [Nobody EXCEPT !.as = setup.distribution[id], !.tcp = c]]
    BY DEF hello
  <2>2. \A c : [Nobody EXCEPT !.as = setup.distribution[id], !.tcp = c].queue = <<>>
    BY DEF Nobody
  <2>3. reg'[id].queue = <<>> /\ \A j \in Ids : j # id => reg'[j].queue = reg[j].queue
    BY <2>1, <2>2, StockFacts
  <2> QED
    BY <2>3 DEF hello, Types, blocks, writing
<1>1. \A k : Occurrences(<<>>, k) = 0
  <2>1. \A k : {i \in 1..Len(<<>>) : <<>>[i] = k} = {}
    OBVIOUS
  <2> QED
    BY <2>1, FS_EmptySet DEF Occurrences
<1>2. \A k : Occurrences(reg[id].queue, k) \in Nat
  BY StockFacts, PositionsType
<1>3. leaked' \in [Chunks -> Nat] /\ IsFiniteSet(inflight')
  BY <1>0, <1>2, StockFacts
<1>4. ASSUME NEW k \in Chunks PROVE mem'[k].use = Users(k)'
  <2>1. Cardinality(QueueEntries(reg', k)) + Occurrences(reg[id].queue, k) =
           Cardinality(QueueEntries(reg, k)) + Occurrences(reg'[id].queue, k)
    BY <1>0, StockFacts, EntriesChange
  <2>2. Cardinality(QueueEntries(reg', k)) + Occurrences(reg[id].queue, k) =
           Cardinality(QueueEntries(reg, k))
    BY <1>0, <1>1, <2>1, StockFacts
  <2>3. leaked'[k] = leaked[k] + Occurrences(reg[id].queue, k) /\ Occurrences(reg[id].queue, k) \in Nat
    BY <1>0, <1>2
  <2>4. /\ Cardinality(WritesOf(inflight', k)) = Cardinality(WritesOf(inflight, k))
        /\ Cardinality(BlockedBy(unblock', k)) = Cardinality(BlockedBy(unblock, k))
        /\ One(k, chunkId') = One(k, chunkId) /\ One(k, unblockShared') = One(k, unblockShared)
        /\ Occurrences(common', k) = Occurrences(common, k) /\ mem'[k].use = mem[k].use
    BY <1>0
  <2>5. Counted(k) /\ CountedNext(k)
    BY <1>3, StockAt, StockAtNext
  <2> QED
    BY <2>2, <2>3, <2>4, <2>5 DEF Counted, CountedNext
<1> QED
  BY <1>0, <1>3, <1>4, StockFacts DEF StockStep

(* A write ends, which releases its chunk.                                 *)
LEMMA StockWriteComplete ==
    ASSUME Inv, StockInv, Types', NEW w \in inflight, writeComplete(w)
    PROVE  StockStep
<1>0. /\ inflight' = inflight \ {w} /\ mem' = decrementChunkUsage(mem, w.chunk, 1)
      /\ UNCHANGED <<chunkId, writer, unblock, unblockShared, common, leaked>>
      /\ reg' = resetSendOngoing(w)
  BY DEF writeComplete, blocks, writing, history
<1>1. w.chunk \in Chunks /\ w.id \in Ids
  BY DEF Inv, Types
<1>2. \A j \in Ids : reg'[j].queue = reg[j].queue
  BY <1>0, <1>1, StockFacts DEF resetSendOngoing, Entry
<1>3. /\ IsFiniteSet(inflight') /\ leaked' \in [Chunks -> Nat]
      /\ \A k : Cardinality(WritesOf(inflight, k)) =
                   Cardinality(WritesOf(inflight', k)) + One(k, w.chunk)
  BY <1>0, StockFacts, WritesRemove
<1>4. Held(w.chunk)
  BY DEF Held, HeldBy
<1>5. /\ \A k \in Chunks :
            /\ mem'[k].use = mem[k].use - One(k, w.chunk)
            /\ mem'[k].use # 0 => mem'[k].msg = mem[k].msg /\ mem'[k].eos = mem[k].eos
      /\ chunkId' # 0 => mem'[chunkId'].use = 1
  BY <1>0, <1>1, <1>4, Released
<1>6. reg' \in [Ids -> Entry] /\ \A k : QueueEntries(reg', k) = QueueEntries(reg, k)
  <2>1. reg' \in [Ids -> Entry]
    BY DEF Types
  <2> QED
    BY <1>2, <2>1, StockFacts, EntriesSame
<1>7. ASSUME NEW k \in Chunks PROVE mem'[k].use = Users(k)'
  <2>1. /\ mem'[k].use = mem[k].use - One(k, w.chunk) /\ One(k, w.chunk) \in {0, 1}
        /\ Cardinality(WritesOf(inflight, k)) = Cardinality(WritesOf(inflight', k)) + One(k, w.chunk)
    BY <1>3, <1>5 DEF One
  <2>2. /\ Cardinality(BlockedBy(unblock', k)) = Cardinality(BlockedBy(unblock, k))
        /\ One(k, chunkId') = One(k, chunkId) /\ One(k, unblockShared') = One(k, unblockShared)
        /\ Occurrences(common', k) = Occurrences(common, k) /\ leaked'[k] = leaked[k]
        /\ Cardinality(QueueEntries(reg', k)) = Cardinality(QueueEntries(reg, k))
    BY <1>0, <1>6
  <2>3. Counted(k) /\ CountedNext(k)
    BY <1>3, StockAt, StockAtNext
  <2> QED
    BY <2>1, <2>2, <2>3 DEF Counted, CountedNext
<1> QED
  BY <1>0, <1>3, <1>5, <1>7, StockFacts DEF StockStep


(* What asyncSendOne() starts for one input that waits for chunk x: a      *)
(* write that was not there before, as what was sent is older.             *)
SendsOne(id, x) ==
    /\ \E w : /\ w \notin inflight /\ inflight' = inflight \cup {w}
              /\ w.chunk = x /\ w.msg = Msg(x) /\ w.tcp = reg[id].tcp /\ w.id = id
    /\ \A c \in Conns : toClient'[c] =
          IF c = reg[id].tcp /\ conn[c].state = "up" THEN Append(toClient[c], Msg(x))
          ELSE toClient[c]
    /\ UNCHANGED <<setup, shareNext, copyNext, chunkId, writer, seq, conn, last, eosDue, leaked>>

(* SendTo() does that, and the use of the chunk goes over to the write.    *)
LEMMA SendToOne ==
    ASSUME Inv, OrderInv, NEW id \in Ids, reg[id].as # "none", NEW x \in Chunks,
           x \in Waiting(id), NEW awaited, SendTo(id, x, awaited)
    PROVE  SendsOne(id, x) /\ \A m : HandedOver(m, x, id) = m
<1>0. /\ reg \in [Ids -> Entry] /\ toClient \in [Conns -> Seq(Nat)]
      /\ LinkInv /\ mem[x].msg \in Nat
  BY MemoryTypes DEF Inv, Types
<1>1. IsOpen(id) /\ reg[id].tcp # 0
  BY <1>0 DEF LinkInv, IsOpen
<1>2. Launched({id}) = {id}
  BY <1>1 DEF Launched
<1> DEFINE w == [tcp |-> reg[id].tcp, id |-> id, chunk |-> x, msg |-> mem[x].msg,
                 awaited |-> awaited]
<1>3. inflight' = inflight \cup {w}
  <2>1. inflight' = inflight \cup
          {[tcp |-> reg[i].tcp, id |-> i, chunk |-> x, msg |-> mem[x].msg,
            awaited |-> awaited] : i \in Launched({id})}
    BY DEF SendTo, asyncSendOne
  <2> QED
    BY <1>2, <2>1
<1>4. w \notin inflight
  <2>1. SentBefore(reg[id].tcp, mem[x].msg)
    BY DEF OrderInv, TurnInv, Msg
  <2>2. SUFFICES ASSUME w \in inflight PROVE FALSE
    OBVIOUS
  <2>3. w.tcp = reg[id].tcp /\ w.msg = mem[x].msg
    OBVIOUS
  <2>4. mem[x].msg < mem[x].msg
    BY <2>1, <2>2, <2>3 DEF SentBefore
  <2> QED
    BY <1>0, <2>4
<1>5. \A c \in Conns : toClient'[c] =
         IF c = reg[id].tcp /\ conn[c].state = "up" THEN Append(toClient[c], mem[x].msg)
         ELSE toClient[c]
  <2>1. toClient' = [c \in Conns |->
          IF conn[c].state = "up" /\ \E i \in {id} : reg[i].tcp = c
            THEN Append(toClient[c], mem[x].msg) ELSE toClient[c]]
    BY DEF SendTo, asyncSendOne
  <2> QED
    BY <2>1
<1>6. w.chunk = x /\ w.msg = mem[x].msg /\ w.tcp = reg[id].tcp /\ w.id = id
  OBVIOUS
<1> HIDE DEF w
<1>7. UNCHANGED <<setup, shareNext, copyNext, chunkId, writer, seq, conn, last, eosDue, leaked>>
  BY DEF SendTo, ready, writing, network, history
<1>8. \A m : HandedOver(m, x, id) = m
  BY <1>1 DEF HandedOver
<1> QED
  BY <1>3, <1>4, <1>5, <1>6, <1>7, <1>8 DEF SendsOne, Msg

(* The use of the chunk moves from where it waited to the write; what else *)
(* is used more often is counted as such.                                  *)
LEMMA StockServed ==
    ASSUME Inv, StockInv, Types', NEW id \in Ids, NEW x \in Chunks, SendsOne(id, x),
           NEW more \in [Chunks -> Nat],
           \A k \in Chunks : /\ mem'[k].use = mem[k].use + more[k]
                             /\ mem'[k].msg = mem[k].msg /\ mem'[k].eos = mem[k].eos,
           chunkId # 0 => more[chunkId] = 0,
           \A k \in Chunks :
              Cardinality(BlockedBy(unblock', k)) + One(k, unblockShared')
                + Occurrences(common', k) + Cardinality(QueueEntries(reg', k)) + One(k, x) =
              Cardinality(BlockedBy(unblock, k)) + One(k, unblockShared)
                + Occurrences(common, k) + Cardinality(QueueEntries(reg, k)) + more[k]
    PROVE  StockStep
<1>1. PICK w : /\ w \notin inflight /\ inflight' = inflight \cup {w}
               /\ w.chunk = x /\ w.msg = Msg(x)
  BY DEF SendsOne
<1>2. UNCHANGED <<chunkId, leaked, writer>>
  BY DEF SendsOne
<1>3. /\ IsFiniteSet(inflight') /\ leaked' \in [Chunks -> Nat]
      /\ \A k : Cardinality(WritesOf(inflight', k)) =
                   Cardinality(WritesOf(inflight, k)) + One(k, x)
  <2>1. IsFiniteSet(inflight) /\ leaked \in [Chunks -> Nat]
    BY StockFacts
  <2>2. /\ IsFiniteSet(inflight \cup {w})
        /\ \A k : Cardinality(WritesOf(inflight \cup {w}, k)) =
                     Cardinality(WritesOf(inflight, k)) + One(k, w.chunk)
    BY <1>1, <2>1, WritesAdd
  <2> QED
    BY <1>1, <1>2, <2>1, <2>2
<1>4. ASSUME NEW k \in Chunks PROVE mem'[k].use = Users(k)'
  <2>1. /\ mem'[k].use = mem[k].use + more[k] /\ One(k, x) \in {0, 1} /\ more[k] \in Nat
        /\ Cardinality(WritesOf(inflight', k)) = Cardinality(WritesOf(inflight, k)) + One(k, x)
    BY <1>3 DEF One
  <2>2. One(k, chunkId') = One(k, chunkId) /\ leaked'[k] = leaked[k]
    BY <1>2
  <2>3. Cardinality(BlockedBy(unblock', k)) + One(k, unblockShared')
                + Occurrences(common', k) + Cardinality(QueueEntries(reg', k)) + One(k, x) =
              Cardinality(BlockedBy(unblock, k)) + One(k, unblockShared)
                + Occurrences(common, k) + Cardinality(QueueEntries(reg, k)) + more[k]
    OBVIOUS
  <2>4. Counted(k) /\ CountedNext(k)
    BY <1>3, StockAt, StockAtNext
  <2> QED
    BY <2>1, <2>2, <2>3, <2>4 DEF Counted, CountedNext
<1>5. \A v \in inflight' \ inflight : mem'[v.chunk].msg = v.msg
  BY <1>1 DEF Msg
<1>6. ASSUME chunkId # 0 PROVE mem'[chunkId].use = 1
  <2>0. mem[chunkId].use = 1
    BY <1>6, StockFacts
  <2>1. chunkId \in Chunks /\ mem[chunkId].use = 1
    BY <1>6, <2>0, ChunksAssumption DEF Inv, Types, Chunks
  <2>2. mem'[chunkId].use = mem[chunkId].use + more[chunkId] /\ more[chunkId] = 0
    BY <1>6, <2>1
  <2> QED
    BY <2>1, <2>2
<1> QED
  BY <1>2, <1>3, <1>4, <1>5, <1>6, StockFacts DEF StockStep


(* An input is served with chunk x: the facts about where it comes from.   *)
StaysLinked == \A j \in Ids : reg'[j].as = reg[j].as /\ reg'[j].tcp = reg[j].tcp
QueuesStay == \A j \in Ids : reg'[j].queue = reg[j].queue

FromUnblockShared(id, x) ==
    /\ reg[id].as = "shared" /\ x = unblockShared /\ unblockShared' = 0
    /\ UNCHANGED <<mem, common, unblock>> /\ QueuesStay

FromUnblock(id, x) ==
    /\ reg[id].as = "shared" => unblockShared = 0
    /\ x = unblock[id] /\ unblock' = [unblock EXCEPT ![id] = 0]
    /\ UNCHANGED <<mem, common, unblockShared>> /\ QueuesStay

FromQueue(id, x) ==
    /\ reg[id].as = "shared" => unblockShared = 0
    /\ unblock[id] = 0
    /\ reg[id].queue # <<>> /\ x = Head(reg[id].queue) /\ reg'[id].queue = Tail(reg[id].queue)
    /\ \A j \in Ids : j # id => reg'[j].queue = reg[j].queue
    /\ UNCHANGED <<mem, common, unblock, unblockShared>>

FromCommon(id, x) ==
    /\ reg[id].as = "shared" /\ unblockShared = 0 /\ unblock[id] = 0 /\ reg[id].queue = <<>>
    /\ common # <<>> /\ x = Head(common) /\ common' = Tail(common)
    /\ mem' = incrementChunkUsage(mem, x, Cardinality(CopiedTo(id, x)))
    /\ \A j \in CopiedTo(id, x) : reg'[j].queue = Append(reg[j].queue, x)
    /\ \A j \in Ids \ CopiedTo(id, x) : reg'[j].queue = reg[j].queue
    /\ UNCHANGED <<unblock, unblockShared>>

Serves(id, x) ==
    /\ reg[id].as # "none" /\ x \in Chunks /\ x \in Waiting(id)
    /\ SendsOne(id, x) /\ StaysLinked
    /\ \/ FromUnblockShared(id, x) \/ FromUnblock(id, x)
       \/ FromQueue(id, x) \/ FromCommon(id, x)

(* The four cases of onInputAvailable() that find data do that.            *)
LEMMA AvailableMoves ==
    ASSUME Inv, StockInv, OrderInv, NEW id \in Ids,
           unblockByShared(id) \/ unblockById(id) \/ sendQueued(id) \/ sendCommon(id)
    PROVE  \E x : Serves(id, x)
<1>0. /\ reg \in [Ids -> Entry] /\ common \in Seq(Chunks) /\ 0 \notin Chunks
      /\ reg[id].queue \in Seq(Chunks)
      /\ \A j \in Ids : unblock[j] # 0 => unblock[j] \in Chunks
      /\ unblockShared # 0 => unblockShared \in Chunks
  BY StockFacts
<1>1. \A r \in [Ids -> Entry] : \A j \in Ids :
        /\ Sending(r, {id})[j].as = r[j].as /\ Sending(r, {id})[j].tcp = r[j].tcp
        /\ Sending(r, {id})[j].queue = r[j].queue
  BY SendingFacts
<1>2. CASE unblockByShared(id)
  <2> DEFINE x == unblockShared
  <2>1. NextSource(id) = "unblockShared" /\ reg[id].as # "none"
    BY <1>2 DEF unblockByShared, Available
  <2>2. reg[id].as = "shared" /\ unblockShared # 0
    BY <2>1 DEF NextSource
  <2>3. x \in Chunks /\ x \in Waiting(id)
    BY <1>0, <2>2 DEF Waiting
  <2>4. SendTo(id, x, Awaited(x)) /\ mem' = HandedOver(mem, x, id)
    BY <1>2 DEF unblockByShared
  <2>5. reg' = Sending(reg, {id}) /\ unblockShared' = 0 /\ UNCHANGED <<common, unblock>>
    BY <1>2 DEF unblockByShared
  <2> HIDE DEF x
  <2>6. SendsOne(id, x) /\ mem' = mem
    BY <2>1, <2>3, <2>4, SendToOne
  <2>7. StaysLinked /\ QueuesStay
    BY <1>0, <1>1, <2>5 DEF StaysLinked, QueuesStay
  <2>8. FromUnblockShared(id, x)
    BY <2>2, <2>5, <2>6, <2>7 DEF FromUnblockShared, x
  <2> QED
    BY <2>1, <2>3, <2>6, <2>7, <2>8 DEF Serves
<1>3. CASE unblockById(id)
  <2> DEFINE x == unblock[id]
  <2>1. NextSource(id) = "unblock" /\ reg[id].as # "none"
    BY <1>3 DEF unblockById, Available
  <2>2. unblock[id] # 0 /\ (reg[id].as = "shared" => unblockShared = 0)
    BY <2>1 DEF NextSource
  <2>3. x \in Chunks /\ x \in Waiting(id)
    BY <1>0, <2>2 DEF Waiting
  <2>4. SendTo(id, x, Awaited(x)) /\ mem' = HandedOver(mem, x, id)
    BY <1>3 DEF unblockById
  <2>5. /\ reg' = Sending(reg, {id}) /\ unblock' = [unblock EXCEPT ![id] = 0]
        /\ UNCHANGED <<common, unblockShared>>
    BY <1>3 DEF unblockById
  <2> HIDE DEF x
  <2>6. SendsOne(id, x) /\ mem' = mem
    BY <2>1, <2>3, <2>4, SendToOne
  <2>7. StaysLinked /\ QueuesStay
    BY <1>0, <1>1, <2>5 DEF StaysLinked, QueuesStay
  <2>8. FromUnblock(id, x)
    BY <2>2, <2>5, <2>6, <2>7 DEF FromUnblock, x
  <2> QED
    BY <2>1, <2>3, <2>6, <2>7, <2>8 DEF Serves
<1>4. CASE sendQueued(id)
  <2> DEFINE x == Head(reg[id].queue)
  <2> DEFINE r == [reg EXCEPT ![id].queue = Tail(@)]
  <2>1. NextSource(id) = "queue" /\ reg[id].as # "none"
    BY <1>4 DEF sendQueued, Available
  <2>2. /\ unblock[id] = 0 /\ (reg[id].as = "shared" => unblockShared = 0)
        /\ reg[id].queue # <<>>
    BY <2>1 DEF NextSource
  <2>3. x \in Chunks /\ x \in Range(reg[id].queue) /\ Tail(reg[id].queue) \in Seq(Chunks)
    BY <1>0, <2>2, OccurrencesTail
  <2>4. x \in Waiting(id)
    BY <2>3 DEF Waiting
  <2>5. SendTo(id, x, FALSE) /\ mem' = HandedOver(mem, x, id)
    BY <1>4 DEF sendQueued
  <2>6. reg' = Sending(r, {id}) /\ UNCHANGED <<common, unblock, unblockShared>>
    BY <1>4 DEF sendQueued, blocks
  <2>7. r \in [Ids -> Entry] /\ r[id].queue = Tail(reg[id].queue)
        /\ \A j \in Ids : /\ r[j].as = reg[j].as /\ r[j].tcp = reg[j].tcp
                          /\ j # id => r[j].queue = reg[j].queue
    BY <1>0, <2>3 DEF Entry
  <2> HIDE DEF x, r
  <2>8. SendsOne(id, x) /\ mem' = mem
    BY <2>1, <2>3, <2>4, <2>5, SendToOne
  <2>9. StaysLinked /\ reg'[id].queue = Tail(reg[id].queue)
        /\ \A j \in Ids : j # id => reg'[j].queue = reg[j].queue
    BY <1>1, <2>6, <2>7 DEF StaysLinked
  <2>10. FromQueue(id, x)
    BY <2>2, <2>6, <2>8, <2>9 DEF FromQueue, x
  <2> QED
    BY <2>1, <2>3, <2>4, <2>8, <2>9, <2>10 DEF Serves
<1>5. CASE sendCommon(id)
  <2> DEFINE x == Head(common)
  <2> DEFINE S == CopiedTo(id, x)
  <2> DEFINE r == Queued(reg, S, x)
  <2>1. NextSource(id) = "common" /\ reg[id].as # "none"
    BY <1>5 DEF sendCommon, Available
  <2>2. /\ unblock[id] = 0 /\ reg[id].as = "shared" /\ unblockShared = 0
        /\ reg[id].queue = <<>> /\ common # <<>>
    BY <2>1 DEF NextSource
  <2>3. x \in Chunks /\ x \in Range(common)
    BY <1>0, <2>2, OccurrencesTail
  <2>4. x \in Waiting(id)
    BY <2>2, <2>3 DEF Waiting
  <2>5. SendTo(id, x, FALSE)
    BY <1>5 DEF sendCommon
  <2>6. mem' = HandedOver(incrementChunkUsage(mem, x, Cardinality(S)), x, id)
    BY <1>5 DEF sendCommon
  <2>7. /\ reg' = Sending(r, {id}) /\ common' = Tail(common)
        /\ UNCHANGED <<unblock, unblockShared>>
    BY <1>5 DEF sendCommon, blocks
  <2> HIDE DEF x, S
  <2>8. /\ r \in [Ids -> Entry]
        /\ \A j \in Ids : r[j].as = reg[j].as /\ r[j].tcp = reg[j].tcp
    BY <1>0, <2>3, QueuedFacts
  <2>9. \A j \in Ids : r[j].queue = IF j \in S THEN Append(reg[j].queue, x) ELSE reg[j].queue
    BY <1>0, <2>3 DEF Queued, Entry
  <2> HIDE DEF r
  <2>10. SendsOne(id, x) /\ mem' = incrementChunkUsage(mem, x, Cardinality(S))
    BY <2>1, <2>3, <2>4, <2>5, <2>6, SendToOne
  <2>11. StaysLinked /\ \A j \in Ids : reg'[j].queue = r[j].queue
    BY <1>1, <2>7, <2>8 DEF StaysLinked
  <2>12. S \subseteq Ids
    BY DEF S, CopiedTo, SharedInputs, Registered
  <2>13. FromCommon(id, x)
    BY <2>2, <2>7, <2>9, <2>10, <2>11, <2>12 DEF FromCommon, x, S
  <2> QED
    BY <2>1, <2>3, <2>4, <2>10, <2>11, <2>13 DEF Serves
<1> QED
  BY <1>2, <1>3, <1>4, <1>5


(* Serving keeps the stock.                                                *)
LEMMA StockServes ==
    ASSUME Inv, StockInv, Types', NEW id \in Ids, NEW x \in Chunks, Serves(id, x)
    PROVE  StockStep
<1>0. /\ SendsOne(id, x) /\ reg \in [Ids -> Entry] /\ reg' \in [Ids -> Entry]
      /\ common \in Seq(Chunks) /\ reg[id].queue \in Seq(Chunks) /\ mem \in [Chunks -> Chunk]
      /\ unblock \in [Ids -> 0..MaxChunks] /\ 0 \notin Chunks
      /\ \A k \in Chunks : mem[k].use \in Nat
  BY StockFacts DEF Serves, Types
<1> DEFINE none == [k \in Chunks |-> 0]
<1>1. none \in [Chunks -> Nat] /\ \A k \in Chunks : none[k] = 0
  OBVIOUS
<1>2. chunkId # 0 => chunkId \in Chunks
  BY ChunksAssumption DEF Inv, Types, Chunks
<1>3. ASSUME mem' = mem,
             \A k \in Chunks :
                Cardinality(BlockedBy(unblock', k)) + One(k, unblockShared')
                  + Occurrences(common', k) + Cardinality(QueueEntries(reg', k)) + One(k, x) =
                Cardinality(BlockedBy(unblock, k)) + One(k, unblockShared)
                  + Occurrences(common, k) + Cardinality(QueueEntries(reg, k))
      PROVE  StockStep
  <2>1. \A k \in Chunks : /\ mem'[k].use = mem[k].use + none[k]
                          /\ mem'[k].msg = mem[k].msg /\ mem'[k].eos = mem[k].eos
    BY <1>0, <1>1, <1>3
  <2>2. ASSUME NEW k \in Chunks
        PROVE  Cardinality(BlockedBy(unblock', k)) + One(k, unblockShared')
                  + Occurrences(common', k) + Cardinality(QueueEntries(reg', k)) + One(k, x) =
                Cardinality(BlockedBy(unblock, k)) + One(k, unblockShared)
                  + Occurrences(common, k) + Cardinality(QueueEntries(reg, k)) + none[k]
    <3>1. Counted(k)
      BY StockAt
    <3>2. none[k] = 0
      BY <1>1
    <3> QED
      BY <1>3, <3>1, <3>2 DEF Counted
  <2>3. chunkId # 0 => none[chunkId] = 0
    BY <1>1, <1>2
  <2> HIDE DEF none
  <2> QED
    BY <1>0, <1>1, <2>1, <2>2, <2>3, StockServed
<1>4. CASE FromUnblockShared(id, x)
  <2>1. /\ mem' = mem /\ common' = common /\ unblock' = unblock /\ unblockShared' = 0
        /\ x = unblockShared /\ \A j \in Ids : reg'[j].queue = reg[j].queue
    BY <1>4 DEF FromUnblockShared, QueuesStay
  <2>2. \A k : QueueEntries(reg', k) = QueueEntries(reg, k)
    BY <1>0, <2>1, EntriesSame
  <2>3. ASSUME NEW k \in Chunks
        PROVE  Cardinality(BlockedBy(unblock', k)) + One(k, unblockShared')
                  + Occurrences(common', k) + Cardinality(QueueEntries(reg', k)) + One(k, x) =
                Cardinality(BlockedBy(unblock, k)) + One(k, unblockShared)
                  + Occurrences(common, k) + Cardinality(QueueEntries(reg, k))
    <3>1. One(k, unblockShared') = 0 /\ One(k, x) = One(k, unblockShared)
      BY <1>0, <2>1 DEF One
    <3>2. Counted(k)
      BY StockAt
    <3> QED
      BY <2>1, <2>2, <3>1, <3>2 DEF Counted
  <2> QED
    BY <1>3, <2>1, <2>3
<1>5. CASE FromUnblock(id, x)
  <2>1. /\ mem' = mem /\ common' = common /\ unblock' = [unblock EXCEPT ![id] = 0]
        /\ unblockShared' = unblockShared
        /\ x = unblock[id] /\ \A j \in Ids : reg'[j].queue = reg[j].queue
    BY <1>5 DEF FromUnblock, QueuesStay
  <2>2. \A k : QueueEntries(reg', k) = QueueEntries(reg, k)
    BY <1>0, <2>1, EntriesSame
  <2>3. ASSUME NEW k \in Chunks
        PROVE  Cardinality(BlockedBy(unblock', k)) + One(k, unblockShared')
                  + Occurrences(common', k) + Cardinality(QueueEntries(reg', k)) + One(k, x) =
                Cardinality(BlockedBy(unblock, k)) + One(k, unblockShared)
                  + Occurrences(common, k) + Cardinality(QueueEntries(reg, k))
    <3>1. Cardinality(BlockedBy(unblock, k)) = Cardinality(BlockedBy(unblock', k)) + One(k, x)
      BY <1>0, <2>1, BlockedClear
    <3>2. Counted(k) /\ Cardinality(BlockedBy(unblock', k)) \in Nat /\ One(k, x) \in {0, 1}
      BY StockAt, BlockedType DEF One
    <3> QED
      BY <2>1, <2>2, <3>1, <3>2 DEF Counted
  <2> QED
    BY <1>3, <2>1, <2>3
<1>6. CASE FromQueue(id, x)
  <2>1. /\ mem' = mem /\ common' = common /\ unblock' = unblock /\ unblockShared' = unblockShared
        /\ reg[id].queue # <<>> /\ x = Head(reg[id].queue) /\ reg'[id].queue = Tail(reg[id].queue)
        /\ \A j \in Ids : j # id => reg'[j].queue = reg[j].queue
    BY <1>6 DEF FromQueue
  <2>2. ASSUME NEW k \in Chunks
        PROVE  Cardinality(BlockedBy(unblock', k)) + One(k, unblockShared')
                  + Occurrences(common', k) + Cardinality(QueueEntries(reg', k)) + One(k, x) =
                Cardinality(BlockedBy(unblock, k)) + One(k, unblockShared)
                  + Occurrences(common, k) + Cardinality(QueueEntries(reg, k))
    <3>1. Cardinality(QueueEntries(reg', k)) + Occurrences(reg[id].queue, k) =
             Cardinality(QueueEntries(reg, k)) + Occurrences(reg'[id].queue, k)
      <4>1. /\ reg \in [Ids -> Entry] /\ reg' \in [Ids -> Entry]
            /\ \A j \in Ids : j # id => reg'[j].queue = reg[j].queue
        BY <1>0, <2>1
      <4> QED
        BY <4>1, EntriesChange
    <3>2. Occurrences(reg[id].queue, k) = Occurrences(reg'[id].queue, k) + One(k, x)
      BY <1>0, <2>1, OccurrencesTail DEF One
    <3>3. /\ Occurrences(reg[id].queue, k) \in Nat /\ Occurrences(reg'[id].queue, k) \in Nat
          /\ One(k, x) \in {0, 1} /\ Cardinality(QueueEntries(reg', k)) \in Nat
      <4>1. reg'[id].queue \in Seq(Chunks)
        BY <1>0, <2>1, OccurrencesTail
      <4> QED
        BY <1>0, <4>1, PositionsType, EntriesType DEF One
    <3>4. Counted(k) /\ Cardinality(QueueEntries(reg, k)) \in Nat
      BY StockAt DEF Counted
    <3>5. Cardinality(QueueEntries(reg', k)) + One(k, x) = Cardinality(QueueEntries(reg, k))
      BY <3>1, <3>2, <3>3, <3>4
    <3> QED
      BY <2>1, <3>3, <3>4, <3>5 DEF Counted
  <2> QED
    BY <1>3, <2>1, <2>2
<1>7. CASE FromCommon(id, x)
  <2> DEFINE S == CopiedTo(id, x)
  <2> DEFINE n == Cardinality(S)
  <2>1. /\ mem' = incrementChunkUsage(mem, x, n) /\ common # <<>>
        /\ common' = Tail(common) /\ unblock' = unblock /\ unblockShared' = unblockShared
        /\ x = Head(common)
        /\ \A j \in S : reg'[j].queue = Append(reg[j].queue, x)
        /\ \A j \in Ids \ S : reg'[j].queue = reg[j].queue
    BY <1>7 DEF FromCommon
  <2>2. S \in SUBSET Ids
    BY DEF CopiedTo, SharedInputs, Registered
  <2> HIDE DEF S
  <2>3. n \in Nat
    BY <2>2, IdsAssumption, FS_Subset, FS_CardinalityType
  <2>4. \A k \in Chunks : /\ mem'[k].use = mem[k].use + (IF k = x THEN n ELSE 0)
                          /\ mem'[k].msg = mem[k].msg /\ mem'[k].eos = mem[k].eos
    <3>1. PICK i \in Nat : i = n
      BY <2>3
    <3>2. mem \in [Chunks -> Chunk] /\ mem' = incrementChunkUsage(mem, x, i)
      BY <1>0, <2>1, <3>1
    <3>3. \A k \in Chunks :
            /\ incrementChunkUsage(mem, x, i)[k].use = mem[k].use + (IF k = x THEN i ELSE 0)
            /\ incrementChunkUsage(mem, x, i)[k].msg = mem[k].msg
            /\ incrementChunkUsage(mem, x, i)[k].eos = mem[k].eos
      BY <3>2, MemoryUse
    <3> QED
      BY <3>1, <3>2, <3>3
  <2>5. \A k : Cardinality(QueueEntries(reg', k)) =
                  Cardinality(QueueEntries(reg, k)) + (IF k = x THEN n ELSE 0)
    <3>1. AppendedFor(reg, reg', S, x)
      BY <1>0, <2>1, <2>2 DEF AppendedFor
    <3> QED
      BY <3>1, EntriesQueued
  <2> HIDE DEF n
  <2> DEFINE more == [k \in Chunks |-> IF k = x THEN n ELSE 0]
  <2>6. more \in [Chunks -> Nat] /\ \A k \in Chunks : more[k] = IF k = x THEN n ELSE 0
    BY <2>3
  <2>7. x # chunkId
    <3>1. Held(x)
      BY <1>0, <2>1, OccurrencesTail DEF Held, HeldBy
    <3> QED
      BY <3>1, HeldUse DEF Inv
  <2>8. chunkId # 0 => more[chunkId] = 0
    BY <1>2, <2>6, <2>7
  <2>9. \A k \in Chunks : /\ mem'[k].use = mem[k].use + more[k]
                          /\ mem'[k].msg = mem[k].msg /\ mem'[k].eos = mem[k].eos
    BY <2>4, <2>6
  <2>10. ASSUME NEW k \in Chunks
        PROVE  Cardinality(BlockedBy(unblock', k)) + One(k, unblockShared')
                  + Occurrences(common', k) + Cardinality(QueueEntries(reg', k)) + One(k, x) =
                Cardinality(BlockedBy(unblock, k)) + One(k, unblockShared)
                  + Occurrences(common, k) + Cardinality(QueueEntries(reg, k)) + more[k]
    <3>1. Occurrences(common, k) = Occurrences(common', k) + One(k, x)
      BY <1>0, <2>1, OccurrencesTail DEF One
    <3>2. Occurrences(common', k) \in Nat /\ One(k, x) \in {0, 1} /\ more[k] \in Nat
      <4>1. common' \in Seq(Chunks)
        BY <1>0, <2>1, OccurrencesTail
      <4> QED
        BY <2>6, <4>1, PositionsType DEF One
    <3>3. Counted(k)
      BY StockAt
    <3>4. Cardinality(QueueEntries(reg', k)) = Cardinality(QueueEntries(reg, k)) + more[k]
      BY <2>5, <2>6
    <3>5. /\ Occurrences(common, k) \in Nat /\ Cardinality(QueueEntries(reg, k)) \in Nat
          /\ Cardinality(BlockedBy(unblock, k)) \in Nat /\ One(k, unblockShared) \in Nat
      BY <3>3 DEF Counted
    <3>6. /\ Cardinality(BlockedBy(unblock', k)) = Cardinality(BlockedBy(unblock, k))
          /\ One(k, unblockShared') = One(k, unblockShared)
      BY <2>1
    <3> QED
      BY <3>1, <3>2, <3>4, <3>5, <3>6
  <2> HIDE DEF more
  <2> QED
    BY <1>0, <2>6, <2>8, <2>9, <2>10, StockServed
<1> QED
  BY <1>4, <1>5, <1>6, <1>7 DEF Serves


(* Nothing is in an empty queue.                                           *)
LEMMA OccurrencesEmpty == \A k : Occurrences(<<>>, k) = 0
<1>1. \A k : {i \in 1..Len(<<>>) : <<>>[i] = k} = {}
  OBVIOUS
<1> QED
  BY <1>1, FS_EmptySet DEF Occurrences

(* The writer takes a free chunk.                                          *)
LEMMA StockUpdateChunkId ==
    ASSUME Inv, StockInv, Types', updateChunkId
    PROVE  StockStep
<1> DEFINE next == FirstFree(mem)
<1>0. /\ chunkId = 0 /\ next # 0 /\ chunkId' = next /\ mem' = registerChunk(mem, next)
      /\ UNCHANGED <<inflight, unblock, unblockShared, common, leaked, reg>>
      /\ writer' = "idle"
  BY StockFacts DEF updateChunkId, blocks, history
<1>1. mem \in [Chunks -> Chunk] /\ 0 \notin Chunks
  BY StockFacts
<1>2. next \in Chunks /\ mem[next].use = 0
  BY <1>0, <1>1, FirstFreeType
<1> HIDE DEF next
<1>3. \A k \in Chunks : /\ mem'[k].use = IF k = next THEN 1 ELSE mem[k].use
                        /\ k # next => mem'[k] = mem[k]
  <2>1. ASSUME NEW k \in Chunks
        PROVE  /\ registerChunk(mem, next)[k].use = IF k = next THEN 1 ELSE mem[k].use
               /\ k # next => registerChunk(mem, next)[k] = mem[k]
    <3>1. PICK zero \in Nat : TRUE
      OBVIOUS
    <3> QED
      BY <1>1, <1>2, <3>1, MemoryUse
  <2> QED
    BY <1>0, <2>1
<1>4. IsFiniteSet(inflight') /\ leaked' \in [Chunks -> Nat]
  BY <1>0, StockFacts
<1>5. ASSUME NEW k \in Chunks PROVE mem'[k].use = Users(k)'
  <2>1. Counted(k) /\ CountedNext(k)
    BY <1>4, StockAt, StockAtNext
  <2>2. One(k, chunkId') = (IF k = next THEN 1 ELSE 0) /\ One(k, chunkId) = 0
    BY <1>0, <1>1 DEF One
  <2>3. mem'[k].use = mem[k].use + One(k, chunkId')
    BY <1>2, <1>3, <2>1, <2>2 DEF Counted
  <2> QED
    BY <1>0, <2>1, <2>2, <2>3 DEF Counted, CountedNext
<1> QED
  BY <1>0, <1>2, <1>3, <1>4, <1>5 DEF StockStep

(* Data is dropped from the queue of an input,                             *)
LEMMA StockDropIndividual ==
    ASSUME Inv, StockInv, Types', dropIndividualQueues
    PROVE  StockStep
<1>0. /\ UNCHANGED <<inflight, unblock, unblockShared, common, leaked, chunkId, writer>>
      /\ reg \in [Ids -> Entry] /\ reg' \in [Ids -> Entry]
  BY StockFacts DEF dropIndividualQueues, blocks, history, writing, Types
<1>1. PICK x \in Chunks :
         /\ Held(x) /\ mem' = decrementChunkUsage(mem, x, 1)
         /\ \A k : /\ Cardinality(QueueEntries(reg, k)) =
                         Cardinality(QueueEntries(reg', k)) + One(k, x)
  <2>1. PICK id \in Ids : \E i \in Oldest(reg[id].queue) :
           /\ mem' = decrementChunkUsage(mem, reg[id].queue[i], 1)
           /\ reg' = [reg EXCEPT ![id].queue = RemoveAt(@, i)]
    BY DEF dropIndividualQueues
  <2>2. PICK i \in 1..Len(reg[id].queue) :
           /\ mem' = decrementChunkUsage(mem, reg[id].queue[i], 1)
           /\ reg' = [reg EXCEPT ![id].queue = RemoveAt(@, i)]
    BY <2>1 DEF Oldest
  <2>3. PICK q \in Seq(Chunks) : q = reg[id].queue
    BY StockFacts
  <2>4. /\ i \in 1..Len(q) /\ reg'[id].queue = RemoveAt(q, i)
        /\ \A j \in Ids : j # id => reg'[j].queue = reg[j].queue
    BY <1>0, <2>2, <2>3 DEF Entry
  <2>5. /\ q[i] \in Chunks /\ q[i] \in Range(q) /\ RemoveAt(q, i) \in Seq(Chunks)
        /\ \A k : Occurrences(q, k) =
                     Occurrences(RemoveAt(q, i), k) + (IF q[i] = k THEN 1 ELSE 0)
    BY <2>4, OccurrencesRemove
  <2>6. PICK x \in Chunks : x = q[i]
    BY <2>5
  <2>7. Held(x) /\ mem' = decrementChunkUsage(mem, x, 1)
    BY <2>2, <2>3, <2>5, <2>6 DEF Held, HeldBy
  <2>8. ASSUME NEW k
        PROVE  Cardinality(QueueEntries(reg, k)) = Cardinality(QueueEntries(reg', k)) + One(k, x)
    <3>1. Cardinality(QueueEntries(reg', k)) + Occurrences(reg[id].queue, k) =
             Cardinality(QueueEntries(reg, k)) + Occurrences(reg'[id].queue, k)
      BY <1>0, <2>4, EntriesChange
    <3>2. Occurrences(reg[id].queue, k) = Occurrences(reg'[id].queue, k) + One(k, x)
      BY <2>3, <2>4, <2>5, <2>6 DEF One
    <3>3. Occurrences(reg'[id].queue, k) \in Nat /\ One(k, x) \in {0, 1}
      BY <2>4, <2>5, PositionsType DEF One
    <3>4. Cardinality(QueueEntries(reg, k)) \in Nat /\ Cardinality(QueueEntries(reg', k)) \in Nat
      BY <1>0, EntriesType
    <3> QED
      BY <3>1, <3>2, <3>3, <3>4
  <2> QED
    BY <2>7, <2>8
<1>2. /\ \A k \in Chunks :
            /\ mem'[k].use = mem[k].use - One(k, x)
            /\ mem'[k].use # 0 => mem'[k].msg = mem[k].msg /\ mem'[k].eos = mem[k].eos
      /\ chunkId' # 0 => mem'[chunkId'].use = 1
  BY <1>0, <1>1, Released
<1>3. IsFiniteSet(inflight') /\ leaked' \in [Chunks -> Nat]
  BY <1>0, StockFacts
<1>4. ASSUME NEW k \in Chunks PROVE mem'[k].use = Users(k)'
  <2>1. Counted(k) /\ CountedNext(k)
    BY <1>3, StockAt, StockAtNext
  <2>2. /\ Cardinality(QueueEntries(reg, k)) = Cardinality(QueueEntries(reg', k)) + One(k, x)
        /\ mem'[k].use = mem[k].use - One(k, x) /\ One(k, x) \in {0, 1}
    BY <1>1, <1>2 DEF One
  <2>3. /\ Cardinality(WritesOf(inflight', k)) = Cardinality(WritesOf(inflight, k))
        /\ Cardinality(BlockedBy(unblock', k)) = Cardinality(BlockedBy(unblock, k))
        /\ One(k, chunkId') = One(k, chunkId) /\ One(k, unblockShared') = One(k, unblockShared)
        /\ Occurrences(common', k) = Occurrences(common, k) /\ leaked'[k] = leaked[k]
    BY <1>0
  <2> QED
    BY <2>1, <2>2, <2>3 DEF Counted, CountedNext
<1> QED
  BY <1>0, <1>2, <1>3, <1>4, StockFacts DEF StockStep

(* or from the common one.                                                 *)
LEMMA StockDropCommon ==
    ASSUME Inv, StockInv, Types', dropCommonQueue
    PROVE  StockStep
<1>0. UNCHANGED <<inflight, unblock, unblockShared, reg, leaked, chunkId, writer>>
  BY DEF dropCommonQueue, blocks, history, writing
<1>1. PICK x \in Chunks :
         /\ Held(x) /\ mem' = decrementChunkUsage(mem, x, 1)
         /\ \A k : Occurrences(common, k) = Occurrences(common', k) + One(k, x)
  <2>1. PICK i \in 1..Len(common) :
           mem' = decrementChunkUsage(mem, common[i], 1) /\ common' = RemoveAt(common, i)
    BY DEF dropCommonQueue, Oldest
  <2>2. common \in Seq(Chunks)
    BY StockFacts
  <2>3. /\ common[i] \in Chunks /\ common[i] \in Range(common)
        /\ \A k : Occurrences(common, k) =
                     Occurrences(RemoveAt(common, i), k) + (IF common[i] = k THEN 1 ELSE 0)
    BY <2>2, OccurrencesRemove
  <2> QED
    BY <2>1, <2>3 DEF Held, HeldBy, One
<1>2. /\ \A k \in Chunks :
            /\ mem'[k].use = mem[k].use - One(k, x)
            /\ mem'[k].use # 0 => mem'[k].msg = mem[k].msg /\ mem'[k].eos = mem[k].eos
      /\ chunkId' # 0 => mem'[chunkId'].use = 1
  BY <1>0, <1>1, Released
<1>3. IsFiniteSet(inflight') /\ leaked' \in [Chunks -> Nat]
  BY <1>0, StockFacts
<1>4. ASSUME NEW k \in Chunks PROVE mem'[k].use = Users(k)'
  <2>1. Counted(k) /\ CountedNext(k)
    BY <1>3, StockAt, StockAtNext
  <2>2. /\ Occurrences(common, k) = Occurrences(common', k) + One(k, x)
        /\ mem'[k].use = mem[k].use - One(k, x) /\ One(k, x) \in {0, 1}
    BY <1>1, <1>2 DEF One
  <2>3. /\ Cardinality(WritesOf(inflight', k)) = Cardinality(WritesOf(inflight, k))
        /\ Cardinality(BlockedBy(unblock', k)) = Cardinality(BlockedBy(unblock, k))
        /\ One(k, chunkId') = One(k, chunkId) /\ One(k, unblockShared') = One(k, unblockShared)
        /\ Cardinality(QueueEntries(reg', k)) = Cardinality(QueueEntries(reg, k))
        /\ leaked'[k] = leaked[k]
    BY <1>0
  <2> QED
    BY <2>1, <2>2, <2>3 DEF Counted, CountedNext
<1> QED
  BY <1>0, <1>2, <1>3, <1>4, StockFacts DEF StockStep


(* The chunks of a queue that counts are released.                         *)
LEMMA ReleasedAll ==
    ASSUME Inv, StockInv, NEW q \in Seq(Chunks), mem' = releaseChunks(mem, q),
           chunkId' = chunkId,
           \A k \in Chunks : Occurrences(q, k) <= mem[k].use - One(k, chunkId)
    PROVE  /\ \A k \in Chunks :
                 /\ mem'[k].use = mem[k].use - Occurrences(q, k)
                 /\ mem'[k].use # 0 => mem'[k].msg = mem[k].msg /\ mem'[k].eos = mem[k].eos
           /\ chunkId' # 0 => mem'[chunkId'].use = 1
<1>0. mem \in [Chunks -> Chunk] /\ \A k \in Chunks : mem[k].use \in Nat
  BY StockFacts
<1>1. ASSUME NEW k \in Chunks
      PROVE  /\ mem'[k].use = mem[k].use - Occurrences(q, k)
             /\ mem'[k].use # 0 => mem'[k].msg = mem[k].msg /\ mem'[k].eos = mem[k].eos
  <2>1. PICK n \in Nat : n = Occurrences(q, k)
    BY PositionsType
  <2>2. mem'[k] = IF n = 0 THEN mem[k] ELSE decrementChunkUsage(mem, k, n)[k]
    BY <1>0, <2>1 DEF releaseChunks
  <2>3. /\ decrementChunkUsage(mem, k, n)[k].use =
              IF mem[k].use <= n THEN 0 ELSE mem[k].use - n
        /\ decrementChunkUsage(mem, k, n)[k].use # 0 =>
              /\ decrementChunkUsage(mem, k, n)[k].msg = mem[k].msg
              /\ decrementChunkUsage(mem, k, n)[k].eos = mem[k].eos
    BY <1>0, MemoryUse
  <2>4. n <= mem[k].use /\ mem[k].use \in Nat
    <3>1. One(k, chunkId) \in {0, 1} /\ n <= mem[k].use - One(k, chunkId) /\ mem[k].use \in Nat
      BY <1>0, <2>1 DEF One
    <3> QED
      BY <3>1
  <2>5. mem'[k].use = mem[k].use - n
    <3>1. CASE n = 0
      BY <2>2, <2>4, <3>1
    <3>2. CASE n # 0
      BY <2>2, <2>3, <2>4, <3>2
    <3> QED
      BY <3>1, <3>2
  <2> QED
    BY <2>1, <2>2, <2>3, <2>5
<1>2. ASSUME chunkId # 0 PROVE mem'[chunkId].use = 1
  <2>0. mem[chunkId].use = 1
    BY <1>2, StockFacts
  <2>1. PICK k \in Chunks : k = chunkId
    BY <1>2, ChunksAssumption DEF Inv, Types, Chunks
  <2>2. Occurrences(q, k) \in Nat /\ One(k, chunkId) = 1 /\ Occurrences(q, k) <= mem[k].use - One(k, chunkId)
    BY <2>1, PositionsType DEF One
  <2>3. Occurrences(q, k) = 0
    BY <2>0, <2>1, <2>2
  <2> QED
    BY <1>1, <2>0, <2>1, <2>3
<1> QED
  BY <1>1, <1>2

(* What onInputGone() does to the chunks of its input: what waited for it  *)
(* alone, at most one chunk, is written all the same.                      *)
Freed(id) == {unblock[id], IF LastShared(id) THEN unblockShared ELSE 0} \ {0}

Leaves(c, id) ==
    /\ reg[id].tcp = c /\ IsOpen(id) /\ reg[id].as # "none" /\ conn[c].state = "broken"
    /\ \/ Freed(id) = {} /\ inflight' = inflight
       \/ \E x \in Chunks : \E w :
             /\ Freed(id) = {x} /\ x \in Waiting(id)
             /\ inflight' = inflight \cup {w} /\ w \notin inflight
             /\ w.tcp = c /\ w.id = id /\ w.chunk = x /\ w.msg = Msg(x)
    /\ mem' = releaseChunks(mem, ReleasedWith(id) \o <<>>)
    /\ unblock' = [unblock EXCEPT ![id] = 0]
    /\ unblockShared' = IF LastShared(id) THEN 0 ELSE unblockShared
    /\ common' = IF LastShared(id) THEN <<>> ELSE common
    /\ reg' = [reg EXCEPT ![id] = Nobody]

(* It does that if the connection is the one of the input.                 *)
LEMMA GoneLeaves ==
    ASSUME Inv, StockInv, PlaceInv, OrderInv, NEW c \in Conns, onInputGone(c),
           reg[conn[c].id].tcp = c
    PROVE  Leaves(c, conn[c].id)
<1>0. /\ reg \in [Ids -> Entry] /\ LinkInv /\ 0 \notin Chunks
      /\ \A j \in Ids : unblock[j] # 0 => unblock[j] \in Chunks
      /\ unblockShared # 0 => unblockShared \in Chunks
      /\ mem \in [Chunks -> Chunk] /\ conn[c].id \in Ids
  BY StockFacts DEF Inv, Types
<1>1. PICK id \in Ids : id = conn[c].id
  BY <1>0
<1> DEFINE freed == {unblock[id], IF LastShared(id) THEN unblockShared ELSE 0} \ {0}
<1> DEFINE W(k) == [tcp |-> c, id |-> id, chunk |-> k, msg |-> mem[k].msg, awaited |-> Awaited(k)]
<1>2. /\ inflight' = inflight \cup {W(k) : k \in IF IsOpen(id) THEN freed ELSE {}}
      /\ mem' = releaseChunks(mem, ReleasedWith(id) \o (IF IsOpen(id) THEN <<>> ELSE SetToSeq(freed)))
      /\ unblock' = [unblock EXCEPT ![id] = 0]
      /\ unblockShared' = IF LastShared(id) THEN 0 ELSE unblockShared
      /\ common' = IF LastShared(id) THEN <<>> ELSE common
      /\ reg' = [reg EXCEPT ![id] = Nobody]
      /\ conn[c].state \in {"broken", "closed"}
  BY <1>1 DEF onInputGone
<1>3. reg[id].tcp = c /\ c # 0
  BY <1>1 DEF Conns
<1>4. IsOpen(id) /\ reg[id].as # "none" /\ conn[c].state = "broken"
  BY <1>0, <1>1, <1>2, <1>3 DEF LinkInv, IsOpen
<1>5. /\ inflight' = inflight \cup {W(k) : k \in freed}
      /\ mem' = releaseChunks(mem, ReleasedWith(id) \o <<>>)
  BY <1>2, <1>4
<1>6. freed = Freed(id) /\ freed \subseteq Chunks
  BY <1>0 DEF Freed
<1>7. freed \subseteq Waiting(id) /\ \A k, l \in freed : k = l
  <2>1. LastShared(id) => reg[id].as = "shared"
    BY DEF LastShared, SharedInputs, Registered
  <2>2. reg[id].as = "shared" /\ unblockShared # 0 => unblock[id] = 0
    BY DEF PlaceInv
  <2>3. freed \subseteq Waiting(id)
    BY <1>6, <2>1 DEF Waiting
  <2> QED
    BY <2>1, <2>2, <2>3
<1>8. \A k \in freed : W(k) \notin inflight
  <2>1. ASSUME NEW k \in freed, W(k) \in inflight PROVE FALSE
    <3>1. SentBefore(c, mem[k].msg)
      BY <1>3, <1>4, <1>7 DEF OrderInv, TurnInv, Msg
    <3>2. W(k).tcp = c /\ W(k).msg = mem[k].msg
      OBVIOUS
    <3>3. mem[k].msg < mem[k].msg
      BY <2>1, <3>1, <3>2 DEF SentBefore
    <3>4. mem[k].msg \in Nat
      BY <1>0, <1>6, MemoryTypes
    <3> QED
      BY <3>3, <3>4
  <2> QED
    BY <2>1
<1>9. \A k : W(k).tcp = c /\ W(k).id = id /\ W(k).chunk = k /\ W(k).msg = mem[k].msg
  OBVIOUS
<1> HIDE DEF W
<1>10. \/ Freed(id) = {} /\ inflight' = inflight
       \/ \E x \in Chunks : \E w :
             /\ Freed(id) = {x} /\ x \in Waiting(id)
             /\ inflight' = inflight \cup {w} /\ w \notin inflight
             /\ w.tcp = c /\ w.id = id /\ w.chunk = x /\ w.msg = Msg(x)
  <2> HIDE DEF freed
  <2>1. CASE freed = {}
    BY <1>5, <1>6, <2>1
  <2>2. CASE freed # {}
    <3>1. PICK x \in Chunks : freed = {x}
      BY <1>6, <1>7, <2>2
    <3>2. inflight' = inflight \cup {W(x)}
      BY <1>5, <3>1
    <3>3. W(x) \notin inflight /\ x \in Waiting(id)
      BY <1>7, <1>8, <3>1
    <3> QED
      BY <1>6, <1>9, <3>1, <3>2, <3>3 DEF Msg
  <2> QED
    BY <2>1, <2>2
<1> QED
  BY <1>1, <1>2, <1>3, <1>4, <1>5, <1>10 DEF Leaves


(* What is released with an input, in numbers                              *)
LEMMA ReleasedCount ==
    ASSUME Inv, StockInv, NEW id \in Ids
    PROVE  /\ ReleasedWith(id) \o <<>> \in Seq(Chunks)
           /\ \A k : Occurrences(ReleasedWith(id) \o <<>>, k) =
                        Occurrences(reg[id].queue, k)
                          + (IF LastShared(id) THEN Occurrences(common, k) ELSE 0)
<1>1. PICK q \in Seq(Chunks) : q = reg[id].queue
  BY StockFacts
<1>2. PICK d \in Seq(Chunks) : d = IF LastShared(id) THEN common ELSE <<>>
  <2>1. common \in Seq(Chunks) /\ <<>> \in Seq(Chunks)
    BY StockFacts
  <2> QED
    BY <2>1
<1>3. q \o d \in Seq(Chunks) /\ (q \o d) \o <<>> = q \o d
  OBVIOUS
<1>4. ReleasedWith(id) = q \o d
  BY <1>1, <1>2 DEF ReleasedWith
<1>5. ASSUME NEW k
      PROVE  Occurrences(q \o d, k) =
                Occurrences(reg[id].queue, k)
                  + (IF LastShared(id) THEN Occurrences(common, k) ELSE 0)
  <2>1. Occurrences(q \o d, k) = Occurrences(q, k) + Occurrences(d, k)
    BY OccurrencesConcat
  <2>2. Occurrences(d, k) = IF LastShared(id) THEN Occurrences(common, k) ELSE 0
    BY <1>2, OccurrencesEmpty
  <2> QED
    BY <1>1, <2>1, <2>2
<1> QED
  BY <1>3, <1>4, <1>5

(* The end of a connection keeps the stock.                                *)
LEMMA StockGone ==
    ASSUME Inv, StockInv, PlaceInv, OrderInv, Types', NEW c \in Conns, onInputGone(c)
    PROVE  StockStep
<1>0. UNCHANGED <<leaked, chunkId, writer>>
  BY DEF onInputGone, history, writing
<1>1. CASE reg[conn[c].id].tcp # c
  <2>1. UNCHANGED <<mem, reg, common, unblock, unblockShared, inflight>>
    BY <1>1 DEF onInputGone, blocks
  <2> QED
    BY <1>0, <2>1, StockQuiet, StockFacts
<1>2. CASE reg[conn[c].id].tcp = c
  <2>1. PICK id \in Ids : Leaves(c, id)
    <3>1. conn[c].id \in Ids
      BY DEF Inv, Types
    <3> QED
      BY <1>2, <3>1, GoneLeaves
  <2> DEFINE R(k) == IF LastShared(id) THEN Occurrences(common, k) ELSE 0
  <2> DEFINE O(k) == Occurrences(reg[id].queue, k)
  <2> DEFINE B(k) == One(k, unblock[id])
  <2> DEFINE S(k) == IF LastShared(id) THEN One(k, unblockShared) ELSE 0
  <2>2. /\ \A k \in Chunks : R(k) \in Nat /\ O(k) \in Nat /\ B(k) \in {0, 1} /\ S(k) \in {0, 1}
    BY StockFacts, PositionsType DEF One
  <2>3. /\ IsFiniteSet(inflight')
        /\ \A k \in Chunks : Cardinality(WritesOf(inflight', k)) =
                                Cardinality(WritesOf(inflight, k)) + B(k) + S(k)
    <3>0. IsFiniteSet(inflight) /\ \A k \in Chunks : Cardinality(WritesOf(inflight, k)) \in Nat
      BY StockFacts
    <3>1. CASE Freed(id) = {} /\ inflight' = inflight
      <4>1. \A k \in Chunks : B(k) = 0 /\ S(k) = 0
        BY <3>1, StockFacts DEF Freed, One
      <4> QED
        BY <3>0, <3>1, <4>1
    <3>2. ASSUME NEW x \in Chunks, NEW w, Freed(id) = {x}, inflight' = inflight \cup {w},
                 w \notin inflight, w.chunk = x
          PROVE  /\ IsFiniteSet(inflight')
                 /\ \A k \in Chunks : Cardinality(WritesOf(inflight', k)) =
                       Cardinality(WritesOf(inflight, k)) + B(k) + S(k)
      <4>1. ASSUME NEW k \in Chunks PROVE B(k) + S(k) = One(k, x)
        <5>1. LastShared(id) => reg[id].as = "shared"
          BY DEF LastShared, SharedInputs, Registered
        <5>2. reg[id].as = "shared" /\ unblockShared # 0 => unblock[id] = 0
          BY DEF PlaceInv
        <5>3. k # 0 /\ x # 0
          BY StockFacts
        <5>4. CASE unblock[id] # 0
          <6>1. x = unblock[id] /\ (LastShared(id) => unblockShared = 0)
            BY <3>2, <5>1, <5>2, <5>4 DEF Freed
          <6>2. S(k) = 0 /\ B(k) = One(k, x)
            BY <5>3, <6>1 DEF One
          <6> QED
            BY <2>2, <6>2
        <5>5. CASE unblock[id] = 0
          <6>1. LastShared(id) /\ x = unblockShared
            BY <3>2, <5>5 DEF Freed
          <6>2. B(k) = 0 /\ S(k) = One(k, x)
            BY <5>3, <5>5, <6>1 DEF One
          <6> QED
            BY <2>2, <6>2
        <5> QED
          BY <5>4, <5>5
      <4>2. /\ IsFiniteSet(inflight \cup {w})
            /\ \A k : Cardinality(WritesOf(inflight \cup {w}, k)) =
                         Cardinality(WritesOf(inflight, k)) + One(k, w.chunk)
        BY <3>0, <3>2, WritesAdd
      <4>3. ASSUME NEW k \in Chunks
            PROVE  Cardinality(WritesOf(inflight', k)) =
                      Cardinality(WritesOf(inflight, k)) + B(k) + S(k)
        <5>1. /\ Cardinality(WritesOf(inflight', k)) = Cardinality(WritesOf(inflight, k)) + One(k, x)
              /\ Cardinality(WritesOf(inflight, k)) \in Nat
          BY <3>0, <3>2, <4>2
        <5>2. B(k) + S(k) = One(k, x) /\ B(k) \in {0, 1} /\ S(k) \in {0, 1}
          BY <2>2, <4>1
        <5> HIDE DEF B, S
        <5> QED
          BY <5>1, <5>2
      <4> QED
        BY <3>2, <4>2, <4>3
    <3> HIDE DEF B, S
    <3> QED
      BY <2>1, <3>1, <3>2 DEF Leaves
  <2>4. ASSUME NEW k \in Chunks
        PROVE  /\ Cardinality(BlockedBy(unblock, k)) = Cardinality(BlockedBy(unblock', k)) + B(k)
               /\ One(k, unblockShared) = One(k, unblockShared') + S(k)
               /\ Occurrences(common, k) = Occurrences(common', k) + R(k)
               /\ Cardinality(QueueEntries(reg, k)) = Cardinality(QueueEntries(reg', k)) + O(k)
    <3>1. Cardinality(BlockedBy(unblock, k)) = Cardinality(BlockedBy(unblock', k)) + B(k)
      BY <2>1, StockFacts, BlockedClear DEF Leaves
    <3>2. One(k, unblockShared) = One(k, unblockShared') + S(k)
      <4>1. k # 0
        BY StockFacts
      <4> QED
        BY <2>1, <4>1 DEF Leaves, One
    <3>3. Occurrences(common, k) = Occurrences(common', k) + R(k)
      <4>1. Occurrences(common, k) \in Nat
        BY StockFacts
      <4> QED
        BY <2>1, <4>1, OccurrencesEmpty DEF Leaves
    <3>4. Cardinality(QueueEntries(reg, k)) = Cardinality(QueueEntries(reg', k)) + O(k)
      <4>1. /\ reg \in [Ids -> Entry] /\ reg' \in [Ids -> Entry]
            /\ reg'[id].queue = <<>> /\ \A j \in Ids : j # id => reg'[j].queue = reg[j].queue
        BY <2>1, StockFacts DEF Leaves, Nobody, Types
      <4>2. Cardinality(QueueEntries(reg', k)) + Occurrences(reg[id].queue, k) =
               Cardinality(QueueEntries(reg, k)) + Occurrences(reg'[id].queue, k)
        BY <4>1, EntriesChange
      <4>3. Occurrences(reg'[id].queue, k) = 0
        BY <4>1, OccurrencesEmpty
      <4>4. Cardinality(QueueEntries(reg, k)) \in Nat /\ Cardinality(QueueEntries(reg', k)) \in Nat
        BY <4>1, EntriesType
      <4>5. O(k) \in Nat
        BY <2>2
      <4> QED
        BY <4>2, <4>3, <4>4, <4>5
    <3> QED
      BY <3>1, <3>2, <3>3, <3>4
  <2>5. leaked' \in [Chunks -> Nat]
    BY <1>0, StockFacts
  <2>6. ASSUME NEW k \in Chunks
        PROVE  /\ O(k) + R(k) <= mem[k].use - One(k, chunkId)
               /\ mem[k].use - (O(k) + R(k)) = Users(k)'
    <3>1. Counted(k) /\ CountedNext(k)
      BY <2>3, <2>5, StockAt, StockAtNext
    <3>2. One(k, chunkId') = One(k, chunkId) /\ leaked'[k] = leaked[k]
      BY <1>0
    <3>3. R(k) \in Nat /\ O(k) \in Nat /\ B(k) \in {0, 1} /\ S(k) \in {0, 1}
      BY <2>2
    <3>4. Cardinality(WritesOf(inflight', k)) = Cardinality(WritesOf(inflight, k)) + B(k) + S(k)
      BY <2>3
    <3> HIDE DEF R, O, B, S
    <3> QED
      BY <2>4, <3>1, <3>2, <3>3, <3>4 DEF Counted, CountedNext
  <2>7. PICK q \in Seq(Chunks) :
          q = ReleasedWith(id) \o <<>> /\ \A k : Occurrences(q, k) = O(k) + R(k)
    BY ReleasedCount
  <2>8. mem' = releaseChunks(mem, q)
    BY <2>1, <2>7 DEF Leaves
  <2>9. /\ \A k \in Chunks :
              /\ mem'[k].use = mem[k].use - Occurrences(q, k)
              /\ mem'[k].use # 0 => mem'[k].msg = mem[k].msg /\ mem'[k].eos = mem[k].eos
        /\ chunkId' # 0 => mem'[chunkId'].use = 1
    <3>1. \A k \in Chunks : Occurrences(q, k) <= mem[k].use - One(k, chunkId)
      BY <2>6, <2>7
    <3> QED
      BY <1>0, <2>8, <3>1, ReleasedAll
  <2>10. \A k \in Chunks : mem'[k].use = Users(k)'
    BY <2>6, <2>7, <2>9
  <2>11. \A v \in inflight' \ inflight : mem'[v.chunk].msg = v.msg
    <3>1. CASE inflight' = inflight
      BY <3>1
    <3>2. ASSUME NEW x \in Chunks, NEW w, inflight' = inflight \cup {w}, w.chunk = x, w.msg = Msg(x)
          PROVE  mem'[w.chunk].msg = w.msg
      <4>1. Cardinality(WritesOf(inflight', x)) # 0
        <5>1. w \in WritesOf(inflight', x)
          BY <3>2 DEF WritesOf
        <5>2. IsFiniteSet(WritesOf(inflight', x))
          BY <2>3, WritesType
        <5> QED
          BY <5>1, <5>2, FS_EmptySet
      <4>2. CountedNext(x)
        BY <2>3, <2>5, StockAtNext
      <4>3. Users(x)' # 0
        BY <4>1, <4>2 DEF CountedNext
      <4> QED
        BY <2>9, <2>10, <3>2, <4>3 DEF Msg
    <3> QED
      BY <2>1, <3>1, <3>2 DEF Leaves
  <2> QED
    BY <1>0, <2>3, <2>5, <2>9, <2>10, <2>11, StockFacts DEF StockStep
<1> QED
  BY <1>1, <1>2


(* What an update does to the chunks: a message is written to chunk x, and *)
(* that has n users then.                                                  *)
WrittenTo(x, n, msg, eos) ==
    /\ \A k \in Chunks : k # x /\ k # chunkId' => mem'[k] = mem[k]
    /\ chunkId' # 0 => /\ chunkId' \in Chunks /\ chunkId' # x
                       /\ mem[chunkId'].use = 0 /\ mem'[chunkId'].use = 1
    /\ mem'[x].use = n
    /\ n # 0 => mem'[x].msg = msg /\ (mem'[x].eos <=> eos)

(* This is how it is done.                                                 *)
LEMMA UpdateMemory ==
    ASSUME mem \in [Chunks -> Chunk], NEW x \in Chunks, mem[x].use = 1, NEW n \in Nat,
           NEW msg \in Nat, NEW eos \in BOOLEAN, chunkId' = FirstFree(mem),
           mem' = decrementChunkUsage(incrementChunkUsage(
                     registerChunk(writeChunk(mem, x, msg, eos), FirstFree(mem)), x, n), x, 1)
    PROVE  WrittenTo(x, n, msg, eos)
<1> DEFINE next == FirstFree(mem)
<1> DEFINE a == writeChunk(mem, x, msg, eos)
<1> DEFINE b == registerChunk(a, next)
<1> DEFINE d == incrementChunkUsage(b, x, n)
<1>0. chunkId' = next /\ mem' = decrementChunkUsage(d, x, 1)
  OBVIOUS
<1>1. next \in 0..MaxChunks /\ (next # 0 => next \in Chunks /\ mem[next].use = 0)
  BY FirstFreeType
<1> HIDE DEF next
<1>2. /\ a \in [Chunks -> Chunk] /\ a[x].use = 1 /\ a[x].msg = msg /\ a[x].eos = eos
      /\ \A k \in Chunks : k # x => a[k] = mem[k]
  <2>1. a \in [Chunks -> Chunk]
    BY MemoryTypes
  <2>2. mem[x] \in Chunk
    OBVIOUS
  <2> QED
    BY <2>1, <2>2 DEF writeChunk, Chunk
<1> HIDE DEF a
<1>3. next # x /\ x # 0
  BY <1>1, ChunksAssumption DEF Chunks
<1>4. /\ b \in [Chunks -> Chunk] /\ b[x] = a[x]
      /\ \A k \in Chunks : k # next => b[k] = a[k]
      /\ next # 0 => b[next].use = 1
  <2>1. b \in [Chunks -> Chunk]
    BY <1>1, <1>2, MemoryTypes
  <2>2. next # 0 => b[next].use = 1
    BY <1>1, <1>2 DEF registerChunk, FreeChunk
  <2> QED
    BY <1>2, <1>3, <2>1, <2>2 DEF registerChunk
<1> HIDE DEF b
<1>5. /\ d \in [Chunks -> Chunk] /\ d[x].use = 1 + n /\ d[x].msg = msg /\ d[x].eos = eos
      /\ \A k \in Chunks : k # x => d[k] = b[k]
  <2>1. d \in [Chunks -> Chunk]
    BY <1>4, MemoryTypes
  <2>2. b[x] \in Chunk /\ b[x].use = 1
    BY <1>2, <1>4
  <2> QED
    BY <1>2, <1>4, <2>1, <2>2 DEF incrementChunkUsage, Chunk
<1> HIDE DEF d
<1>6. \A k \in Chunks : k # x => mem'[k] = d[k]
  BY <1>0, <1>5 DEF decrementChunkUsage
<1>7. mem'[x] = IF d[x].use <= 1 THEN FreeChunk ELSE [d[x] EXCEPT !.use = d[x].use - 1]
  BY <1>0, <1>5 DEF decrementChunkUsage
<1>8. mem'[x].use = n /\ (n # 0 => mem'[x].msg = msg /\ mem'[x].eos = eos)
  <2>1. CASE n = 0
    <3>1. mem'[x] = FreeChunk
      BY <1>5, <1>7, <2>1
    <3> QED
      BY <2>1, <3>1 DEF FreeChunk
  <2>2. CASE n # 0
    <3>1. mem'[x] = [d[x] EXCEPT !.use = n]
      <4>1. ~(d[x].use <= 1) /\ d[x].use - 1 = n
        BY <1>5, <2>2
      <4> QED
        BY <1>7, <4>1
    <3>2. d[x] \in Chunk
      BY <1>5
    <3> QED
      BY <1>5, <3>1, <3>2 DEF Chunk
  <2> QED
    BY <2>1, <2>2
<1>9. \A k \in Chunks : k # x /\ k # next => mem'[k] = mem[k]
  BY <1>2, <1>4, <1>5, <1>6
<1>10. next # 0 => mem'[next].use = 1
  BY <1>1, <1>3, <1>4, <1>5, <1>6
<1> QED
  BY <1>0, <1>1, <1>3, <1>8, <1>9, <1>10 DEF WrittenTo


(* What asyncPrepareDistribute() decides about those that are not ready.   *)
SharesWell(share, eos) ==
    /\ share.queue \cap Range(shareNext) = {} /\ share.block \cap Range(shareNext) = {}
    /\ share.queue # {} => setup.noInputShared # "wait" /\ ~share.common /\ common = <<>>
    /\ share.block # {} => setup.noInputShared = "wait" /\ ~share.wait
    /\ share.common => /\ setup.noInputShared = "queueDrop" /\ ~setup.selector
                       /\ Range(shareNext) = {}
    /\ share.wait => setup.noInputShared = "wait" /\ Range(shareNext) = {}
    /\ eos => share.common \/ SharedInputs \subseteq share.send \cup share.queue \cup share.block

(* It queues as configured, and in order: for one input only if nothing    *)
(* waits for all.  An end-of-stream goes to everybody.                     *)
LEMMA ShareWaits ==
    ASSUME Inv, PlaceInv, NEW next, NEW eos \in BOOLEAN,
           NEW share \in asyncPrepareDistribute(next, eos)
    PROVE  SharesWell(share, eos)
<1>0. /\ shareNext \in Seq(Ids) /\ common \in Seq(Chunks) /\ ReadyInv
      /\ setup.noInputShared \in Slowness
  BY DEF Inv, Types, Setup
<1>1. common # <<>> => /\ setup.noInputShared = "queueDrop" /\ ~setup.selector
                       /\ Range(shareNext) = {}
  <2>1. common # <<>> => setup.noInputShared = "queueDrop" /\ ~setup.selector
    BY DEF PlaceInv
  <2>2. ASSUME common # <<>>, NEW id \in Range(shareNext) PROVE FALSE
    <3>1. Head(common) \in Chunks /\ Head(common) \in Range(common)
      BY <1>0, <2>2, OccurrencesTail
    <3>2. id \in Ids /\ reg[id].as = "shared" /\ Ready(id)
      BY <1>0 DEF ReadyInv, Ready, Range
    <3>3. Head(common) \in Waiting(id)
      BY <3>1, <3>2 DEF Waiting
    <3> QED
      BY <3>2, <3>3 DEF PlaceInv
  <2> QED
    BY <2>1, <2>2
<1>2. /\ NoShare.send = {} /\ NoShare.queue = {} /\ NoShare.block = {}
      /\ NoShare.common = FALSE /\ NoShare.wait = FALSE
  BY DEF NoShare
<1>3. CASE SharedInputs = {}
  <2>1. share = NoShare
    BY <1>3 DEF asyncPrepareDistribute
  <2> QED
    BY <1>2, <1>3, <2>1 DEF SharesWell
<1>4. CASE SharedInputs # {} /\ eos
  <2>0. share = asyncPrepareDistributeEos
    BY <1>4 DEF asyncPrepareDistribute
  <2>1. CASE common # <<>>
    <3>1. /\ share.send = {} /\ share.queue = {} /\ share.block = {}
          /\ share.common = TRUE /\ share.wait = FALSE
      BY <2>0, <2>1 DEF asyncPrepareDistributeEos, NoShare
    <3> QED
      BY <1>1, <2>1, <3>1 DEF SharesWell
  <2>2. CASE common = <<>>
    <3> DEFINE slow == SharedInputs \ Range(shareNext)
    <3>1. /\ share.send = SharedInputs \cap Range(shareNext)
          /\ share.block = IF setup.noInputShared = "wait" THEN slow ELSE {}
          /\ share.queue = IF setup.noInputShared = "wait" THEN {} ELSE slow
          /\ share.common = FALSE /\ share.wait = FALSE
      BY <2>0, <2>2 DEF asyncPrepareDistributeEos, NoShare
    <3>2. SharedInputs \subseteq share.send \cup share.queue \cup share.block
      BY <3>1
    <3>3. share.queue \cap Range(shareNext) = {} /\ share.block \cap Range(shareNext) = {}
      BY <3>1
    <3> QED
      BY <2>2, <3>1, <3>2, <3>3 DEF SharesWell
  <2> QED
    BY <2>1, <2>2
<1>5. CASE SharedInputs # {} /\ ~eos /\ setup.selector
  <2>0. share \in asyncPrepareDistributeSelected(next) /\ common = <<>>
    BY <1>1, <1>5 DEF asyncPrepareDistribute
  <2>1. CASE share = NoShare
    BY <1>2, <1>5, <2>1 DEF SharesWell
  <2>2. ASSUME NEW id \in SharedInputs, id \in Range(shareNext),
               share = [NoShare EXCEPT !.send = {id}, !.next = WithoutReady(id)]
        PROVE  SharesWell(share, eos)
    <3>1. /\ share.queue = {} /\ share.block = {} /\ share.common = FALSE /\ share.wait = FALSE
      BY <2>2 DEF NoShare
    <3> QED
      BY <1>5, <3>1 DEF SharesWell
  <2>3. ASSUME NEW id \in SharedInputs, id \notin Range(shareNext),
               share = [NoShare EXCEPT
                  !.queue = IF setup.noInputShared = "queueDrop" /\ next # 0
                              THEN {id} ELSE {},
                  !.block = IF setup.noInputShared = "wait" THEN {id} ELSE {}]
        PROVE  SharesWell(share, eos)
    <3>1. /\ share.queue = IF setup.noInputShared = "queueDrop" /\ next # 0 THEN {id} ELSE {}
          /\ share.block = IF setup.noInputShared = "wait" THEN {id} ELSE {}
          /\ share.common = FALSE /\ share.wait = FALSE
      BY <2>3 DEF NoShare
    <3>2. share.queue \cap Range(shareNext) = {} /\ share.block \cap Range(shareNext) = {}
      BY <2>3, <3>1
    <3>3. /\ share.queue # {} => setup.noInputShared = "queueDrop"
          /\ share.block # {} => setup.noInputShared = "wait"
      BY <3>1
    <3> QED
      BY <1>5, <2>0, <3>1, <3>2, <3>3 DEF SharesWell
  <2> QED
    BY <2>0, <2>1, <2>2, <2>3 DEF asyncPrepareDistributeSelected
<1>6. CASE SharedInputs # {} /\ ~eos /\ ~setup.selector
  <2>0. share = asyncPrepareDistributeLoadBal(next)
    BY <1>6 DEF asyncPrepareDistribute
  <2>1. CASE shareNext # <<>>
    <3>1. share.queue = {} /\ share.block = {} /\ share.common = FALSE /\ share.wait = FALSE
      BY <2>0, <2>1 DEF asyncPrepareDistributeLoadBal, NoShare
    <3> QED
      BY <1>6, <3>1 DEF SharesWell
  <2>2. CASE shareNext = <<>>
    <3>1. /\ share.queue = {} /\ share.block = {}
          /\ share.common = (setup.noInputShared = "queueDrop" /\ next # 0)
          /\ share.wait = (setup.noInputShared = "wait")
      BY <2>0, <2>2 DEF asyncPrepareDistributeLoadBal, NoShare
    <3>2. Range(shareNext) = {}
      BY <2>2 DEF Range
    <3> QED
      BY <1>6, <3>1, <3>2 DEF SharesWell
  <2> QED
    BY <2>1, <2>2
<1> QED
  BY <1>3, <1>4, <1>5, <1>6


(* What an update does: who gets the message at once, for whom it is       *)
(* queued and who blocks the writer; the same for all shared inputs.       *)
Decides(eos, share, send, queue, block) ==
    /\ send \subseteq Ids /\ queue \subseteq Ids /\ block \subseteq Ids
    /\ \A id \in send : reg[id].as # "none" /\ Ready(id)
    /\ \A id \in queue : /\ reg[id].as # "none" /\ ~Ready(id) /\ ~Waits(id)
                         /\ reg[id].as = "shared" => common = <<>> /\ ~share.common
    /\ \A id \in block : /\ reg[id].as # "none" /\ ~Ready(id) /\ Waits(id)
                         /\ reg[id].as = "shared" => ~share.wait
    /\ share.common => setup.noInputShared = "queueDrop" /\ ~setup.selector
    /\ share.wait => setup.noInputShared = "wait"
    /\ share.common \/ share.wait => \A id \in Ids : reg[id].as = "shared" => ~Ready(id)
    /\ \A id \in Ids : Ready(id)' => Ready(id) /\ id \notin send
    /\ eos => \A id \in Ids : reg[id].as # "none" =>
                 id \in send \cup queue \cup block \/ (reg[id].as = "shared" /\ share.common)

SharedMarks(share) == {use \in {"common", "wait"} : share[use]}

Spreads(share, send, queue, block) ==
    /\ unblockShared = 0 /\ \A id \in Ids : unblock[id] = 0
    /\ \A c \in Conns : toClient'[c] =
          IF conn[c].state = "up" /\ \E id \in send : reg[id].tcp = c
          THEN Append(toClient[c], seq + 1) ELSE toClient[c]
    /\ StaysLinked
    /\ AppendedFor(reg, reg', queue, chunkId)
    /\ common' = IF share.common THEN Append(common, chunkId) ELSE common
    /\ unblock' = [id \in Ids |-> IF id \in block THEN chunkId ELSE unblock[id]]
    /\ unblockShared' = IF share.wait THEN chunkId ELSE unblockShared
    /\ seq' = seq + 1
    /\ writer' # "idle" => chunkId' = 0
    /\ UNCHANGED <<setup, conn, last, leaked>>

(* The new writes: one for each input that gets the message                *)
Starts(send, f) ==
    /\ f = [id \in send |-> f[id]]
    /\ \A id \in send : /\ f[id].tcp = reg[id].tcp /\ f[id].id = id
                        /\ f[id].chunk = chunkId /\ f[id].msg = seq + 1
    /\ inflight' = inflight \cup {f[id] : id \in send}

Updates(eos, share, send, queue, block) ==
    /\ chunkId \in Chunks /\ mem[chunkId].use = 1
    /\ share.common \in BOOLEAN /\ share.wait \in BOOLEAN
    /\ Decides(eos, share, send, queue, block)
    /\ Spreads(share, send, queue, block)
    /\ \E f : Starts(send, f)
    /\ WrittenTo(chunkId, Cardinality(send) + Cardinality(queue) + Cardinality(block)
                            + Cardinality(SharedMarks(share)), seq + 1, eos)
    /\ eosDue' = eosDue \cup {<<c, seq + 1>> : c \in {d \in Listeners : eos}}

(* asyncUpdateNoWait() does that.                                          *)
LEMMA UpdateMoves ==
    ASSUME Inv, StockInv, PlaceInv, NEW eos \in BOOLEAN, NEW final, chunkId # 0,
           ReadyForNext, asyncUpdateNoWait(eos, final)
    PROVE  \E share, send, queue, block : Updates(eos, share, send, queue, block)
<1> DEFINE next == FirstFree(mem)
<1>0. /\ Types /\ LinkInv /\ ReadyInv /\ reg \in [Ids -> Entry] /\ mem \in [Chunks -> Chunk]
      /\ copyNext \subseteq Ids /\ seq \in Nat /\ setup \in Setup
  BY DEF Inv, Types
<1>1. chunkId \in Chunks /\ mem[chunkId].use = 1
  <2>1. mem[chunkId].use = 1
    BY StockFacts
  <2> QED
    BY <2>1, ChunksAssumption DEF Inv, Types, Chunks
<1>2. PICK share \in asyncPrepareDistribute(next, eos) :
        LET send == (CopyInputs \cap copyNext) \cup share.send
            queue == CopyQueue(next, eos) \cup share.queue
            block == CopyBlock \cup share.block
            users == Cardinality(Launched(send)) + Cardinality(queue)
                       + Cardinality(block)
                       + Cardinality({use \in {"common", "wait"} : share[use]})
            written == registerChunk(writeChunk(mem, chunkId, seq + 1, eos), next)
        IN  /\ asyncSendOne(send, chunkId, seq + 1, final)
            /\ reg' = Sending(Queued(reg, queue, chunkId), send)
            /\ mem' = decrementChunkUsage(incrementChunkUsage(written, chunkId, users), chunkId, 1)
            /\ common' = IF share.common THEN Append(common, chunkId) ELSE common
            /\ unblock' = [id \in Ids |-> IF id \in block THEN chunkId ELSE unblock[id]]
            /\ unblockShared' = IF share.wait THEN chunkId ELSE unblockShared
            /\ shareNext' = share.next
            /\ copyNext' = copyNext \ CopyInputs
  BY DEF asyncUpdateNoWait
<1> DEFINE send == (CopyInputs \cap copyNext) \cup share.send
<1> DEFINE queue == CopyQueue(next, eos) \cup share.queue
<1> DEFINE block == CopyBlock \cup share.block
<1> DEFINE users == Cardinality(send) + Cardinality(queue) + Cardinality(block)
                      + Cardinality(SharedMarks(share))
<1>3. /\ share.send \subseteq SharedInputs \cap Range(shareNext)
      /\ share.queue \subseteq SharedInputs /\ share.block \subseteq SharedInputs
      /\ share.common \in BOOLEAN /\ share.wait \in BOOLEAN
      /\ Range(share.next) = Range(shareNext) \ share.send
  BY <1>0, ShareFacts
<1>4. SharesWell(share, eos)
  BY ShareWaits
<1>5. copyNext \subseteq CopyInputs
  BY <1>0 DEF ReadyInv, CopyInputs, Registered
<1>6. /\ \A id \in SharedInputs : id \in Ids /\ reg[id].as = "shared"
      /\ \A id \in CopyInputs : id \in Ids /\ reg[id].as = "copy"
      /\ \A id \in Ids : reg[id].as # "none" => id \in SharedInputs \cup CopyInputs
  BY <1>0 DEF SharedInputs, CopyInputs, Registered, Entry
<1>7. \A id \in Ids : reg[id].as # "none" =>
        (Waits(id) <=> IF reg[id].as = "shared" THEN setup.noInputShared = "wait"
                       ELSE setup.slowness[id] = "wait")
  BY <1>0 DEF LinkInv, Waits
<1>8. /\ \A id \in SharedInputs : Ready(id) <=> id \in Range(shareNext)
      /\ \A id \in CopyInputs : Ready(id) <=> id \in copyNext
  BY <1>0, <1>5, <1>6 DEF ReadyInv, Ready
<1>9. /\ CopyBlock \subseteq CopyInputs /\ CopyQueue(next, eos) \subseteq CopyInputs
      /\ CopyBlock \cap copyNext = {} /\ CopyQueue(next, eos) \cap copyNext = {}
      /\ \A id \in CopyBlock : setup.slowness[id] = "wait"
      /\ \A id \in CopyQueue(next, eos) : setup.slowness[id] # "wait"
      /\ eos => \A id \in CopyInputs \ copyNext : id \in CopyBlock \cup CopyQueue(next, eos)
  <2>1. \A id \in Ids : setup.slowness[id] \in Slowness
    BY <1>0 DEF Setup
  <2> QED
    BY <1>6, <2>1 DEF CopyBlock, CopyQueue, Slowness
<1>10. Decides(eos, share, send, queue, block)
  <2>1. send \subseteq Ids /\ queue \subseteq Ids /\ block \subseteq Ids
    BY <1>3, <1>6, <1>9
  <2>2. \A id \in send : reg[id].as # "none" /\ Ready(id)
    BY <1>3, <1>6, <1>8
  <2>3. \A id \in queue : /\ reg[id].as # "none" /\ ~Ready(id) /\ ~Waits(id)
                          /\ reg[id].as = "shared" => common = <<>> /\ ~share.common
    <3>1. ASSUME NEW id \in CopyQueue(next, eos)
          PROVE  reg[id].as = "copy" /\ ~Ready(id) /\ ~Waits(id)
      BY <1>6, <1>7, <1>8, <1>9
    <3>2. ASSUME NEW id \in share.queue
          PROVE  /\ reg[id].as = "shared" /\ ~Ready(id) /\ ~Waits(id)
                 /\ common = <<>> /\ ~share.common
      BY <1>3, <1>4, <1>6, <1>7, <1>8 DEF SharesWell
    <3> QED
      BY <3>1, <3>2
  <2>4. \A id \in block : /\ reg[id].as # "none" /\ ~Ready(id) /\ Waits(id)
                          /\ reg[id].as = "shared" => ~share.wait
    <3>1. ASSUME NEW id \in CopyBlock
          PROVE  reg[id].as = "copy" /\ ~Ready(id) /\ Waits(id)
      BY <1>6, <1>7, <1>8, <1>9
    <3>2. ASSUME NEW id \in share.block
          PROVE  reg[id].as = "shared" /\ ~Ready(id) /\ Waits(id) /\ ~share.wait
      BY <1>3, <1>4, <1>6, <1>7, <1>8 DEF SharesWell
    <3> QED
      BY <3>1, <3>2
  <2>5. /\ share.common => setup.noInputShared = "queueDrop" /\ ~setup.selector
        /\ share.wait => setup.noInputShared = "wait"
    BY <1>4 DEF SharesWell
  <2>6. share.common \/ share.wait => \A id \in Ids : reg[id].as = "shared" => ~Ready(id)
    BY <1>4, <1>6, <1>8 DEF SharesWell
  <2>7. \A id \in Ids : Ready(id)' => Ready(id) /\ id \notin send
    <3>1. shareNext' = share.next /\ copyNext' = {}
      BY <1>2, <1>5
    <3>2. \A id \in Range(shareNext) : reg[id].as = "shared"
      BY <1>0 DEF ReadyInv
    <3>3. \A id \in Ids : Ready(id)' => id \in Range(shareNext) \ share.send
      BY <1>3, <3>1 DEF Ready
    <3> QED
      BY <1>6, <3>2, <3>3 DEF Ready
  <2>8. ASSUME eos, NEW id \in Ids, reg[id].as # "none"
        PROVE  id \in send \cup queue \cup block \/ (reg[id].as = "shared" /\ share.common)
    <3>1. CASE id \in CopyInputs
      BY <1>9, <2>8, <3>1
    <3>2. CASE id \in SharedInputs
      BY <1>4, <1>6, <2>8, <3>2 DEF SharesWell
    <3> QED
      BY <1>6, <2>8, <3>1, <3>2
  <2> HIDE DEF send, queue, block
  <2> QED
    BY <2>1, <2>2, <2>3, <2>4, <2>5, <2>6, <2>7, <2>8 DEF Decides
<1>11. /\ asyncSendOne(send, chunkId, seq + 1, final)
       /\ reg' = Sending(Queued(reg, queue, chunkId), send)
       /\ mem' = decrementChunkUsage(incrementChunkUsage(
                    registerChunk(writeChunk(mem, chunkId, seq + 1, eos), next), chunkId,
                    Cardinality(Launched(send)) + Cardinality(queue) + Cardinality(block)
                      + Cardinality(SharedMarks(share))), chunkId, 1)
       /\ common' = IF share.common THEN Append(common, chunkId) ELSE common
       /\ unblock' = [id \in Ids |-> IF id \in block THEN chunkId ELSE unblock[id]]
       /\ unblockShared' = IF share.wait THEN chunkId ELSE unblockShared
  BY <1>2 DEF SharedMarks
<1> HIDE DEF send, queue, block
<1>12. send \subseteq Ids /\ queue \subseteq Ids /\ block \subseteq Ids
  BY <1>10 DEF Decides
<1>13. Launched(send) = send
  <2>1. \A id \in send : IsOpen(id)
    BY <1>0, <1>10, <1>12 DEF Decides, LinkInv, IsOpen
  <2> QED
    BY <2>1 DEF Launched
<1>14. Spreads(share, send, queue, block)
  <2>1. unblockShared = 0 /\ \A id \in Ids : unblock[id] = 0
    BY DEF ReadyForNext
  <2>2. \A c \in Conns : toClient'[c] =
          IF conn[c].state = "up" /\ \E id \in send : reg[id].tcp = c
          THEN Append(toClient[c], seq + 1) ELSE toClient[c]
    BY <1>11 DEF asyncSendOne
  <2> DEFINE r == Queued(reg, queue, chunkId)
  <2>3. /\ r \in [Ids -> Entry]
        /\ \A id \in Ids : r[id].as = reg[id].as /\ r[id].tcp = reg[id].tcp
    BY <1>0, <1>1, QueuedFacts
  <2>4. \A id \in Ids : r[id].queue = IF id \in queue THEN Append(reg[id].queue, chunkId)
                                      ELSE reg[id].queue
    BY <1>0, <1>1 DEF Queued, Entry
  <2>5. reg' = Sending(r, send)
    BY <1>11
  <2> HIDE DEF r
  <2>6. /\ reg' \in [Ids -> Entry]
        /\ \A id \in Ids : /\ reg'[id].as = r[id].as /\ reg'[id].tcp = r[id].tcp
                           /\ reg'[id].queue = r[id].queue
    BY <2>3, <2>5, SendingFacts
  <2>7. StaysLinked
    BY <2>3, <2>6 DEF StaysLinked
  <2>8. AppendedFor(reg, reg', queue, chunkId)
    BY <1>0, <1>1, <1>12, <2>4, <2>6 DEF AppendedFor
  <2>9. /\ seq' = seq + 1 /\ (writer' # "idle" => chunkId' = 0)
        /\ UNCHANGED <<setup, conn, last, leaked>>
    BY DEF asyncUpdateNoWait, network
  <2> QED
    BY <1>11, <2>1, <2>2, <2>7, <2>8, <2>9 DEF Spreads
<1>15. \E f : Starts(send, f)
  <2> DEFINE f == [id \in send |-> [tcp |-> reg[id].tcp, id |-> id, chunk |-> chunkId,
                                    msg |-> seq + 1, awaited |-> final]]
  <2>1. inflight' = inflight \cup
          {[tcp |-> reg[id].tcp, id |-> id, chunk |-> chunkId, msg |-> seq + 1,
            awaited |-> final] : id \in send}
    BY <1>11, <1>13 DEF asyncSendOne
  <2>2. {f[id] : id \in send} =
          {[tcp |-> reg[id].tcp, id |-> id, chunk |-> chunkId, msg |-> seq + 1,
            awaited |-> final] : id \in send}
    OBVIOUS
  <2>3. \A id \in send : /\ f[id].tcp = reg[id].tcp /\ f[id].id = id
                         /\ f[id].chunk = chunkId /\ f[id].msg = seq + 1
    OBVIOUS
  <2>4. f = [id \in send |-> f[id]]
    OBVIOUS
  <2> HIDE DEF f
  <2> QED
    BY <2>1, <2>2, <2>3, <2>4 DEF Starts
<1>16. WrittenTo(chunkId, users, seq + 1, eos)
  <2>1. PICK n \in Nat : n = users
    <3>1. IsFiniteSet(send) /\ IsFiniteSet(queue) /\ IsFiniteSet(block)
      BY <1>12, IdsAssumption, FS_Subset
    <3>2. IsFiniteSet({"common"} \cup {"wait"}) /\ {"common"} \cup {"wait"} = {"common", "wait"}
      BY FS_Singleton, FS_AddElement
    <3>3. IsFiniteSet(SharedMarks(share))
      BY <3>2, FS_Subset DEF SharedMarks
    <3>4. /\ Cardinality(send) \in Nat /\ Cardinality(queue) \in Nat /\ Cardinality(block) \in Nat
          /\ Cardinality(SharedMarks(share)) \in Nat
      BY <3>1, <3>3, FS_CardinalityType
    <3> QED
      BY <3>4
  <2>2. mem' = decrementChunkUsage(incrementChunkUsage(
                  registerChunk(writeChunk(mem, chunkId, seq + 1, eos), next), chunkId, n), chunkId, 1)
    BY <1>11, <1>13, <2>1
  <2>3. PICK x \in Chunks : x = chunkId
    BY <1>1
  <2>4. PICK msg \in Nat : msg = seq + 1
    BY <1>0
  <2>5. chunkId' = next
    BY DEF asyncUpdateNoWait
  <2>6. WrittenTo(x, n, msg, eos)
    BY <1>0, <1>1, <2>2, <2>3, <2>4, <2>5, UpdateMemory
  <2> QED
    BY <2>1, <2>3, <2>4, <2>6
<1>17. eosDue' = eosDue \cup {<<c, seq + 1>> : c \in {d \in Listeners : eos}}
  BY DEF asyncUpdateNoWait
<1> QED
  BY <1>1, <1>3, <1>10, <1>14, <1>15, <1>16, <1>17 DEF Updates


(* A sum is positive if its first part is.                                 *)
LEMMA SumPositive ==
    ASSUME NEW a \in Nat, NEW b \in Nat, NEW d \in Nat, NEW e \in Nat, a # 0
    PROVE  a + b + d + e # 0
OBVIOUS

(* The common queue and the block of all shared inputs are one user each.  *)
LEMMA MarksCount ==
    ASSUME NEW share, share.common \in BOOLEAN, share.wait \in BOOLEAN
    PROVE  Cardinality(SharedMarks(share)) =
              (IF share.common THEN 1 ELSE 0) + (IF share.wait THEN 1 ELSE 0)
<1>1. IsFiniteSet({"common"}) /\ Cardinality({"common"}) = 1 /\ Cardinality({"wait"}) = 1
  BY FS_Singleton
<1>2. Cardinality({"common"} \cup {"wait"}) = 1 + 1
  BY <1>1, FS_AddElement
<1>3. Cardinality({}) = 0
  BY FS_EmptySet
<1>4. CASE share.common /\ share.wait
  <2>1. SharedMarks(share) = {"common"} \cup {"wait"}
    BY <1>4 DEF SharedMarks
  <2> QED
    BY <1>2, <1>4, <2>1
<1>5. CASE share.common /\ ~share.wait
  <2>1. SharedMarks(share) = {"common"}
    BY <1>5 DEF SharedMarks
  <2> QED
    BY <1>1, <1>5, <2>1
<1>6. CASE ~share.common /\ share.wait
  <2>1. SharedMarks(share) = {"wait"}
    BY <1>6 DEF SharedMarks
  <2> QED
    BY <1>1, <1>6, <2>1
<1>7. CASE ~share.common /\ ~share.wait
  <2>1. SharedMarks(share) = {}
    BY <1>7 DEF SharedMarks
  <2> QED
    BY <1>3, <1>7, <2>1
<1> QED
  BY <1>4, <1>5, <1>6, <1>7

(* The new writes are new, as their message is.                            *)
LEMMA StartsNew ==
    ASSUME Inv, StockInv, OrderInv, NEW send \in SUBSET Ids,
           \A id \in send : reg[id].as # "none", NEW f, Starts(send, f)
    PROVE  /\ {f[id] : id \in send} \cap inflight = {}
           /\ IsFiniteSet(inflight')
           /\ \A k : Cardinality(WritesOf(inflight', k)) = Cardinality(WritesOf(inflight, k))
                        + (IF k = chunkId THEN Cardinality(send) ELSE 0)
<1> DEFINE N == {f[id] : id \in send}
<1>0. /\ f = [id \in send |-> f[id]]
      /\ \A id \in send : /\ f[id].tcp = reg[id].tcp /\ f[id].id = id
                          /\ f[id].chunk = chunkId /\ f[id].msg = seq + 1
      /\ inflight' = inflight \cup N
  BY DEF Starts
<1>1. \A id \in send : reg[id].tcp \in Conns
  BY BoundsAssumption DEF Inv, Types, LinkInv, Entry, Conns
<1>2. N \cap inflight = {}
  <2>1. ASSUME NEW id \in send, f[id] \in inflight PROVE FALSE
    <3>1. SentBefore(reg[id].tcp, seq + 1)
      BY <1>1 DEF OrderInv, SentInv
    <3>2. seq + 1 < seq + 1
      BY <1>0, <2>1, <3>1 DEF SentBefore
    <3>3. seq \in Nat
      BY DEF Inv, Types
    <3> QED
      BY <3>2, <3>3
  <2> QED
    BY <2>1
<1>3. f \in [send -> N]
  BY <1>0
<1>4. \A a, b \in send : f[a] = f[b] => a = b
  BY <1>0
<1>5. \A w \in N : w.chunk = chunkId /\ \E a \in send : f[a] = w
  BY <1>0
<1>6. IsFiniteSet(inflight)
  BY StockFacts
<1> HIDE DEF N
<1>7. /\ IsFiniteSet(inflight \cup N)
      /\ \A k : Cardinality(WritesOf(inflight \cup N, k)) = Cardinality(WritesOf(inflight, k))
                   + (IF k = chunkId THEN Cardinality(send) ELSE 0)
  <2>1. OneFor(f, send, N, chunkId)
    BY <1>3, <1>4, <1>5 DEF OneFor
  <2> QED
    BY <1>2, <1>6, <2>1, WritesAddAll
<1> QED
  BY <1>0, <1>2, <1>7 DEF N

(* An update keeps the stock.                                              *)
LEMMA StockUpdate ==
    ASSUME Inv, StockInv, OrderInv, Types', NEW eos \in BOOLEAN, NEW share, NEW send,
           NEW queue, NEW block, Updates(eos, share, send, queue, block)
    PROVE  StockStep
<1> DEFINE n == Cardinality(send) + Cardinality(queue) + Cardinality(block)
                  + Cardinality(SharedMarks(share))
<1>0. /\ chunkId \in Chunks /\ mem[chunkId].use = 1 /\ WrittenTo(chunkId, n, seq + 1, eos)
      /\ send \in SUBSET Ids /\ queue \in SUBSET Ids /\ block \in SUBSET Ids
      /\ \A id \in send : reg[id].as # "none"
      /\ share.common \in BOOLEAN /\ share.wait \in BOOLEAN
  BY DEF Updates, Decides
<1>1. /\ unblockShared = 0 /\ \A id \in Ids : unblock[id] = 0
      /\ AppendedFor(reg, reg', queue, chunkId)
      /\ common' = IF share.common THEN Append(common, chunkId) ELSE common
      /\ unblock' = [id \in Ids |-> IF id \in block THEN chunkId ELSE unblock[id]]
      /\ unblockShared' = IF share.wait THEN chunkId ELSE unblockShared
      /\ leaked' = leaked /\ (writer' # "idle" => chunkId' = 0)
  BY DEF Updates, Spreads
<1>2. PICK f : Starts(send, f)
  BY DEF Updates
<1>3. /\ {f[id] : id \in send} \cap inflight = {} /\ IsFiniteSet(inflight')
      /\ \A k : Cardinality(WritesOf(inflight', k)) = Cardinality(WritesOf(inflight, k))
                   + (IF k = chunkId THEN Cardinality(send) ELSE 0)
  BY <1>0, <1>2, StartsNew
<1>4. /\ Cardinality(send) \in Nat /\ Cardinality(queue) \in Nat /\ Cardinality(block) \in Nat
  BY <1>0, IdsAssumption, FS_Subset, FS_CardinalityType
<1>5. Cardinality(SharedMarks(share)) = (IF share.common THEN 1 ELSE 0) + (IF share.wait THEN 1 ELSE 0)
  BY <1>0, MarksCount
<1>6. leaked' \in [Chunks -> Nat] /\ 0 \notin Chunks
  BY <1>1, StockFacts
<1>7. ASSUME NEW k \in Chunks
      PROVE  /\ Cardinality(BlockedBy(unblock', k)) = IF k = chunkId THEN Cardinality(block) ELSE 0
             /\ Cardinality(BlockedBy(unblock, k)) = 0
             /\ One(k, unblockShared') = IF k = chunkId /\ share.wait THEN 1 ELSE 0
             /\ One(k, unblockShared) = 0
             /\ Occurrences(common', k) =
                   Occurrences(common, k) + (IF k = chunkId /\ share.common THEN 1 ELSE 0)
             /\ Cardinality(QueueEntries(reg', k)) = Cardinality(QueueEntries(reg, k))
                   + (IF k = chunkId THEN Cardinality(queue) ELSE 0)
  <2>1. /\ Cardinality(BlockedBy(unblock', k)) = IF k = chunkId THEN Cardinality(block) ELSE 0
        /\ Cardinality(BlockedBy(unblock, k)) = 0
    <3>1. Blocks(unblock, unblock', block, chunkId)
      BY <1>0, <1>1 DEF Blocks
    <3> QED
      BY <3>1, BlockedSet
  <2>2. /\ One(k, unblockShared') = IF k = chunkId /\ share.wait THEN 1 ELSE 0
        /\ One(k, unblockShared) = 0
    BY <1>0, <1>1, <1>6 DEF One
  <2>3. Occurrences(common', k) =
          Occurrences(common, k) + (IF k = chunkId /\ share.common THEN 1 ELSE 0)
    <3>1. common \in Seq(Chunks) /\ Occurrences(common, k) \in Nat
      BY StockFacts
    <3>2. Occurrences(Append(common, chunkId), k) =
             Occurrences(common, k) + (IF chunkId = k THEN 1 ELSE 0)
      BY <1>0, <3>1, OccurrencesAppend
    <3>3. CASE share.common
      BY <1>1, <3>2, <3>3
    <3>4. CASE ~share.common
      BY <1>1, <3>1, <3>4
    <3> QED
      BY <3>3, <3>4
  <2>4. Cardinality(QueueEntries(reg', k)) = Cardinality(QueueEntries(reg, k))
          + (IF k = chunkId THEN Cardinality(queue) ELSE 0)
    BY <1>1, EntriesQueued
  <2> QED
    BY <2>1, <2>2, <2>3, <2>4
<1>8. ASSUME NEW k \in Chunks PROVE mem'[k].use = Users(k)'
  <2>1. Counted(k) /\ CountedNext(k)
    BY <1>3, <1>6, StockAt, StockAtNext
  <2>2. leaked'[k] = leaked[k]
    BY <1>1
  <2>3. CASE k = chunkId
    <3>1. One(k, chunkId) = 1 /\ One(k, chunkId') = 0
      BY <1>0, <1>6, <2>3 DEF One, WrittenTo
    <3>2. /\ Cardinality(WritesOf(inflight, k)) = 0 /\ Occurrences(common, k) = 0
          /\ leaked[k] = 0 /\ Cardinality(QueueEntries(reg, k)) = 0
      <4>1. mem[k].use = 1
        BY <1>0, <2>3
      <4> QED
        BY <2>1, <3>1, <4>1 DEF Counted
    <3>3. /\ Cardinality(WritesOf(inflight', k)) = Cardinality(send)
          /\ Cardinality(BlockedBy(unblock', k)) = Cardinality(block)
          /\ One(k, unblockShared') = IF share.wait THEN 1 ELSE 0
          /\ Occurrences(common', k) = IF share.common THEN 1 ELSE 0
          /\ Cardinality(QueueEntries(reg', k)) = Cardinality(queue)
      BY <1>3, <1>4, <1>7, <2>3, <3>2
    <3>4. mem'[k].use = Cardinality(send) + Cardinality(queue) + Cardinality(block)
            + ((IF share.common THEN 1 ELSE 0) + (IF share.wait THEN 1 ELSE 0))
      BY <1>0, <1>5, <2>3 DEF WrittenTo
    <3> QED
      BY <1>4, <2>1, <2>2, <3>1, <3>2, <3>3, <3>4 DEF CountedNext
  <2>4. CASE k # chunkId
    <3>1. /\ Cardinality(WritesOf(inflight', k)) = Cardinality(WritesOf(inflight, k))
          /\ Cardinality(BlockedBy(unblock', k)) = Cardinality(BlockedBy(unblock, k))
          /\ One(k, unblockShared') = One(k, unblockShared)
          /\ Occurrences(common', k) = Occurrences(common, k)
          /\ Cardinality(QueueEntries(reg', k)) = Cardinality(QueueEntries(reg, k))
      <4>1. /\ Cardinality(WritesOf(inflight, k)) \in Nat /\ Occurrences(common, k) \in Nat
            /\ Cardinality(QueueEntries(reg, k)) \in Nat
        BY <2>1 DEF Counted
      <4> QED
        BY <1>3, <1>7, <2>4, <4>1
    <3>2. mem'[k].use = mem[k].use + One(k, chunkId') /\ One(k, chunkId) = 0
      <4>1. CASE k = chunkId'
        <5>1. mem[k].use = 0 /\ mem'[k].use = 1
          BY <1>0, <1>6, <4>1 DEF WrittenTo
        <5> QED
          BY <2>4, <4>1, <5>1 DEF One
      <4>2. CASE k # chunkId'
        <5>1. mem'[k].use = mem[k].use /\ mem[k].use \in Nat
          BY <1>0, <2>1, <2>4, <4>2 DEF WrittenTo, Counted
        <5> QED
          BY <2>4, <4>2, <5>1 DEF One
      <4> QED
        BY <4>1, <4>2
    <3> QED
      BY <2>1, <2>2, <3>1, <3>2 DEF Counted, CountedNext
  <2> QED
    BY <2>3, <2>4
<1>9. \A k \in Chunks : k # chunkId /\ k # chunkId' => mem'[k] = mem[k]
  BY <1>0 DEF WrittenTo
<1>10. \A w \in inflight' \ inflight : mem'[w.chunk].msg = w.msg
  <2>1. ASSUME NEW id \in send PROVE mem'[f[id].chunk].msg = f[id].msg
    <3>1. f[id].chunk = chunkId /\ f[id].msg = seq + 1 /\ f[id] \in inflight'
      BY <1>2 DEF Starts
    <3>2. n # 0
      <4>1. Cardinality(send) # 0
        BY <1>0, IdsAssumption, FS_Subset, FS_EmptySet
      <4>2. Cardinality(SharedMarks(share)) \in Nat
        BY <1>5
      <4> QED
        BY <1>4, <4>1, <4>2, SumPositive
    <3> HIDE DEF n
    <3> QED
      BY <1>0, <3>1, <3>2 DEF WrittenTo
  <2> QED
    BY <1>2, <2>1 DEF Starts
<1>11. chunkId' # 0 => mem'[chunkId'].use = 1
  BY <1>0 DEF WrittenTo
<1> QED
  BY <1>1, <1>3, <1>6, <1>8, <1>9, <1>10, <1>11 DEF StockStep


-----------------------------------------------------------------------------
(* A queue p has some of the entries of q, in the same order.              *)
PartOf(p, q) ==
    \E f \in [1..Len(p) -> 1..Len(q)] :
        /\ \A i, j \in 1..Len(p) : i < j => f[i] < f[j]
        /\ \A i \in 1..Len(p) : p[i] = q[f[i]]

(* A queue that stays, is emptied, served or thinned out is part of what   *)
(* it was.                                                                 *)
LEMMA PartOfSame ==
    ASSUME NEW q \in Seq(Chunks)
    PROVE  PartOf(q, q)
<1> DEFINE f == [i \in 1..Len(q) |-> i]
<1>1. f \in [1..Len(q) -> 1..Len(q)]
  OBVIOUS
<1>2. \A i, j \in 1..Len(q) : i < j => f[i] < f[j]
  OBVIOUS
<1>3. \A i \in 1..Len(q) : q[i] = q[f[i]]
  OBVIOUS
<1> HIDE DEF f
<1> QED
  BY <1>1, <1>2, <1>3 DEF PartOf

(* emptied                                                                 *)
LEMMA PartOfEmpty == \A q : PartOf(<<>>, q)
<1> TAKE q
<1> DEFINE f == [i \in 1..0 |-> i]
<1>1. Len(<<>>) = 0 /\ 1..0 = {}
  OBVIOUS
<1>2. f \in [1..0 -> 1..Len(q)]
  BY <1>1
<1> HIDE DEF f
<1> QED
  BY <1>1, <1>2 DEF PartOf

(* served                                                                  *)
LEMMA PartOfTail ==
    ASSUME NEW q \in Seq(Chunks), q # <<>>
    PROVE  PartOf(Tail(q), q) /\ Tail(q) \in Seq(Chunks)
<1> DEFINE p == Tail(q)
<1> DEFINE f == [i \in 1..Len(p) |-> i + 1]
<1>1. /\ p \in Seq(Chunks) /\ Len(q) \in Nat /\ Len(p) = Len(q) - 1
      /\ \A i \in 1..Len(p) : p[i] = q[i + 1]
  OBVIOUS
<1> HIDE DEF p
<1>2. f \in [1..Len(p) -> 1..Len(q)]
  BY <1>1
<1>3. \A i, j \in 1..Len(p) : i < j => f[i] < f[j]
  BY <1>1
<1>4. \A i \in 1..Len(p) : p[i] = q[f[i]]
  BY <1>1
<1> HIDE DEF f
<1>5. PartOf(p, q)
  BY <1>2, <1>3, <1>4 DEF PartOf
<1> QED
  BY <1>1, <1>5 DEF p

(* thinned out.                                                            *)
LEMMA PartOfRemove ==
    ASSUME NEW q \in Seq(Chunks), NEW n \in 1..Len(q)
    PROVE  PartOf(RemoveAt(q, n), q) /\ RemoveAt(q, n) \in Seq(Chunks)
<1> DEFINE p == RemoveAt(q, n)
<1> DEFINE f == [i \in 1..Len(p) |-> IF i < n THEN i ELSE i + 1]
<1>1. /\ p \in Seq(Chunks) /\ Len(p) = Len(q) - 1 /\ Len(q) \in Nat /\ n \in Nat
      /\ \A i \in 1..(Len(q) - 1) : p[i] = IF i < n THEN q[i] ELSE q[i + 1]
  BY OccurrencesRemove
<1> HIDE DEF p
<1>2. f \in [1..Len(p) -> 1..Len(q)]
  BY <1>1
<1>3. \A i, j \in 1..Len(p) : i < j => f[i] < f[j]
  BY <1>1
<1>4. \A i \in 1..Len(p) : p[i] = q[f[i]]
  BY <1>1
<1> HIDE DEF f
<1>5. PartOf(p, q)
  BY <1>2, <1>3, <1>4 DEF PartOf
<1> QED
  BY <1>1, <1>5 DEF p

(* What is in a part is in the whole,                                      *)
LEMMA PartRange ==
    ASSUME NEW p \in Seq(Chunks), NEW q \in Seq(Chunks), PartOf(p, q)
    PROVE  Range(p) \subseteq Range(q) /\ (q = <<>> => p = <<>>)
<1>1. PICK f \in [1..Len(p) -> 1..Len(q)] : \A i \in 1..Len(p) : p[i] = q[f[i]]
  BY DEF PartOf
<1>2. Range(p) \subseteq Range(q)
  BY <1>1 DEF Range
<1>3. ASSUME q = <<>>, p # <<>> PROVE FALSE
  <2>1. 1 \in 1..Len(p)
    BY <1>3
  <2>2. f[1] \in 1..Len(q)
    BY <2>1
  <2> QED
    BY <1>3, <2>2
<1> QED
  BY <1>2, <1>3

(* The messages of a queue increase, for any state of the memory.          *)
IncreasingIn(m, q) == \A i, j \in 1..Len(q) : i < j => m[q[i]].msg < m[q[j]].msg

SameMsgs(m, n, q) == \A k \in Range(q) : n[k].msg = m[k].msg

(* The part of an increasing queue increases.                              *)
LEMMA IncreasingPart ==
    ASSUME NEW p \in Seq(Chunks), NEW q \in Seq(Chunks), PartOf(p, q), NEW m, NEW n,
           IncreasingIn(m, q), SameMsgs(m, n, p)
    PROVE  IncreasingIn(n, p)
<1>1. PICK f \in [1..Len(p) -> 1..Len(q)] :
         /\ \A i, j \in 1..Len(p) : i < j => f[i] < f[j]
         /\ \A i \in 1..Len(p) : p[i] = q[f[i]]
  BY DEF PartOf
<1>2. \A i \in 1..Len(p) : p[i] \in Range(p)
  BY DEF Range
<1>3. \A i \in 1..Len(p) : n[p[i]].msg = m[p[i]].msg
  BY <1>2 DEF SameMsgs
<1>4. ASSUME NEW i \in 1..Len(p), NEW j \in 1..Len(p), i < j
      PROVE  n[p[i]].msg < n[p[j]].msg
  <2>1. f[i] \in 1..Len(q) /\ f[j] \in 1..Len(q) /\ f[i] < f[j]
    BY <1>1, <1>4
  <2>2. m[q[f[i]]].msg < m[q[f[j]]].msg
    BY <2>1 DEF IncreasingIn
  <2>3. p[i] = q[f[i]] /\ p[j] = q[f[j]]
    BY <1>1
  <2> QED
    BY <1>3, <2>2, <2>3
<1> QED
  BY <1>4 DEF IncreasingIn

(* So does an increasing queue to which something newer is appended.       *)
LEMMA IncreasingAppend ==
    ASSUME NEW q \in Seq(Chunks), NEW x \in Chunks, NEW m, NEW n, IncreasingIn(m, q),
           SameMsgs(m, n, q), \A k \in Range(q) : m[k].msg < n[x].msg
    PROVE  IncreasingIn(n, Append(q, x))
<1> DEFINE p == Append(q, x)
<1>1. /\ Len(p) = Len(q) + 1 /\ Len(q) \in Nat /\ p[Len(q) + 1] = x
      /\ \A i \in 1..Len(q) : p[i] = q[i] /\ q[i] \in Range(q)
  BY DEF Range
<1> HIDE DEF p
<1>2. ASSUME NEW i \in 1..Len(p), NEW j \in 1..Len(p), i < j
      PROVE  n[p[i]].msg < n[p[j]].msg
  <2>1. i \in 1..Len(q) /\ (j \in 1..Len(q) \/ j = Len(q) + 1)
    BY <1>1, <1>2
  <2>2. p[i] = q[i] /\ q[i] \in Range(q) /\ n[q[i]].msg = m[q[i]].msg
    BY <1>1, <2>1 DEF SameMsgs
  <2>3. CASE j \in 1..Len(q)
    <3>1. p[j] = q[j] /\ n[q[j]].msg = m[q[j]].msg
      BY <1>1, <2>3 DEF SameMsgs
    <3>2. m[q[i]].msg < m[q[j]].msg
      BY <1>2, <2>1, <2>3 DEF IncreasingIn
    <3> QED
      BY <2>2, <3>1, <3>2
  <2>4. CASE j = Len(q) + 1
    <3>1. m[q[i]].msg < n[x].msg /\ p[j] = x
      BY <1>1, <2>2, <2>4
    <3> QED
      BY <2>2, <3>1
  <2> QED
    BY <2>1, <2>3, <2>4
<1>3. IncreasingIn(n, p)
  BY <1>2 DEF IncreasingIn
<1> QED
  BY <1>3 DEF p

(* The head of an increasing queue is older than its tail.                 *)
LEMMA HeadOldest ==
    ASSUME NEW q \in Seq(Chunks), q # <<>>, NEW m, IncreasingIn(m, q)
    PROVE  \A k \in Range(Tail(q)) : m[Head(q)].msg < m[k].msg
<1> SUFFICES ASSUME NEW k \in Range(Tail(q))
             PROVE  m[Head(q)].msg < m[k].msg
  OBVIOUS
<1>1. PICK i \in 1..Len(Tail(q)) : k = Tail(q)[i]
  BY DEF Range
<1>2. i + 1 \in 1..Len(q) /\ 1 \in 1..Len(q) /\ 1 < i + 1 /\ Tail(q)[i] = q[i + 1]
      /\ Head(q) = q[1]
  BY <1>1
<1>3. m[q[1]].msg < m[q[i + 1]].msg
  BY <1>2 DEF IncreasingIn
<1> QED
  BY <1>1, <1>2, <1>3

(* Ranges of a queue with an entry more or less.                           *)
LEMMA Ranges ==
    ASSUME NEW q \in Seq(Chunks)
    PROVE  /\ Range(q) \subseteq Chunks /\ Range(<<>>) = {}
           /\ \A x \in Chunks : Range(Append(q, x)) = Range(q) \cup {x}
           /\ q # <<>> => /\ Range(q) = Range(Tail(q)) \cup {Head(q)}
                          /\ Head(q) \in Chunks
<1>1. Range(q) \subseteq Chunks /\ Range(<<>>) = {}
  BY DEF Range
<1>2. ASSUME NEW x \in Chunks PROVE Range(Append(q, x)) = Range(q) \cup {x}
  <2> DEFINE p == Append(q, x)
  <2>1. /\ Len(p) = Len(q) + 1 /\ Len(q) \in Nat /\ p[Len(q) + 1] = x
        /\ \A i \in 1..Len(q) : p[i] = q[i]
        /\ DOMAIN p = 1..Len(p) /\ DOMAIN q = 1..Len(q)
    OBVIOUS
  <2>2. \A i \in 1..Len(p) : i \in 1..Len(q) \/ i = Len(q) + 1
    BY <2>1
  <2>3. 1..Len(q) \subseteq 1..Len(p) /\ Len(q) + 1 \in 1..Len(p)
    BY <2>1
  <2> HIDE DEF p
  <2>4. Range(p) \subseteq Range(q) \cup {x}
    BY <2>1, <2>2 DEF Range
  <2>5. Range(q) \cup {x} \subseteq Range(p)
    BY <2>1, <2>3 DEF Range
  <2> QED
    BY <2>4, <2>5 DEF p
<1>3. ASSUME q # <<>> PROVE Range(q) = Range(Tail(q)) \cup {Head(q)} /\ Head(q) \in Chunks
  <2> DEFINE p == Tail(q)
  <2>1. /\ Len(p) = Len(q) - 1 /\ Len(q) \in Nat /\ Len(q) >= 1 /\ Head(q) = q[1]
        /\ \A i \in 1..Len(p) : p[i] = q[i + 1]
        /\ DOMAIN p = 1..Len(p) /\ DOMAIN q = 1..Len(q) /\ Head(q) \in Chunks
    BY <1>3
  <2> HIDE DEF p
  <2>2. \A i \in 1..Len(q) : i = 1 \/ (i - 1 \in 1..Len(p) /\ (i - 1) + 1 = i)
    BY <2>1
  <2>3. ASSUME NEW i \in 1..Len(q) PROVE q[i] \in Range(p) \cup {Head(q)}
    <3>1. CASE i = 1
      BY <2>1, <3>1
    <3>2. CASE i # 1
      <4>1. i - 1 \in 1..Len(p) /\ p[i - 1] = q[i]
        BY <2>1, <2>2, <3>2
      <4> QED
        BY <2>1, <4>1 DEF Range
    <3> QED
      BY <3>1, <3>2
  <2>4. \A i \in 1..Len(p) : i + 1 \in 1..Len(q)
    BY <2>1
  <2>5. Range(p) \cup {Head(q)} \subseteq Range(q)
    <3>1. 1 \in 1..Len(q)
      BY <2>1
    <3> QED
      BY <2>1, <2>4, <3>1 DEF Range
  <2>6. Range(q) \subseteq Range(p) \cup {Head(q)}
    BY <2>1, <2>3 DEF Range
  <2> QED
    BY <2>1, <2>5, <2>6 DEF p
<1> QED
  BY <1>1, <1>2, <1>3


(* Nothing new waits for an input,                                         *)
Keeps(id) ==
    /\ reg'[id].as = "none" => reg'[id].queue = <<>> /\ unblock'[id] = 0
    /\ PartOf(reg'[id].queue, reg[id].queue)
    /\ unblock'[id] \in {0, unblock[id]}

(* for no input at all.                                                    *)
Shrinks ==
    /\ setup' = setup /\ seq' = seq
    /\ PartOf(common', common)
    /\ unblockShared' \in {0, unblockShared}
    /\ \A id \in Ids : Keeps(id)

(* The types that the proofs about the order need, before and after a step *)
LEMMA PlaceTypes ==
    ASSUME Inv, Inv'
    PROVE  /\ setup \in Setup /\ common \in Seq(Chunks) /\ common' \in Seq(Chunks)
           /\ \A id \in Ids : /\ reg[id].queue \in Seq(Chunks) /\ reg'[id].queue \in Seq(Chunks)
                              /\ unblock[id] \in 0..MaxChunks /\ unblock'[id] \in 0..MaxChunks
                              /\ setup.distribution[id] \in {"shared", "copy"}
                              /\ reg[id].as = "none" \/ reg[id].as = setup.distribution[id]
                              /\ reg[id].as # "none" => reg[id].tcp \in Conns
                              /\ reg'[id].as # "none" => reg'[id].tcp \in Conns
           /\ unblockShared \in 0..MaxChunks /\ unblockShared' \in 0..MaxChunks
           /\ \A k \in 0..MaxChunks : k \in Chunks <=> k # 0
           /\ setup' = setup => \A id \in Ids :
                 reg'[id].as = "none" \/ reg'[id].as = setup.distribution[id]
<1>1. /\ setup \in Setup /\ common \in Seq(Chunks) /\ common' \in Seq(Chunks)
      /\ reg \in [Ids -> Entry] /\ reg' \in [Ids -> Entry]
      /\ unblock \in [Ids -> 0..MaxChunks] /\ unblock' \in [Ids -> 0..MaxChunks]
      /\ unblockShared \in 0..MaxChunks /\ unblockShared' \in 0..MaxChunks
      /\ LinkInv /\ LinkInv'
  BY DEF Inv, Types
<1>2. \A k \in 0..MaxChunks : k \in Chunks <=> k # 0
  BY ChunksAssumption DEF Chunks
<1>3. ASSUME NEW id \in Ids
      PROVE  /\ reg[id].queue \in Seq(Chunks) /\ reg'[id].queue \in Seq(Chunks)
             /\ unblock[id] \in 0..MaxChunks /\ unblock'[id] \in 0..MaxChunks
             /\ setup.distribution[id] \in {"shared", "copy"}
             /\ reg[id].as # "none" => reg[id].tcp \in Conns
             /\ reg'[id].as # "none" => reg'[id].tcp \in Conns
  <2>1. reg[id] \in Entry /\ reg'[id] \in Entry
    BY <1>1
  <2>2. \A n \in 0..MaxConns : n # 0 => n \in Conns
    BY BoundsAssumption DEF Conns
  <2>3. setup.distribution \in [Ids -> {"shared", "copy"}]
    BY <1>1 DEF Setup
  <2> QED
    BY <1>1, <2>1, <2>2, <2>3 DEF Entry, LinkInv
<1>4. \A id \in Ids : reg[id].as = "none" \/ reg[id].as = setup.distribution[id]
  <2>1. LinkInv
    BY <1>1
  <2> QED
    BY <2>1 DEF LinkInv
<1>5. setup' = setup => \A id \in Ids :
         reg'[id].as = "none" \/ reg'[id].as = setup.distribution[id]
  <2>1. LinkInv'
    BY <1>1
  <2> QED
    BY <2>1 DEF LinkInv
<1> QED
  BY <1>1, <1>2, <1>3, <1>4, <1>5

(* Then what waits did so before, for the same input or for all shared     *)
(* ones.                                                                   *)
LEMMA ShrinkFacts ==
    ASSUME Inv, Inv', PlaceInv, Shrinks
    PROVE  /\ Range(common') \subseteq Range(common)
           /\ common' # <<>> => common # <<>>
           /\ \A id \in Ids :
                 /\ Range(reg'[id].queue) \subseteq Range(reg[id].queue)
                 /\ reg'[id].queue # <<>> => reg[id].queue # <<>>
                 /\ unblock'[id] # 0 \/ reg'[id].queue # <<>> =>
                       reg'[id].as # "none" /\ reg'[id].as = reg[id].as
                 /\ reg[id].as # "none" => Waiting(id)' \subseteq Waiting(id)
                 /\ \A k \in Waiting(id)' : \/ k \in Waiting(id)
                                            \/ k = unblockShared \/ k \in Range(common)
<1>0. /\ common \in Seq(Chunks) /\ common' \in Seq(Chunks)
      /\ \A id \in Ids : /\ reg[id].queue \in Seq(Chunks) /\ reg'[id].queue \in Seq(Chunks)
                         /\ unblock[id] \in 0..MaxChunks /\ unblock'[id] \in 0..MaxChunks
                         /\ setup.distribution[id] \in {"shared", "copy"}
                         /\ reg[id].as = "none" \/ reg[id].as = setup.distribution[id]
                         /\ reg'[id].as = "none" \/ reg'[id].as = setup.distribution[id]
      /\ 0 \notin Chunks
  BY PlaceTypes, ChunksAssumption DEF Shrinks, Chunks
<1>1. /\ PartOf(common', common) /\ \A id \in Ids : Keeps(id)
      /\ unblockShared' \in {0, unblockShared}
  BY DEF Shrinks
<1>2. Range(common') \subseteq Range(common) /\ (common' # <<>> => common # <<>>)
  BY <1>0, <1>1, PartRange
<1>3. ASSUME NEW id \in Ids
      PROVE  /\ Range(reg'[id].queue) \subseteq Range(reg[id].queue)
             /\ reg'[id].queue # <<>> => reg[id].queue # <<>>
             /\ unblock'[id] # 0 \/ reg'[id].queue # <<>> =>
                   reg'[id].as # "none" /\ reg'[id].as = reg[id].as
             /\ reg[id].as # "none" => Waiting(id)' \subseteq Waiting(id)
             /\ \A k \in Waiting(id)' : \/ k \in Waiting(id)
                                        \/ k = unblockShared \/ k \in Range(common)
  <2>1. /\ reg'[id].as = "none" => reg'[id].queue = <<>> /\ unblock'[id] = 0
        /\ PartOf(reg'[id].queue, reg[id].queue)
        /\ unblock'[id] \in {0, unblock[id]}
    BY <1>1 DEF Keeps
  <2>2. Range(reg'[id].queue) \subseteq Range(reg[id].queue)
        /\ (reg'[id].queue # <<>> => reg[id].queue # <<>>)
    BY <1>0, <2>1, PartRange
  <2>3. unblock'[id] # 0 \/ reg'[id].queue # <<>> => reg[id].as # "none"
    BY <2>1, <2>2 DEF PlaceInv
  <2>4. unblock'[id] # 0 \/ reg'[id].queue # <<>> =>
           reg'[id].as # "none" /\ reg'[id].as = reg[id].as
    BY <1>0, <2>1, <2>3
  <2>5. ASSUME NEW k \in Waiting(id)'
        PROVE  /\ k \in Chunks
               /\ \/ k = unblock[id]
                  \/ k \in Range(reg[id].queue)
                  \/ reg'[id].as = "shared" /\ (k = unblockShared \/ k \in Range(common))
    BY <1>0, <1>1, <1>2, <2>1, <2>2 DEF Waiting
  <2>6. reg[id].as # "none" /\ reg'[id].as = "shared" => reg[id].as = "shared"
    BY <1>0
  <2> QED
    BY <2>2, <2>4, <2>5, <2>6 DEF Waiting
<1> QED
  BY <1>2, <1>3

(* Who is ready after the step was ready before, or nothing waited for it. *)
ReadyStays ==
    \A id \in Ids : Ready(id)' => Ready(id) \/ (reg[id].as # "none" /\ Waiting(id) = {})

(* The places keep being right.                                            *)
LEMMA ShrinkPlace ==
    ASSUME Inv, Inv', PlaceInv, Shrinks, ReadyStays
    PROVE  PlaceInv'
<1>0. /\ Range(common') \subseteq Range(common)
      /\ common' # <<>> => common # <<>>
      /\ \A id \in Ids :
            /\ reg'[id].queue # <<>> => reg[id].queue # <<>>
            /\ unblock'[id] # 0 \/ reg'[id].queue # <<>> =>
                  reg'[id].as # "none" /\ reg'[id].as = reg[id].as
            /\ reg[id].as # "none" => Waiting(id)' \subseteq Waiting(id)
  BY ShrinkFacts
<1>1. /\ setup' = setup /\ unblockShared' \in {0, unblockShared}
      /\ \A id \in Ids : unblock'[id] \in {0, unblock[id]}
  BY DEF Shrinks, Keeps
<1>2. \A id \in Ids : Waits(id)' = Waits(id)
  BY <1>1 DEF Waits
<1>3. ASSUME NEW id \in Ids
      PROVE  /\ unblock'[id] # 0 => reg'[id].as # "none" /\ Waits(id)'
             /\ reg'[id].queue # <<>> => reg'[id].as # "none" /\ ~Waits(id)'
             /\ reg'[id].as = "shared" /\ unblockShared' # 0 => unblock'[id] = 0
             /\ Ready(id)' => Waiting(id)' = {}
  <2>1. unblock'[id] # 0 => reg'[id].as # "none" /\ Waits(id)'
    <3>1. unblock'[id] # 0 => unblock[id] # 0
      BY <1>1
    <3> QED
      BY <1>0, <1>2, <3>1 DEF PlaceInv
  <2>2. reg'[id].queue # <<>> => reg'[id].as # "none" /\ ~Waits(id)'
    BY <1>0, <1>2 DEF PlaceInv
  <2>3. reg'[id].as = "shared" /\ unblockShared' # 0 => unblock'[id] = 0
    <3>1. SUFFICES ASSUME reg'[id].as = "shared", unblockShared' # 0, unblock'[id] # 0
                   PROVE  FALSE
      OBVIOUS
    <3>2. reg[id].as = "shared" /\ unblockShared # 0 /\ unblock[id] # 0
      BY <1>0, <1>1, <3>1
    <3> QED
      BY <3>2 DEF PlaceInv
  <2>4. ASSUME Ready(id)' PROVE Waiting(id)' = {}
    <3>1. reg[id].as # "none" /\ Waiting(id) = {}
      <4>1. Ready(id) => reg[id].as # "none" /\ Waiting(id) = {}
        BY DEF Inv, ReadyInv, Ready, PlaceInv
      <4> QED
        BY <2>4, <4>1 DEF ReadyStays
    <3> QED
      BY <1>0, <3>1
  <2> QED
    BY <2>1, <2>2, <2>3, <2>4
<1>4. unblockShared' # 0 => setup'.noInputShared = "wait"
  BY <1>1 DEF PlaceInv
<1>5. common' # <<>> => setup'.noInputShared = "queueDrop" /\ ~setup'.selector
  BY <1>0, <1>1 DEF PlaceInv
<1> QED
  BY <1>3, <1>4, <1>5 DEF PlaceInv


(* What waits is held, before and after a step.                            *)
LEMMA PlacesHold ==
    /\ \A k : k = unblockShared \/ k \in Range(common) => Held(k)
    /\ \A k : k = unblockShared' \/ k \in Range(common') => Held(k)'
    /\ \A id \in Ids : \A k : k \in Waiting(id) \/ k \in Range(reg[id].queue) \/ k = unblock[id]
                                 => Held(k)
    /\ \A id \in Ids : \A k : k \in Waiting(id)' \/ k \in Range(reg'[id].queue) \/ k = unblock'[id]
                                 => Held(k)'
<1>1. \A k : k = unblockShared \/ k \in Range(common) => Held(k)
  BY DEF Held, HeldBy
<1>2. \A k : k = unblockShared' \/ k \in Range(common') => Held(k)'
  BY DEF Held, HeldBy
<1>3. \A id \in Ids : \A k : k \in Waiting(id) \/ k \in Range(reg[id].queue) \/ k = unblock[id]
                                => Held(k)
  BY DEF Held, HeldBy, Waiting
<1>4. \A id \in Ids : \A k : k \in Waiting(id)' \/ k \in Range(reg'[id].queue) \/ k = unblock'[id]
                                => Held(k)'
  BY DEF Held, HeldBy, Waiting
<1> QED
  BY <1>1, <1>2, <1>3, <1>4

(* The data of a chunk stays the same.                                     *)
Same(k) == mem'[k].msg = mem[k].msg /\ mem'[k].eos = mem[k].eos

(* If nothing new waits, what waits still was written before, and the      *)
(* queues stay in order.                                                   *)
LEMMA ShrinkOrder ==
    ASSUME Inv, Inv', StockInv, PlaceInv, OrderInv, StockStep, Shrinks
    PROVE  /\ AgeInv' /\ QueueInv'
           /\ \A id \in Ids : \A k \in Waiting(id)' : Same(k) /\ Msg(k) \in 1..seq
<1>0. /\ Range(common') \subseteq Range(common)
      /\ \A id \in Ids :
            /\ Range(reg'[id].queue) \subseteq Range(reg[id].queue)
            /\ reg'[id].queue # <<>> => reg'[id].as = reg[id].as
            /\ \A k \in Waiting(id)' : \/ k \in Waiting(id)
                                       \/ k = unblockShared \/ k \in Range(common)
  BY ShrinkFacts
<1>1. /\ seq' = seq /\ unblockShared' \in {0, unblockShared} /\ PartOf(common', common)
      /\ \A id \in Ids : PartOf(reg'[id].queue, reg[id].queue)
  BY DEF Shrinks, Keeps
<1>2. /\ common \in Seq(Chunks) /\ common' \in Seq(Chunks) /\ 0 \notin Chunks
      /\ \A id \in Ids : reg[id].queue \in Seq(Chunks) /\ reg'[id].queue \in Seq(Chunks)
  BY PlaceTypes, ChunksAssumption DEF Chunks
<1>3. \A k \in Chunks : Held(k) /\ Held(k)' => Same(k)
  BY DataKept DEF Inv, Same
<1>4. \A id \in Ids : \A k \in Waiting(id)' : k \in Chunks
  BY DEF Waiting
<1>5. \A k \in Range(common') : Same(k)
  BY <1>0, <1>2, <1>3, PlacesHold, Ranges
<1>6. \A id \in Ids : \A k \in Range(reg'[id].queue) : Same(k)
  <2> SUFFICES ASSUME NEW id \in Ids, NEW k \in Range(reg'[id].queue)
               PROVE  Same(k)
    OBVIOUS
  <2>1. k \in Range(reg[id].queue) /\ k \in Chunks
    BY <1>0, <1>2, Ranges
  <2> QED
    BY <1>3, <2>1, PlacesHold
<1>7. \A id \in Ids : \A k \in Waiting(id)' : Same(k) /\ Msg(k) \in 1..seq
  <2> SUFFICES ASSUME NEW id \in Ids, NEW k \in Waiting(id)'
               PROVE  Same(k) /\ Msg(k) \in 1..seq
    OBVIOUS
  <2>1. k \in Chunks /\ (k \in Waiting(id) \/ k = unblockShared \/ k \in Range(common))
    BY <1>0, <1>4
  <2>2. Held(k) /\ Held(k)'
    BY <2>1, PlacesHold
  <2> QED
    BY <1>3, <2>1, <2>2 DEF OrderInv, AgeInv
<1>8. AgeInv'
  <2> SUFFICES ASSUME NEW k \in Chunks,
                      k = unblockShared' \/ k \in Range(common') \/ \E id \in Ids : k \in Waiting(id)'
               PROVE  Msg(k)' \in 1..seq'
    BY DEF AgeInv
  <2>1. CASE k = unblockShared' \/ k \in Range(common')
    <3>1. k = unblockShared \/ k \in Range(common)
      BY <1>0, <1>1, <1>2, <2>1
    <3>2. Msg(k) \in 1..seq
      BY <3>1 DEF OrderInv, AgeInv
    <3>3. Same(k)
      BY <1>3, <2>1, <3>1, PlacesHold
    <3> QED
      BY <1>1, <3>2, <3>3 DEF Msg, Same
  <2>2. CASE \E id \in Ids : k \in Waiting(id)'
    <3>1. Same(k) /\ Msg(k) \in 1..seq
      BY <1>7, <2>2
    <3> QED
      BY <1>1, <3>1 DEF Msg, Same
  <2> QED
    BY <2>1, <2>2
<1>9. Increasing(common)'
  <2>1. IncreasingIn(mem, common)
    BY DEF OrderInv, QueueInv, Increasing, IncreasingIn, Msg
  <2>2. SameMsgs(mem, mem', common')
    BY <1>5 DEF Same, SameMsgs
  <2>3. IncreasingIn(mem', common')
    BY <1>1, <1>2, <2>1, <2>2, IncreasingPart
  <2> QED
    BY <2>3 DEF Increasing, IncreasingIn, Msg
<1>10. ASSUME NEW id \in Ids
       PROVE  /\ Increasing(reg[id].queue)'
              /\ reg'[id].as = "shared" => \A k \in Range(reg'[id].queue) :
                    \A l \in Range(common') : Msg(k)' < Msg(l)'
  <2>1. IncreasingIn(mem, reg[id].queue)
    BY DEF OrderInv, QueueInv, Increasing, IncreasingIn, Msg
  <2>2. SameMsgs(mem, mem', reg'[id].queue)
    BY <1>6 DEF Same, SameMsgs
  <2>3. IncreasingIn(mem', reg'[id].queue)
    BY <1>1, <1>2, <2>1, <2>2, IncreasingPart
  <2>4. Increasing(reg[id].queue)'
    BY <2>3 DEF Increasing, IncreasingIn, Msg
  <2>5. ASSUME reg'[id].as = "shared", NEW k \in Range(reg'[id].queue), NEW l \in Range(common')
        PROVE  Msg(k)' < Msg(l)'
    <3>1. reg'[id].queue # <<>>
      BY <1>2, <2>5, Ranges
    <3>2. reg[id].as = "shared" /\ k \in Range(reg[id].queue) /\ l \in Range(common)
      BY <1>0, <2>5, <3>1
    <3>3. Msg(k) < Msg(l)
      BY <3>2 DEF OrderInv, QueueInv
    <3>4. Same(k) /\ Same(l)
      BY <1>5, <1>6, <2>5
    <3> QED
      BY <3>3, <3>4 DEF Msg, Same
  <2> QED
    BY <2>4, <2>5
<1>11. QueueInv'
  BY <1>9, <1>10 DEF QueueInv
<1> QED
  BY <1>7, <1>8, <1>11

(* What is sent on a connection, or was, is not more than before.          *)
OnlyOlder(c) == \A n \in Nat : SentBefore(c, n) => SentBefore(c, n)'

(* If nothing new waits and nothing is sent, except to who waits for newer *)
(* messages only, it stays each message's turn.                            *)
LEMMA ShrinkTurn ==
    ASSUME Inv, Inv', StockInv, PlaceInv, OrderInv, StockStep, Shrinks,
           \A id \in Ids : reg'[id].as # "none" =>
              \/ \E c \in Conns : /\ reg[id].as # "none" /\ reg[id].tcp = c
                                  /\ reg'[id].tcp = c /\ OnlyOlder(c)
              \/ \A k \in Waiting(id)' : SentBefore(reg[id].tcp, Msg(k))'
    PROVE  TurnInv'
<1> SUFFICES ASSUME NEW id \in Ids, NEW k \in Waiting(id)', reg'[id].as # "none"
             PROVE  SentBefore(reg[id].tcp, Msg(k))'
  BY DEF TurnInv
<1>1. CASE \A j \in Waiting(id)' : SentBefore(reg[id].tcp, Msg(j))'
  BY <1>1
<1>2. ASSUME NEW c \in Conns, reg[id].as # "none", reg[id].tcp = c, reg'[id].tcp = c,
             OnlyOlder(c)
      PROVE  SentBefore(reg[id].tcp, Msg(k))'
  <2>1. k \in Waiting(id)
    BY <1>2, ShrinkFacts
  <2>2. SentBefore(c, mem[k].msg)
    BY <1>2, <2>1 DEF OrderInv, TurnInv, Msg
  <2>3. mem'[k].msg = mem[k].msg /\ mem[k].msg \in Nat
    BY ShrinkOrder DEF Same, Msg
  <2> QED
    BY <1>2, <2>2, <2>3 DEF OnlyOlder, SentBefore, Msg
<1> QED
  BY <1>1, <1>2


(* Message l was read and those of q follow.                               *)
Ordered(l, q) ==
    /\ q # <<>> => l < q[1]
    /\ \A i \in 1..(Len(q) - 1) : q[i] < q[i + 1]

(* That is what InOrder says of a connection.                              *)
LEMMA OrderedReceived ==
    ASSUME NEW l \in Nat, NEW q \in Seq(Nat)
    PROVE  (\A i \in 1..(Len(<<l>> \o q) - 1) : (<<l>> \o q)[i] < (<<l>> \o q)[i + 1])
              <=> Ordered(l, q)
<1> DEFINE s == <<l>> \o q
<1>1. /\ Len(s) = Len(q) + 1 /\ Len(q) \in Nat /\ s[1] = l
      /\ \A i \in 1..Len(q) : s[i + 1] = q[i]
  OBVIOUS
<1> HIDE DEF s
<1>2. ASSUME \A i \in 1..(Len(s) - 1) : s[i] < s[i + 1]
      PROVE  Ordered(l, q)
  <2>1. ASSUME q # <<>> PROVE l < q[1]
    <3>1. 1 \in 1..(Len(s) - 1) /\ 1 \in 1..Len(q)
      BY <1>1, <2>1
    <3> QED
      BY <1>1, <1>2, <3>1
  <2>2. ASSUME NEW i \in 1..(Len(q) - 1) PROVE q[i] < q[i + 1]
    <3>1. i + 1 \in 1..(Len(s) - 1) /\ i \in 1..Len(q) /\ i + 1 \in 1..Len(q)
      BY <1>1
    <3>2. s[i + 1] < s[(i + 1) + 1] /\ s[i + 1] = q[i] /\ s[(i + 1) + 1] = q[i + 1]
      BY <1>1, <1>2, <3>1
    <3> QED
      BY <3>2
  <2> QED
    BY <2>1, <2>2 DEF Ordered
<1>3. ASSUME Ordered(l, q), NEW i \in 1..(Len(s) - 1)
      PROVE  s[i] < s[i + 1]
  <2>1. CASE i = 1
    <3>1. q # <<>> /\ 1 \in 1..Len(q)
      BY <1>1, <2>1
    <3> QED
      BY <1>1, <1>3, <2>1, <3>1 DEF Ordered
  <2>2. CASE i # 1
    <3>1. /\ i - 1 \in 1..(Len(q) - 1) /\ i - 1 \in 1..Len(q) /\ i \in 1..Len(q)
          /\ (i - 1) + 1 = i
      BY <1>1, <2>2
    <3>2. q[i - 1] < q[i]
      BY <1>3, <3>1 DEF Ordered
    <3>3. s[i] = q[i - 1] /\ s[i + 1] = q[i]
      BY <1>1, <3>1
    <3> QED
      BY <3>2, <3>3
  <2> QED
    BY <2>1, <2>2
<1>4. (\A i \in 1..(Len(s) - 1) : s[i] < s[i + 1]) <=> Ordered(l, q)
  BY <1>2, <1>3
<1> QED
  BY <1>4 DEF s

(* A newer message may follow.                                             *)
LEMMA OrderedAppend ==
    ASSUME NEW l \in Nat, NEW q \in Seq(Nat), NEW n \in Nat, Ordered(l, q), l < n,
           \A i \in 1..Len(q) : q[i] < n
    PROVE  Ordered(l, Append(q, n))
<1> DEFINE s == Append(q, n)
<1>1. /\ Len(s) = Len(q) + 1 /\ Len(q) \in Nat /\ s[Len(q) + 1] = n
      /\ \A i \in 1..Len(q) : s[i] = q[i]
  OBVIOUS
<1>2. l < s[1]
  <2>1. CASE q = <<>>
    <3>1. s[1] = n
      BY <2>1
    <3> QED
      BY <3>1
  <2>2. CASE q # <<>>
    <3>1. s[1] = q[1] /\ l < q[1]
      BY <2>2 DEF Ordered
    <3> QED
      BY <3>1
  <2> QED
    BY <2>1, <2>2
<1> HIDE DEF s
<1>3. ASSUME NEW i \in 1..(Len(s) - 1) PROVE s[i] < s[i + 1]
  <2>1. i \in 1..Len(q) /\ (i = Len(q) \/ (i \in 1..(Len(q) - 1) /\ i + 1 \in 1..Len(q)))
    BY <1>1
  <2>2. CASE i = Len(q)
    BY <1>1, <2>1, <2>2
  <2>3. CASE i \in 1..(Len(q) - 1) /\ i + 1 \in 1..Len(q)
    <3>1. q[i] < q[i + 1]
      BY <2>3 DEF Ordered
    <3>2. s[i] = q[i] /\ s[i + 1] = q[i + 1]
      BY <1>1, <2>1, <2>3
    <3> QED
      BY <3>1, <3>2
  <2> QED
    BY <2>1, <2>2, <2>3
<1>4. Ordered(l, s)
  BY <1>2, <1>3 DEF Ordered
<1> QED
  BY <1>4 DEF s

(* The next message may be read.                                           *)
LEMMA OrderedTail ==
    ASSUME NEW l \in Nat, NEW q \in Seq(Nat), q # <<>>, Ordered(l, q)
    PROVE  Ordered(Head(q), Tail(q))
<1> DEFINE s == Tail(q)
<1>1. /\ Len(s) = Len(q) - 1 /\ Len(q) \in Nat /\ Head(q) = q[1]
      /\ \A i \in 1..Len(s) : s[i] = q[i + 1]
      /\ s # <<>> => Len(s) >= 1
  OBVIOUS
<1> HIDE DEF s
<1>2. ASSUME s # <<>> PROVE q[1] < s[1]
  <2>1. 1 \in 1..(Len(q) - 1) /\ 1 \in 1..Len(s)
    BY <1>1, <1>2
  <2>2. q[1] < q[1 + 1] /\ s[1] = q[1 + 1]
    BY <1>1, <2>1 DEF Ordered
  <2> QED
    BY <2>2
<1>3. ASSUME NEW i \in 1..(Len(s) - 1) PROVE s[i] < s[i + 1]
  <2>1. i + 1 \in 1..(Len(q) - 1) /\ i \in 1..Len(s) /\ i + 1 \in 1..Len(s)
    BY <1>1
  <2>2. q[i + 1] < q[(i + 1) + 1]
    BY <2>1 DEF Ordered
  <2>3. s[i] = q[i + 1] /\ s[i + 1] = q[(i + 1) + 1]
    BY <1>1, <2>1
  <2> QED
    BY <2>2, <2>3
<1>4. Ordered(q[1], s)
  BY <1>2, <1>3 DEF Ordered
<1> QED
  BY <1>1, <1>4 DEF s

(* What can happen on a connection: nothing or its loss, a message is read *)
(* or a newer one is sent.                                                 *)
Flow(c) ==
    \/ last'[c] = last[c] /\ toClient'[c] \in {toClient[c], <<>>}
    \/ /\ conn[c].state = "up" /\ toClient[c] # <<>>
       /\ last'[c] = Head(toClient[c]) /\ toClient'[c] = Tail(toClient[c])
    \/ /\ last'[c] = last[c]
       /\ \E n \in 1..seq' : SentBefore(c, n) /\ toClient'[c] = Append(toClient[c], n)

Flows ==
    /\ last' = [c \in Conns |-> last'[c]]
    /\ seq' >= seq
    /\ \A w \in inflight' : w \in inflight \/ w.msg \in 1..seq'
    /\ \A c \in Conns : Flow(c) /\ (conn'[c].state = "free" => conn[c].state = "free")

(* So connections stay in order.                                           *)
LEMMA FlowsInOrder ==
    ASSUME Inv, Inv', SentInv, Flows
    PROVE  SentInv'
<1>0. /\ toClient \in [Conns -> Seq(Nat)] /\ toClient' \in [Conns -> Seq(Nat)]
      /\ seq \in Nat /\ seq' \in Nat
      /\ \A w \in inflight : w.msg \in Nat
      /\ last \in [Conns -> Nat] /\ last' = [c \in Conns |-> last'[c]] /\ seq' >= seq
  BY DEF Inv, Types, SentInv, Flows
<1>1. \A c \in Conns : /\ Flow(c) /\ (conn'[c].state = "free" => conn[c].state = "free")
                       /\ SentBefore(c, seq + 1) /\ (conn[c].state = "free" => last[c] = 0)
                       /\ last[c] \in Nat /\ toClient[c] \in Seq(Nat) /\ toClient'[c] \in Seq(Nat)
  BY <1>0 DEF SentInv, Flows
<1>2. \A c \in Conns : Ordered(last[c], toClient[c])
  BY <1>1, OrderedReceived DEF SentInv, InOrder
<1>3. ASSUME NEW c \in Conns
      PROVE  /\ last'[c] \in Nat /\ Ordered(last'[c], toClient'[c])
             /\ last'[c] <= seq' /\ \A i \in 1..Len(toClient'[c]) : toClient'[c][i] <= seq'
             /\ conn'[c].state = "free" => last'[c] = 0
  <2>0. /\ Flow(c) /\ Ordered(last[c], toClient[c]) /\ last[c] \in Nat
        /\ toClient[c] \in Seq(Nat) /\ (conn'[c].state = "free" => conn[c].state = "free")
        /\ last[c] <= seq' /\ (conn[c].state = "free" => last[c] = 0)
    BY <1>0, <1>1, <1>2 DEF SentBefore
  <2>1. \A i \in 1..Len(toClient[c]) : toClient[c][i] <= seq' /\ toClient[c][i] \in Nat
    <3> SUFFICES ASSUME NEW i \in 1..Len(toClient[c])
                 PROVE  toClient[c][i] <= seq' /\ toClient[c][i] \in Nat
      OBVIOUS
    <3>1. toClient[c][i] \in Nat
      BY <2>0
    <3>2. toClient[c][i] < seq + 1
      BY <1>1 DEF SentBefore
    <3> QED
      BY <1>0, <3>1, <3>2
  <2>2. CASE last'[c] = last[c] /\ toClient'[c] = toClient[c]
    BY <2>0, <2>1, <2>2
  <2>3. CASE last'[c] = last[c] /\ toClient'[c] = <<>>
    BY <2>0, <2>3 DEF Ordered
  <2>4. CASE /\ conn[c].state = "up" /\ toClient[c] # <<>>
             /\ last'[c] = Head(toClient[c]) /\ toClient'[c] = Tail(toClient[c])
    <3>1. /\ Head(toClient[c]) = toClient[c][1] /\ 1 \in 1..Len(toClient[c])
          /\ Len(Tail(toClient[c])) = Len(toClient[c]) - 1 /\ Len(toClient[c]) \in Nat
          /\ \A i \in 1..Len(Tail(toClient[c])) :
                Tail(toClient[c])[i] = toClient[c][i + 1] /\ i + 1 \in 1..Len(toClient[c])
      BY <2>0, <2>4
    <3>2. Ordered(Head(toClient[c]), Tail(toClient[c]))
      BY <2>0, <2>4, OrderedTail
    <3> QED
      BY <2>0, <2>1, <2>4, <3>1, <3>2
  <2>5. CASE /\ last'[c] = last[c]
             /\ \E n \in 1..seq' : SentBefore(c, n) /\ toClient'[c] = Append(toClient[c], n)
    <3>1. PICK n \in 1..seq' : SentBefore(c, n) /\ toClient'[c] = Append(toClient[c], n)
      BY <2>5
    <3>2. n \in Nat /\ n <= seq' /\ last[c] < n /\ \A i \in 1..Len(toClient[c]) : toClient[c][i] < n
      BY <1>0, <3>1 DEF SentBefore
    <3>3. Ordered(last[c], Append(toClient[c], n))
      BY <2>0, <3>2, OrderedAppend
    <3>4. \A i \in 1..Len(Append(toClient[c], n)) :
             Append(toClient[c], n)[i] = IF i \in 1..Len(toClient[c]) THEN toClient[c][i] ELSE n
      BY <2>0
    <3> QED
      BY <2>0, <2>1, <2>5, <3>1, <3>2, <3>3, <3>4
  <2> QED
    BY <2>0, <2>2, <2>3, <2>4, <2>5 DEF Flow
<1>4. last' \in [Conns -> Nat]
  BY <1>0, <1>3
<1>5. InOrder'
  BY <1>1, <1>3, OrderedReceived DEF InOrder
<1>6. ASSUME NEW c \in Conns PROVE SentBefore(c, seq + 1)'
  <2>1. last'[c] \in Nat /\ last'[c] <= seq' /\ \A i \in 1..Len(toClient'[c]) : toClient'[c][i] <= seq'
    BY <1>3
  <2>2. \A i \in 1..Len(toClient'[c]) : toClient'[c][i] \in Nat
    BY <1>1
  <2>3. ASSUME NEW w \in inflight', w.tcp = c PROVE w.msg < seq' + 1
    <3>1. w \in inflight => w.msg \in Nat /\ w.msg < seq + 1
      BY <1>0, <1>1, <2>3 DEF SentBefore
    <3>2. w \in inflight \/ w.msg \in 1..seq'
      BY DEF Flows
    <3> QED
      BY <1>0, <3>1, <3>2
  <2>4. last'[c] < seq' + 1
    BY <1>0, <2>1
  <2>5. \A i \in 1..Len(toClient'[c]) : toClient'[c][i] < seq' + 1
    <3> SUFFICES ASSUME NEW i \in 1..Len(toClient'[c]) PROVE toClient'[c][i] < seq' + 1
      OBVIOUS
    <3>1. toClient'[c][i] \in Nat /\ toClient'[c][i] <= seq'
      BY <2>1, <2>2
    <3> QED
      BY <1>0, <3>1
  <2> QED
    BY <2>3, <2>4, <2>5 DEF SentBefore
<1> QED
  BY <1>3, <1>4, <1>5, <1>6 DEF SentInv


(* An end-of-stream that waits for an input stays where it is, or moves    *)
(* from the common queue to the one of the input.                          *)
EosLeft(id, n) ==
    /\ HoldsEos(unblock[id], n) => unblock'[id] = unblock[id]
    /\ \A k \in Range(reg[id].queue) : HoldsEos(k, n) => k \in Range(reg'[id].queue)
    /\ reg[id].as = "shared" => \A k \in Range(common) : HoldsEos(k, n) =>
          k \in Range(reg'[id].queue) \/ (reg'[id].as = "shared" /\ k \in Range(common'))

(* Then it still waits.                                                    *)
LEMMA EosStays ==
    ASSUME Inv, Inv', StockInv, StockStep, NEW id \in Ids, NEW n, EosWaits(id, n),
           EosLeft(id, n)
    PROVE  EosWaits(id, n)'
<1>0. /\ common \in Seq(Chunks) /\ common' \in Seq(Chunks)
      /\ reg[id].queue \in Seq(Chunks) /\ reg'[id].queue \in Seq(Chunks)
      /\ unblock[id] # 0 => unblock[id] \in Chunks
  BY PlaceTypes
<1>1. ASSUME NEW k \in Chunks, HoldsEos(k, n), Held(k), Held(k)'
      PROVE  HoldsEos(k, n)'
  <2>1. mem'[k].msg = mem[k].msg /\ mem'[k].eos = mem[k].eos
    BY <1>1, DataKept DEF Inv
  <2> QED
    BY <1>1, <2>1 DEF HoldsEos, Msg
<1>2. CASE HoldsEos(unblock[id], n)
  <2>1. /\ unblock'[id] = unblock[id] /\ unblock[id] \in Chunks
    BY <1>0, <1>2 DEF EosLeft, HoldsEos
  <2>2. Held(unblock[id])
    BY PlacesHold
  <2>3. PICK k \in Chunks : k = unblock[id]
    BY <2>1
  <2>4. HoldsEos(k, n) /\ Held(k) /\ Held(k)'
    BY <1>2, <2>1, <2>3, PlacesHold
  <2>5. HoldsEos(k, n)'
    BY <1>1, <2>4
  <2>6. unblock'[id] = k
    BY <2>1, <2>3
  <2>7. HoldsEos(unblock[id], n)'
    BY <2>5, <2>6 DEF HoldsEos, Msg
  <2> QED
    BY <2>7 DEF EosWaits
<1>3. CASE \E k \in Range(reg[id].queue) : HoldsEos(k, n)
  <2>1. PICK k \in Range(reg[id].queue) : HoldsEos(k, n)
    BY <1>3
  <2>2. k \in Range(reg'[id].queue) /\ k \in Chunks
    BY <1>0, <2>1, Ranges DEF EosLeft
  <2>3. HoldsEos(k, n)'
    BY <1>1, <2>1, <2>2, PlacesHold
  <2> QED
    BY <2>2, <2>3 DEF EosWaits
<1>4. CASE reg[id].as = "shared" /\ \E k \in Range(common) : HoldsEos(k, n)
  <2>1. PICK k \in Range(common) : HoldsEos(k, n)
    BY <1>4
  <2>2. /\ k \in Range(reg'[id].queue) \/ (reg'[id].as = "shared" /\ k \in Range(common'))
        /\ k \in Chunks
    BY <1>0, <1>4, <2>1, Ranges DEF EosLeft
  <2>3. HoldsEos(k, n)'
    BY <1>1, <2>1, <2>2, PlacesHold
  <2> QED
    BY <2>2, <2>3 DEF EosWaits
<1> QED
  BY <1>2, <1>3, <1>4 DEF EosWaits

(* What has to be shown for each end-of-stream that was or becomes due     *)
EosOnWay(c, n) ==
    /\ conn'[c] = conn[c]
    /\ n \in Range(toClient[c]) => n \in Range(toClient'[c])
    /\ n \in Range(toClient'[c]) \/ \A id \in Ids : conn[c].id = id => EosLeft(id, n)

EosNew(c, n) ==
    /\ c \in Conns /\ conn'[c].state = "up"
    /\ \/ n = 0
       \/ n \in Range(toClient'[c])
       \/ \A id \in Ids : conn'[c].id = id => EosWaits(id, n)'

(* It is on its way after the step.                                        *)
LEMMA DueStep ==
    ASSUME Inv, Inv', StockInv, StockStep, DueInv,
           \A due \in eosDue' : \/ due \in eosDue /\ EosOnWay(due[1], due[2])
                                \/ due = <<due[1], due[2]>> /\ EosNew(due[1], due[2])
    PROVE  DueInv'
<1>0. /\ conn \in [Conns -> [id : Ids, state : {"free", "up", "broken", "closed", "gone"}]]
      /\ conn' \in [Conns -> [id : Ids, state : {"free", "up", "broken", "closed", "gone"}]]
  BY DEF Inv, Types
<1>1. ASSUME NEW due \in eosDue'
      PROVE  /\ due = <<due[1], due[2]>> /\ due[1] \in Conns /\ conn'[due[1]].state = "up"
             /\ \/ due[2] = 0
                \/ due[2] \in Range(toClient'[due[1]])
                \/ EosWaits(conn[due[1]].id, due[2])'
  <2>1. PICK c : c = due[1]
    OBVIOUS
  <2>2. PICK n : n = due[2]
    OBVIOUS
  <2>0. due = <<due[1], due[2]>>
    BY DEF DueInv
  <2>3. SUFFICES /\ c \in Conns /\ conn'[c].state = "up"
                 /\ n = 0 \/ n \in Range(toClient'[c]) \/ EosWaits(conn[c].id, n)'
    BY <2>0, <2>1, <2>2
  <2>4. ASSUME NEW id \in Ids, conn'[c].id = id, EosWaits(id, n)'
        PROVE  EosWaits(conn[c].id, n)'
    BY <2>4 DEF EosWaits
  <2>5. CASE EosNew(c, n)
    <3>1. c \in Conns /\ conn'[c].state = "up"
      BY <2>5 DEF EosNew
    <3>2. PICK id \in Ids : conn'[c].id = id
      BY <1>0, <3>1
    <3>3. n = 0 \/ n \in Range(toClient'[c]) \/ EosWaits(id, n)'
      BY <2>5, <3>2 DEF EosNew
    <3> QED
      BY <2>4, <3>1, <3>2, <3>3
  <2>6. CASE due \in eosDue /\ EosOnWay(c, n)
    <3>1. /\ c \in Conns /\ conn[c].state = "up"
          /\ n = 0 \/ n \in Range(toClient[c]) \/ EosWaits(conn[c].id, n)
      BY <2>1, <2>2, <2>6 DEF DueInv
    <3>2. PICK id \in Ids : conn[c].id = id
      BY <1>0, <3>1
    <3>3. conn'[c].state = "up" /\ conn'[c].id = id
      BY <2>6, <3>1, <3>2 DEF EosOnWay
    <3>4. CASE n = 0 \/ n \in Range(toClient'[c])
      BY <3>1, <3>3, <3>4
    <3>5. CASE n # 0 /\ n \notin Range(toClient'[c])
      <4>1. EosWaits(id, n) /\ EosLeft(id, n)
        BY <2>6, <3>1, <3>2, <3>5 DEF EosOnWay
      <4>2. EosWaits(id, n)'
        BY <4>1, EosStays
      <4> QED
        BY <2>4, <3>1, <3>3, <4>2
    <3> QED
      BY <3>4, <3>5
  <2> QED
    BY <2>1, <2>2, <2>5, <2>6
<1> QED
  BY <1>1 DEF DueInv


-----------------------------------------------------------------------------
(* Steps that send nothing and take nothing from who waits, except for     *)
(* data that is dropped.                                                   *)
DueGrows ==
    \A due \in eosDue' : \/ due \in eosDue
                         \/ due = <<due[1], 0>> /\ due[1] \in Conns /\ conn[due[1]].state = "up"

Calm ==
    /\ Shrinks /\ ReadyStays /\ StaysLinked /\ DueGrows
    /\ UNCHANGED <<conn, last, toClient, unblock>>
    /\ inflight' \subseteq inflight
    /\ \A id \in Ids : \A k \in Range(reg[id].queue) :
          mem[k].eos => k \in Range(reg'[id].queue)
    /\ \A k \in Range(common) : mem[k].eos => k \in Range(common')

(* They keep the order.                                                    *)
LEMMA CalmData ==
    ASSUME Inv, Inv', DataInv, StockStep, Calm
    PROVE  DataInv'
<1>0. /\ StockInv /\ PlaceInv /\ OrderInv /\ SentInv /\ DueInv /\ Shrinks /\ ReadyStays
      /\ Types /\ Types'
  BY DEF DataInv, OrderInv, Calm, Inv
<1>1. /\ UNCHANGED <<conn, last, toClient, unblock>> /\ inflight' \subseteq inflight
      /\ seq' = seq /\ seq \in Nat /\ last \in [Conns -> Nat]
      /\ \A id \in Ids : reg'[id].as = reg[id].as /\ reg'[id].tcp = reg[id].tcp
  BY <1>0 DEF Calm, Shrinks, StaysLinked, SentInv, Types
<1>2. StockInv'
  BY <1>0, StockKept
<1>3. PlaceInv'
  BY <1>0, ShrinkPlace
<1>4. SentInv'
  <2>1. Flows
    BY <1>1 DEF Flows, Flow
  <2> QED
    BY <1>0, <2>1, FlowsInOrder
<1>5. TurnInv'
  <2>1. \A c \in Conns : OnlyOlder(c)
    BY <1>1 DEF OnlyOlder, SentBefore
  <2>2. \A id \in Ids : reg'[id].as # "none" =>
           \E c \in Conns : /\ reg[id].as # "none" /\ reg[id].tcp = c
                            /\ reg'[id].tcp = c /\ OnlyOlder(c)
    BY <1>1, <2>1, PlaceTypes
  <2> QED
    BY <1>0, <2>2, ShrinkTurn
<1>6. AgeInv' /\ QueueInv'
  BY <1>0, ShrinkOrder
<1>7. DueInv'
  <2>1. \A id \in Ids : \A n : EosLeft(id, n)
    BY <1>1 DEF EosLeft, HoldsEos, Calm
  <2>2. \A c, n : EosOnWay(c, n)
    BY <1>1, <2>1 DEF EosOnWay
  <2>3. ASSUME NEW due \in eosDue', due \notin eosDue
        PROVE  due = <<due[1], due[2]>> /\ EosNew(due[1], due[2])
    <3>1. due = <<due[1], 0>> /\ due[1] \in Conns /\ conn[due[1]].state = "up"
      BY <2>3 DEF Calm, DueGrows
    <3>2. due[2] = 0
      BY <3>1
    <3> QED
      BY <1>1, <3>1, <3>2 DEF EosNew
  <2> QED
    BY <1>0, <2>2, <2>3, DueStep
<1> QED
  BY <1>2, <1>3, <1>4, <1>5, <1>6, <1>7 DEF DataInv, OrderInv

(* Most of them do not touch the queues.                                   *)
LEMMA CalmUntouched ==
    ASSUME Inv, Inv', StaysLinked, QueuesStay, ReadyStays, inflight' \subseteq inflight,
           UNCHANGED <<setup, seq, common, unblock, unblockShared, conn, last, toClient>>,
           PlaceInv, DueGrows
    PROVE  Calm
<1>1. PartOf(common', common)
  BY PlaceTypes, PartOfSame
<1>2. ASSUME NEW id \in Ids PROVE Keeps(id) /\ reg'[id].queue = reg[id].queue
  <2>1. reg'[id].queue = reg[id].queue /\ unblock'[id] = unblock[id] /\ reg'[id].as = reg[id].as
    BY DEF QueuesStay, StaysLinked
  <2>2. PartOf(reg'[id].queue, reg[id].queue)
    BY <2>1, PlaceTypes, PartOfSame
  <2>3. reg[id].as = "none" => reg[id].queue = <<>> /\ unblock[id] = 0
    BY DEF PlaceInv
  <2> QED
    BY <2>1, <2>2, <2>3 DEF Keeps
<1>3. Shrinks
  BY <1>1, <1>2 DEF Shrinks
<1> QED
  BY <1>2, <1>3 DEF Calm

(* The handlers of connections and calls that leave all data alone         *)
LEMMA CallsData ==
    ASSUME Inv, Inv', DataInv,
           \/ \E c \in Conns : readUpdate(c) \/ postpone(c)
           \/ \E id \in Ids : availableButGone(id) \/ becomeReady(id)
           \/ sleep
           \/ sendFinalSignal /\ chunkId = 0
           \/ UNCHANGED vars
    PROVE  DataInv'
<1>0. StockInv /\ PlaceInv /\ Types'
  BY DEF DataInv, Inv
<1>1. /\ UNCHANGED <<setup, seq, common, unblock, unblockShared, conn, last, toClient>>
      /\ UNCHANGED <<mem, chunkId, inflight, leaked, reg>>
  BY DEF readUpdate, postpone, availableButGone, becomeReady, sleep, sendFinalSignal,
         asyncUpdateNoWait, vars, blocks, writing, network, history
<1>7. DueGrows
  <2>1. CASE eosDue' = eosDue
    BY <2>1 DEF DueGrows
  <2>2. CASE eosDue' = eosDue \cup {<<c, 0>> : c \in Listeners}
    <3> SUFFICES ASSUME NEW due \in eosDue', due \notin eosDue
                 PROVE  due = <<due[1], 0>> /\ due[1] \in Conns /\ conn[due[1]].state = "up"
      BY DEF DueGrows
    <3>1. PICK c \in Conns : due = <<c, 0>> /\ conn[c].state = "up"
      BY <2>2 DEF Listeners
    <3> QED
      BY <3>1
  <2> QED
    BY <2>1, <2>2 DEF readUpdate, postpone, availableButGone, becomeReady, sleep,
       sendFinalSignal, asyncUpdateNoWait, vars, history
<1>2. writer' # "idle" => chunkId' = 0
  <2>1. writer # "idle" => chunkId = 0
    BY <1>0 DEF StockInv
  <2>2. sleep => writer # "idle"
    BY DEF sleep
  <2>3. ~sleep => writer' = writer
    BY DEF readUpdate, postpone, availableButGone, becomeReady, sendFinalSignal,
           asyncUpdateNoWait, vars, writing
  <2> QED
    BY <1>1, <2>1, <2>2, <2>3
<1>3. StaysLinked /\ QueuesStay
  BY <1>1 DEF StaysLinked, QueuesStay
<1>4. StockStep
  BY <1>0, <1>1, <1>2, StockQuiet
<1>5. ReadyStays
  <2>1. CASE UNCHANGED <<shareNext, copyNext>>
    BY <2>1 DEF ReadyStays, Ready
  <2>2. ASSUME NEW id \in Ids, becomeReady(id) PROVE ReadyStays
    <3>1. /\ reg[id].as # "none" /\ NextSource(id) = "none"
          /\ \/ shareNext' = pushShareNext(id) /\ copyNext' = copyNext
             \/ copyNext' = copyNext \cup {id} /\ shareNext' = shareNext
      BY <2>2 DEF becomeReady, Available
    <3>2. Waiting(id) = {}
      <4>1. /\ unblock[id] = 0 /\ reg[id].queue = <<>>
            /\ reg[id].as = "shared" => unblockShared = 0 /\ common = <<>>
        BY <3>1 DEF NextSource
      <4>2. 0 \notin Chunks /\ Range(<<>>) = {}
        BY ChunksAssumption DEF Chunks, Range
      <4> QED
        BY <4>1, <4>2 DEF Waiting
    <3>3. shareNext \in Seq(Ids)
      BY DEF Inv, Types
    <3>4. Range(pushShareNext(id)) \subseteq Range(shareNext) \cup {id}
      <4>1. Range(Append(shareNext, id)) \subseteq Range(shareNext) \cup {id}
        <5>1. \A i \in 1..Len(Append(shareNext, id)) :
                 \/ i \in 1..Len(shareNext) /\ Append(shareNext, id)[i] = shareNext[i]
                 \/ Append(shareNext, id)[i] = id
          BY <3>3
        <5> QED
          BY <3>3, <5>1 DEF Range
      <4> QED
        BY <4>1 DEF pushShareNext
    <3>5. \A j \in Ids : Ready(j)' => Ready(j) \/ j = id
      BY <3>1, <3>4 DEF Ready
    <3> QED
      BY <3>1, <3>2, <3>5 DEF ReadyStays
  <2>3. (\E id \in Ids : becomeReady(id)) \/ UNCHANGED <<shareNext, copyNext>>
    BY DEF readUpdate, postpone, availableButGone, sleep, sendFinalSignal,
           asyncUpdateNoWait, vars, ready
  <2> QED
    BY <2>1, <2>2, <2>3
<1>6. Calm
  BY <1>0, <1>1, <1>3, <1>5, <1>7, CalmUntouched
<1> QED
  BY <1>4, <1>6, CalmData


(* The messages on the way, with one more or the first one read            *)
LEMMA MessageRanges ==
    ASSUME NEW q \in Seq(Nat)
    PROVE  /\ \A n \in Nat : Range(q) \subseteq Range(Append(q, n)) /\ n \in Range(Append(q, n))
           /\ q # <<>> => \A n \in Range(q) : n # Head(q) => n \in Range(Tail(q))
<1>1. ASSUME NEW n \in Nat
      PROVE  Range(q) \subseteq Range(Append(q, n)) /\ n \in Range(Append(q, n))
  <2>0. Append(q, n) \in Seq(Nat)
    OBVIOUS
  <2>1. PICK p \in Seq(Nat) : p = Append(q, n)
    BY <2>0
  <2>2. /\ \A i \in 1..Len(q) : p[i] = q[i] /\ i \in 1..Len(p)
        /\ p[Len(q) + 1] = n /\ Len(q) + 1 \in 1..Len(p)
    BY <2>1
  <2>3. DOMAIN p = 1..Len(p) /\ DOMAIN q = 1..Len(q)
    OBVIOUS
  <2>4. Range(q) \subseteq Range(p) /\ n \in Range(p)
    BY <2>2, <2>3 DEF Range
  <2> QED
    BY <2>1, <2>4
<1>2. ASSUME q # <<>>, NEW n \in Range(q), n # Head(q) PROVE n \in Range(Tail(q))
  <2>1. PICK b \in 1..Len(q) : q[b] = n
    BY DEF Range
  <2>0. Tail(q) \in Seq(Nat)
    BY <1>2
  <2>2. PICK p \in Seq(Nat) : p = Tail(q)
    BY <2>0
  <2>3. b # 1
    BY <1>2, <2>1
  <2>4. b - 1 \in 1..Len(p) /\ p[b - 1] = q[b]
    <3>1. Len(p) = Len(q) - 1 /\ \A a \in 1..Len(p) : p[a] = q[a + 1]
      BY <1>2, <2>2
    <3>2. b - 1 \in 1..Len(p) /\ (b - 1) + 1 = b
      BY <2>3, <3>1
    <3> QED
      BY <3>1, <3>2
  <2>5. DOMAIN p = 1..Len(p)
    OBVIOUS
  <2> QED
    BY <2>1, <2>2, <2>4, <2>5 DEF Range
<1> QED
  BY <1>1, <1>2

(* All other entries of a thinned out queue stay.                          *)
LEMMA RemoveLeaves ==
    ASSUME NEW q \in Seq(Chunks), NEW i \in 1..Len(q), NEW k \in Range(q), k # q[i]
    PROVE  k \in Range(RemoveAt(q, i))
<1>1. PICK b \in 1..Len(q) : q[b] = k
  BY DEF Range
<1>2. /\ RemoveAt(q, i) \in Seq(Chunks) /\ Len(RemoveAt(q, i)) = Len(q) - 1
      /\ \A a \in 1..(Len(q) - 1) : RemoveAt(q, i)[a] = IF a < i THEN q[a] ELSE q[a + 1]
  BY OccurrencesRemove
<1>3. PICK p \in Seq(Chunks) : p = RemoveAt(q, i)
  BY <1>2
<1>4. \E a \in 1..Len(p) : p[a] = k
  <2>1. CASE b < i
    <3>1. b \in 1..(Len(q) - 1) /\ b \in 1..Len(p)
      BY <1>2, <1>3, <2>1
    <3> QED
      BY <1>1, <1>2, <1>3, <2>1, <3>1
  <2>2. CASE ~(b < i)
    <3>1. b # i
      BY <1>1
    <3>2. b - 1 \in 1..(Len(q) - 1) /\ ~(b - 1 < i) /\ (b - 1) + 1 = b /\ b - 1 \in 1..Len(p)
      BY <1>2, <1>3, <2>2, <3>1
    <3>3. p[b - 1] = q[b]
      BY <1>2, <1>3, <3>2
    <3> QED
      BY <1>1, <3>2, <3>3
  <2> QED
    BY <2>1, <2>2
<1> QED
  BY <1>3, <1>4 DEF Range

(* A write completes.                                                      *)
LEMMA WriteCompleteData ==
    ASSUME Inv, Inv', DataInv, NEW w \in inflight, writeComplete(w)
    PROVE  DataInv'
<1>0. StockInv /\ PlaceInv /\ Types'
  BY DEF DataInv, Inv
<1>1. StockStep
  BY <1>0, StockWriteComplete
<1>2. /\ UNCHANGED <<setup, seq, common, unblock, unblockShared, conn, last, toClient, eosDue>>
      /\ UNCHANGED <<shareNext, copyNext>> /\ inflight' \subseteq inflight
      /\ reg' = resetSendOngoing(w)
  BY DEF writeComplete, blocks, writing, network, history, ready
<1>3. StaysLinked /\ QueuesStay
  <2>1. reg \in [Ids -> Entry]
    BY DEF Inv, Types
  <2> QED
    BY <1>2, <2>1 DEF resetSendOngoing, StaysLinked, QueuesStay, Entry
<1>4. ReadyStays
  BY <1>2 DEF ReadyStays, Ready
<1>5. Calm
  BY <1>0, <1>2, <1>3, <1>4, CalmUntouched DEF DueGrows
<1> QED
  BY <1>1, <1>5, CalmData

(* The writer finds a chunk.                                               *)
LEMMA UpdateChunkIdData ==
    ASSUME Inv, Inv', DataInv, updateChunkId
    PROVE  DataInv'
<1>0. StockInv /\ PlaceInv /\ Types'
  BY DEF DataInv, Inv
<1>1. StockStep
  BY <1>0, StockUpdateChunkId
<1>2. /\ UNCHANGED <<setup, seq, common, unblock, unblockShared, conn, last, toClient, eosDue>>
      /\ UNCHANGED <<shareNext, copyNext, inflight, reg>>
  BY DEF updateChunkId, blocks, network, history, ready
<1>3. StaysLinked /\ QueuesStay /\ ReadyStays
  BY <1>2 DEF StaysLinked, QueuesStay, ReadyStays, Ready
<1>4. Calm
  BY <1>0, <1>2, <1>3, CalmUntouched DEF DueGrows
<1> QED
  BY <1>1, <1>4, CalmData

(* Data in the queue of an input is dropped.                               *)
LEMMA DropIndividualData ==
    ASSUME Inv, Inv', DataInv, dropIndividualQueues
    PROVE  DataInv'
<1>0. StockInv /\ PlaceInv /\ Types' /\ reg \in [Ids -> Entry]
  BY DEF DataInv, Inv, Types
<1>1. StockStep
  BY <1>0, StockDropIndividual
<1>2. /\ UNCHANGED <<setup, seq, common, unblock, unblockShared, conn, last, toClient, eosDue>>
      /\ UNCHANGED <<shareNext, copyNext, inflight>>
  BY DEF dropIndividualQueues, blocks, writing, network, history, ready
<1>3. PICK id \in Ids : \E i \in Oldest(reg[id].queue) :
         reg' = [reg EXCEPT ![id].queue = RemoveAt(@, i)]
  BY DEF dropIndividualQueues
<1>4. PICK i \in 1..Len(reg[id].queue) :
         /\ ~mem[reg[id].queue[i]].eos
         /\ reg' = [reg EXCEPT ![id].queue = RemoveAt(@, i)]
  BY <1>3 DEF Oldest
<1>5. /\ reg'[id].queue = RemoveAt(reg[id].queue, i)
      /\ \A j \in Ids : /\ j # id => reg'[j].queue = reg[j].queue
                        /\ reg'[j].as = reg[j].as /\ reg'[j].tcp = reg[j].tcp
  BY <1>0, <1>4 DEF Entry
<1>6. \A j \in Ids : reg[j].queue \in Seq(Chunks)
  BY PlaceTypes
<1>7. StaysLinked /\ ReadyStays
  BY <1>2, <1>5 DEF StaysLinked, ReadyStays, Ready
<1>8. /\ PartOf(reg'[id].queue, reg[id].queue)
      /\ \A k \in Range(reg[id].queue) : mem[k].eos => k \in Range(reg'[id].queue)
  <2>1. PICK q \in Seq(Chunks) : q = reg[id].queue
    BY <1>6
  <2>2. i \in 1..Len(q) /\ ~mem[q[i]].eos /\ reg'[id].queue = RemoveAt(q, i)
    BY <1>4, <1>5, <2>1
  <2>3. PartOf(RemoveAt(q, i), q)
    BY <2>2, PartOfRemove
  <2>4. \A k \in Range(q) : mem[k].eos => k \in Range(RemoveAt(q, i))
    BY <2>2, RemoveLeaves
  <2> QED
    BY <2>1, <2>2, <2>3, <2>4
<1>9. ASSUME NEW j \in Ids
      PROVE  Keeps(j) /\ \A k \in Range(reg[j].queue) : mem[k].eos => k \in Range(reg'[j].queue)
  <2>1. reg[j].as = "none" => reg[j].queue = <<>> /\ unblock[j] = 0
    BY <1>0 DEF PlaceInv
  <2>2. PartOf(reg'[j].queue, reg[j].queue)
    BY <1>5, <1>6, <1>8, PartOfSame
  <2>3. reg[j].as = "none" => reg'[j].queue = <<>>
    <3>1. j = id => reg[j].queue # <<>>
      BY <1>4
    <3> QED
      BY <1>5, <2>1, <3>1
  <2> QED
    BY <1>2, <1>5, <1>8, <2>1, <2>2, <2>3 DEF Keeps
<1>10. Shrinks
  <2>1. PartOf(common', common)
    BY <1>2, PlaceTypes, PartOfSame
  <2> QED
    BY <1>2, <1>9, <2>1 DEF Shrinks
<1>11. Calm
  BY <1>2, <1>7, <1>9, <1>10 DEF Calm, DueGrows
<1> QED
  BY <1>1, <1>11, CalmData

(* Data in the common queue is dropped.                                    *)
LEMMA DropCommonData ==
    ASSUME Inv, Inv', DataInv, dropCommonQueue
    PROVE  DataInv'
<1>0. StockInv /\ PlaceInv /\ Types'
  BY DEF DataInv, Inv
<1>1. StockStep
  BY <1>0, StockDropCommon
<1>2. /\ UNCHANGED <<setup, seq, reg, unblock, unblockShared, conn, last, toClient, eosDue>>
      /\ UNCHANGED <<shareNext, copyNext, inflight>>
  BY DEF dropCommonQueue, blocks, writing, network, history, ready
<1>3. PICK i \in Oldest(common) : common' = RemoveAt(common, i)
  BY DEF dropCommonQueue
<1>4. i \in 1..Len(common) /\ ~mem[common[i]].eos
  BY <1>3 DEF Oldest
<1>5. StaysLinked /\ ReadyStays
  BY <1>2 DEF StaysLinked, ReadyStays, Ready
<1>6. /\ PartOf(common', common)
      /\ \A k \in Range(common) : mem[k].eos => k \in Range(common')
  <2>1. PICK q \in Seq(Chunks) : q = common
    BY PlaceTypes
  <2>2. i \in 1..Len(q) /\ ~mem[q[i]].eos /\ common' = RemoveAt(q, i)
    BY <1>3, <1>4, <2>1
  <2>3. PartOf(RemoveAt(q, i), q)
    BY <2>2, PartOfRemove
  <2>4. \A k \in Range(q) : mem[k].eos => k \in Range(RemoveAt(q, i))
    BY <2>2, RemoveLeaves
  <2> QED
    BY <2>1, <2>2, <2>3, <2>4
<1>7. ASSUME NEW j \in Ids PROVE Keeps(j)
  <2>1. reg[j].as = "none" => reg[j].queue = <<>> /\ unblock[j] = 0
    BY <1>0 DEF PlaceInv
  <2>2. PartOf(reg'[j].queue, reg[j].queue)
    BY <1>2, PlaceTypes, PartOfSame
  <2> QED
    BY <1>2, <2>1, <2>2 DEF Keeps
<1>8. Shrinks
  BY <1>2, <1>6, <1>7 DEF Shrinks
<1>9. Calm
  BY <1>2, <1>5, <1>6, <1>8 DEF Calm, DueGrows
<1> QED
  BY <1>1, <1>9, CalmData

(* The network: an input channel reads, or its connection is lost.         *)
LEMMA NetworkData ==
    ASSUME Inv, Inv', DataInv, NEW c \in Conns, clientRead(c) \/ breakConn(c)
    PROVE  DataInv'
<1>0. /\ StockInv /\ PlaceInv /\ OrderInv /\ SentInv /\ DueInv /\ Types /\ Types'
      /\ toClient \in [Conns -> Seq(Nat)] /\ last \in [Conns -> Nat] /\ seq \in Nat
      /\ conn \in [Conns -> [id : Ids, state : {"free", "up", "broken", "closed", "gone"}]]
  BY DEF DataInv, OrderInv, SentInv, Inv, Types
<1>1. /\ UNCHANGED <<setup, seq, common, unblock, unblockShared, inflight>>
      /\ UNCHANGED <<mem, chunkId, leaked, reg, writer, shareNext, copyNext>>
      /\ conn[c].state = "up"
      /\ \A d \in Conns : d # c =>
            toClient'[d] = toClient[d] /\ last'[d] = last[d] /\ conn'[d] = conn[d]
      /\ last' = [d \in Conns |-> last'[d]]
      /\ conn'[c].state # "free"
  BY <1>0 DEF clientRead, breakConn, blocks, writing, ready
<1>2. \/ toClient'[c] = <<>> /\ last'[c] = last[c]
         /\ \A due \in eosDue' : due \in eosDue /\ due[1] # c
      \/ /\ toClient[c] # <<>> /\ toClient'[c] = Tail(toClient[c])
         /\ last'[c] = Head(toClient[c]) /\ conn' = conn
         /\ \A due \in eosDue' : due \in eosDue /\ (due # <<c, Head(toClient[c])>>)
  BY <1>0 DEF clientRead, breakConn
<1>3. writer' # "idle" => chunkId' = 0
  BY <1>0, <1>1 DEF StockInv
<1>4. StaysLinked /\ QueuesStay /\ ReadyStays
  BY <1>1 DEF StaysLinked, QueuesStay, ReadyStays, Ready
<1>5. StockStep
  BY <1>0, <1>1, <1>3, <1>4, StockQuiet DEF QueuesStay
<1>6. Shrinks
  <2>1. PartOf(common', common)
    BY <1>1, PlaceTypes, PartOfSame
  <2>2. ASSUME NEW j \in Ids PROVE Keeps(j)
    <3>1. reg[j].as = "none" => reg[j].queue = <<>> /\ unblock[j] = 0
      BY <1>0 DEF PlaceInv
    <3>2. PartOf(reg'[j].queue, reg[j].queue)
      BY <1>1, PlaceTypes, PartOfSame
    <3> QED
      BY <1>1, <3>1, <3>2 DEF Keeps
  <2> QED
    BY <1>1, <2>1, <2>2 DEF Shrinks
<1>7. SentInv'
  <2>1. \A d \in Conns : Flow(d)
    BY <1>1, <1>2 DEF Flow
  <2>2. \A d \in Conns : conn'[d].state = "free" => conn[d].state = "free"
    BY <1>1
  <2>3. Flows
    BY <1>0, <1>1, <2>1, <2>2 DEF Flows
  <2> QED
    BY <1>0, <2>3, FlowsInOrder
<1>8. TurnInv'
  <2>1. ASSUME NEW d \in Conns PROVE OnlyOlder(d)
    <3>1. CASE d # c
      BY <1>1, <3>1 DEF OnlyOlder, SentBefore
    <3>2. CASE d = c /\ toClient'[c] = <<>> /\ last'[c] = last[c]
      <4>1. 1..Len(toClient'[c]) = {}
        BY <3>2
      <4> QED
        BY <1>1, <3>2, <4>1 DEF OnlyOlder, SentBefore
    <3>3. CASE /\ d = c /\ toClient[c] # <<>> /\ toClient'[c] = Tail(toClient[c])
               /\ last'[c] = Head(toClient[c])
      <4>1. /\ Head(toClient[c]) = toClient[c][1] /\ 1 \in 1..Len(toClient[c])
            /\ \A i \in 1..Len(Tail(toClient[c])) :
                  Tail(toClient[c])[i] = toClient[c][i + 1] /\ i + 1 \in 1..Len(toClient[c])
        BY <1>0, <3>3
      <4>2. ASSUME NEW n \in Nat, SentBefore(c, n) PROVE SentBefore(c, n)'
        <5>1. last'[c] < n
          BY <3>3, <4>1, <4>2 DEF SentBefore
        <5>2. \A i \in 1..Len(toClient'[c]) : toClient'[c][i] < n
          BY <3>3, <4>1, <4>2 DEF SentBefore
        <5>3. \A w \in inflight' : w.tcp = c => w.msg < n
          BY <1>1, <4>2 DEF SentBefore
        <5> QED
          BY <5>1, <5>2, <5>3 DEF SentBefore
      <4> QED
        BY <3>3, <4>2 DEF OnlyOlder
    <3> QED
      BY <1>2, <3>1, <3>2, <3>3
  <2>2. \A id \in Ids : reg'[id].as # "none" =>
           \E d \in Conns : /\ reg[id].as # "none" /\ reg[id].tcp = d
                            /\ reg'[id].tcp = d /\ OnlyOlder(d)
    BY <1>1, <2>1, PlaceTypes
  <2> QED
    BY <1>0, <1>5, <1>6, <2>2, ShrinkTurn
<1>9. AgeInv' /\ QueueInv'
  BY <1>0, <1>5, <1>6, ShrinkOrder
<1>10. DueInv'
  <2>1. \A id \in Ids : \A n : EosLeft(id, n)
    BY <1>1 DEF EosLeft, HoldsEos
  <2>2. ASSUME NEW due \in eosDue' PROVE due \in eosDue /\ EosOnWay(due[1], due[2])
    <3>1. due \in eosDue /\ due[1] \in Conns
      BY <1>0, <1>2 DEF DueInv
    <3>2. CASE due[1] # c
      <4>1. conn'[due[1]] = conn[due[1]] /\ toClient'[due[1]] = toClient[due[1]]
        BY <1>1, <3>1, <3>2
      <4> QED
        BY <2>1, <3>1, <4>1 DEF EosOnWay
    <3>3. CASE due[1] = c
      <4>1. /\ toClient[c] # <<>> /\ toClient'[c] = Tail(toClient[c])
            /\ conn' = conn /\ due # <<c, Head(toClient[c])>>
        BY <1>2, <3>3
      <4>2. due = <<due[1], due[2]>>
        BY <1>0, <3>1 DEF DueInv
      <4>3. due[2] # Head(toClient[c])
        BY <3>3, <4>1, <4>2
      <4> QED
        BY <1>0, <2>1, <3>1, <3>3, <4>1, <4>3, MessageRanges DEF EosOnWay
    <3> QED
      BY <3>2, <3>3
  <2> QED
    BY <1>0, <1>5, <2>2, DueStep
<1>11. StockInv' /\ PlaceInv'
  BY <1>0, <1>4, <1>5, <1>6, StockKept, ShrinkPlace
<1> QED
  BY <1>7, <1>8, <1>9, <1>10, <1>11 DEF DataInv, OrderInv


(* An input connects, maybe for the second time: what waits is newer than  *)
(* what the new connection was sent, which is nothing.                     *)
LEMMA HelloData ==
    ASSUME Inv, Inv', DataInv, NEW id \in Ids, hello(id)
    PROVE  DataInv'
<1>0. /\ StockInv /\ PlaceInv /\ OrderInv /\ SentInv /\ DueInv /\ Types /\ Types'
      /\ toClient \in [Conns -> Seq(Nat)] /\ last \in [Conns -> Nat] /\ seq \in Nat
      /\ conn \in [Conns -> [id : Ids, state : {"free", "up", "broken", "closed", "gone"}]]
      /\ LinkInv /\ WriteInv /\ reg \in [Ids -> Entry] /\ setup \in Setup
  BY DEF DataInv, OrderInv, SentInv, Inv, Types
<1>1. /\ UNCHANGED <<setup, seq, common, unblock, unblockShared, inflight>>
      /\ UNCHANGED <<mem, last, shareNext, copyNext>>
  BY DEF hello, blocks, writing, ready
<1>2. PICK c \in Conns :
         /\ conn[c].state = "free"
         /\ conn' = [d \in Conns |->
               IF d = c THEN [id |-> id, state |-> "up"]
               ELSE IF d = reg[id].tcp THEN [conn[d] EXCEPT !.state = "closed"]
               ELSE conn[d]]
         /\ toClient' = [d \in Conns |-> IF d = reg[id].tcp THEN <<>> ELSE toClient[d]]
         /\ eosDue' = {due \in eosDue : due[1] # reg[id].tcp}
         /\ reg' = [reg EXCEPT ![id] =
               [Nobody EXCEPT !.as = setup.distribution[id], !.tcp = c]]
  BY DEF hello
<1>3. /\ reg'[id].queue = <<>> /\ reg'[id].tcp = c /\ reg'[id].as = setup.distribution[id]
      /\ \A j \in Ids : j # id => reg'[j] = reg[j]
  BY <1>0, <1>2 DEF Nobody
<1>4. setup.distribution[id] # "none"
  BY PlaceTypes
<1>5. StockStep
  BY <1>0, StockHello
<1>6. ReadyStays
  BY <1>1 DEF ReadyStays, Ready
<1>7. Shrinks
  <2>1. PartOf(common', common)
    BY <1>1, PlaceTypes, PartOfSame
  <2>2. ASSUME NEW j \in Ids PROVE Keeps(j)
    <3>1. reg[j].as = "none" => reg[j].queue = <<>> /\ unblock[j] = 0
      BY <1>0 DEF PlaceInv
    <3>2. PartOf(reg'[j].queue, reg[j].queue)
      BY <1>3, PlaceTypes, PartOfSame, PartOfEmpty
    <3> QED
      BY <1>1, <1>3, <1>4, <3>1, <3>2 DEF Keeps
  <2> QED
    BY <1>1, <2>1, <2>2 DEF Shrinks
<1>8. toClient[c] = <<>> /\ toClient'[c] = <<>> /\ last'[c] = 0
  BY <1>0, <1>1, <1>2 DEF LinkInv, SentInv
<1>9. SentInv'
  <2>1. \A d \in Conns : Flow(d)
    BY <1>0, <1>1, <1>2 DEF Flow
  <2>2. \A d \in Conns : conn'[d].state = "free" => conn[d].state = "free"
    BY <1>0, <1>2
  <2>3. Flows
    BY <1>0, <1>1, <2>1, <2>2 DEF Flows
  <2> QED
    BY <1>0, <2>3, FlowsInOrder
<1>10. TurnInv'
  <2>1. ASSUME NEW d \in Conns PROVE OnlyOlder(d)
    <3>1. last'[d] = last[d] /\ inflight' = inflight
          /\ (toClient'[d] = toClient[d] \/ toClient'[d] = <<>>)
      BY <1>1, <1>2
    <3>2. 1..Len(<<>>) = {}
      OBVIOUS
    <3> QED
      BY <3>1, <3>2 DEF OnlyOlder, SentBefore
  <2>2. \A j \in Ids : j # id /\ reg'[j].as # "none" =>
           \E d \in Conns : /\ reg[j].as # "none" /\ reg[j].tcp = d
                            /\ reg'[j].tcp = d /\ OnlyOlder(d)
    BY <1>3, <2>1, PlaceTypes
  <2>3. ASSUME NEW k \in Waiting(id)' PROVE SentBefore(reg[id].tcp, Msg(k))'
    <3>1. mem'[k].msg = mem[k].msg /\ mem[k].msg \in 1..seq
      BY <1>0, <1>5, <1>7, ShrinkOrder DEF Same, Msg
    <3>2. mem'[k].msg \in Nat /\ 0 < mem'[k].msg
      BY <1>0, <3>1
    <3>3. \A w \in inflight' : w.tcp # c
      BY <1>0, <1>1, <1>2 DEF WriteInv
    <3>4. 1..Len(toClient'[c]) = {}
      BY <1>8
    <3> QED
      BY <1>3, <1>8, <3>2, <3>3, <3>4 DEF SentBefore, Msg
  <2>4. \A j \in Ids : reg'[j].as # "none" =>
           \/ \E d \in Conns : /\ reg[j].as # "none" /\ reg[j].tcp = d
                               /\ reg'[j].tcp = d /\ OnlyOlder(d)
           \/ \A k \in Waiting(j)' : SentBefore(reg[j].tcp, Msg(k))'
    BY <2>2, <2>3
  <2> QED
    BY <1>0, <1>5, <1>7, <2>4, ShrinkTurn
<1>11. AgeInv' /\ QueueInv'
  BY <1>0, <1>5, <1>7, ShrinkOrder
<1>12. DueInv'
  <2>1. ASSUME NEW due \in eosDue' PROVE due \in eosDue /\ EosOnWay(due[1], due[2])
    <3>1. /\ due \in eosDue /\ due[1] # reg[id].tcp
          /\ due[1] \in Conns /\ conn[due[1]].state = "up"
      BY <1>0, <1>2 DEF DueInv
    <3>2. due[1] # c
      BY <1>2, <3>1
    <3>3. conn'[due[1]] = conn[due[1]] /\ toClient'[due[1]] = toClient[due[1]]
      BY <1>2, <3>1, <3>2
    <3>4. ASSUME NEW j \in Ids, conn[due[1]].id = j PROVE EosLeft(j, due[2])
      <4>1. reg[j].tcp = due[1]
        BY <1>0, <3>1, <3>4 DEF LinkInv
      <4>2. reg'[j] = reg[j]
        BY <1>3, <3>1, <4>1
      <4> QED
        BY <1>1, <4>2 DEF EosLeft, HoldsEos
    <3> QED
      BY <3>1, <3>3, <3>4 DEF EosOnWay
  <2> QED
    BY <1>0, <1>5, <2>1, DueStep
<1>13. StockInv' /\ PlaceInv'
  BY <1>0, <1>5, <1>6, <1>7, StockKept, ShrinkPlace
<1> QED
  BY <1>9, <1>10, <1>11, <1>12, <1>13 DEF DataInv, OrderInv

(* The connection of an input is gone, with what waited for the input      *)
(* alone.                                                                  *)
LEMMA GoneData ==
    ASSUME Inv, Inv', DataInv, NEW c \in Conns, onInputGone(c)
    PROVE  DataInv'
<1> DEFINE id == conn[c].id
<1>0. /\ StockInv /\ PlaceInv /\ OrderInv /\ SentInv /\ DueInv /\ Types /\ Types'
      /\ toClient \in [Conns -> Seq(Nat)] /\ last \in [Conns -> Nat] /\ seq \in Nat
      /\ conn \in [Conns -> [id : Ids, state : {"free", "up", "broken", "closed", "gone"}]]
      /\ LinkInv /\ reg \in [Ids -> Entry] /\ unblock \in [Ids -> 0..MaxChunks]
  BY DEF DataInv, OrderInv, SentInv, Inv, Types
<1>1. /\ UNCHANGED <<setup, seq, last, toClient, eosDue>>
      /\ conn[c].state \in {"broken", "closed"}
      /\ conn' = [conn EXCEPT ![c].state = "gone"] /\ id \in Ids
  BY <1>0 DEF onInputGone, writing, history
<1>2. StockStep
  BY <1>0, StockGone
<1>3. /\ Range(shareNext') \subseteq Range(shareNext) /\ copyNext' \subseteq copyNext
  BY <1>0, GoneFacts
<1>4. ReadyStays
  BY <1>3 DEF ReadyStays, Ready
<1>5. /\ \A j \in Ids : \/ reg'[j] = reg[j] /\ unblock'[j] = unblock[j]
                        \/ reg[j].tcp = c /\ reg'[j] = Nobody /\ unblock'[j] = 0
      /\ common' = common \/ (common' = <<>> /\ \A j \in Ids : reg[j].as = "shared" => reg[j].tcp = c)
      /\ unblockShared' \in {0, unblockShared}
      /\ \A w \in inflight' : w \in inflight \/ (w.tcp = c /\ w.msg \in 1..seq)
  <2>1. CASE reg[id].tcp # c
    <3>1. UNCHANGED <<mem, reg, common, unblock, unblockShared, inflight>>
      BY <2>1 DEF onInputGone, blocks
    <3> QED
      BY <3>1
  <2>2. CASE reg[id].tcp = c
    <3>1. Leaves(c, conn[c].id)
      BY <1>0, <2>2, GoneLeaves
    <3>2. PICK j \in Ids : j = conn[c].id
      BY <1>1
    <3>3. /\ unblock' = [unblock EXCEPT ![j] = 0] /\ reg' = [reg EXCEPT ![j] = Nobody]
          /\ unblockShared' = IF LastShared(j) THEN 0 ELSE unblockShared
          /\ common' = IF LastShared(j) THEN <<>> ELSE common
          /\ \/ inflight' = inflight
             \/ \E x \in Waiting(j) : \E w : inflight' = inflight \cup {w} /\ w.tcp = c /\ w.msg = Msg(x)
      BY <3>1, <3>2 DEF Leaves
    <3>4. \A x \in Waiting(j) : Msg(x) \in 1..seq
      BY <1>0 DEF OrderInv, AgeInv, Waiting
    <3>5. LastShared(j) => \A i \in Ids : reg[i].as = "shared" => i = j
      BY DEF LastShared, SharedInputs, Registered
    <3>6. reg[j].tcp = c
      BY <2>2, <3>2
    <3> QED
      BY <1>0, <3>3, <3>4, <3>5, <3>6
  <2> QED
    BY <2>1, <2>2
<1> HIDE DEF id
<1>6. Shrinks
  <2>1. PartOf(common', common)
    BY <1>5, PlaceTypes, PartOfSame, PartOfEmpty
  <2>2. ASSUME NEW j \in Ids PROVE Keeps(j)
    <3>1. reg[j].as = "none" => reg[j].queue = <<>> /\ unblock[j] = 0
      BY <1>0 DEF PlaceInv
    <3>2. Nobody.queue = <<>>
      BY DEF Nobody
    <3>3. PartOf(reg'[j].queue, reg[j].queue)
      BY <1>5, <3>2, PlaceTypes, PartOfSame, PartOfEmpty
    <3> QED
      BY <1>5, <3>1, <3>2, <3>3 DEF Keeps
  <2> QED
    BY <1>1, <1>5, <2>1, <2>2 DEF Shrinks
<1>7. SentInv'
  <2>1. \A d \in Conns : Flow(d)
    BY <1>1 DEF Flow
  <2>2. \A d \in Conns : conn'[d].state = "free" => conn[d].state = "free"
    BY <1>0, <1>1
  <2>3. Flows
    BY <1>0, <1>1, <1>5, <2>1, <2>2 DEF Flows
  <2> QED
    BY <1>0, <2>3, FlowsInOrder
<1>8. TurnInv'
  <2>1. ASSUME NEW d \in Conns, d # c PROVE OnlyOlder(d)
    BY <1>1, <1>5, <2>1 DEF OnlyOlder, SentBefore
  <2>2. ASSUME NEW j \in Ids, reg'[j].as # "none"
        PROVE  \E d \in Conns : /\ reg[j].as # "none" /\ reg[j].tcp = d
                                /\ reg'[j].tcp = d /\ OnlyOlder(d)
    <3>1. Nobody.as = "none"
      BY DEF Nobody
    <3>2. reg'[j] = reg[j]
      BY <1>5, <2>2, <3>1
    <3>3. PICK d \in Conns : d = reg[j].tcp
      BY <2>2, <3>2, PlaceTypes
    <3>4. conn'[d].state \in {"up", "broken"}
      <4>1. LinkInv'
        BY DEF Inv
      <4>2. d # 0 /\ reg'[j].tcp = d
        BY <3>2, <3>3, BoundsAssumption DEF Conns
      <4> QED
        BY <4>1, <4>2 DEF LinkInv
    <3>5. d # c
      BY <1>0, <1>1, <3>4
    <3> QED
      BY <2>1, <2>2, <3>2, <3>3, <3>5
  <2> QED
    BY <1>0, <1>2, <1>6, <2>2, ShrinkTurn
<1>9. AgeInv' /\ QueueInv'
  BY <1>0, <1>2, <1>6, ShrinkOrder
<1>10. DueInv'
  <2>1. ASSUME NEW due \in eosDue' PROVE due \in eosDue /\ EosOnWay(due[1], due[2])
    <3>1. /\ due \in eosDue /\ due[1] \in Conns /\ conn[due[1]].state = "up"
      BY <1>0, <1>1 DEF DueInv
    <3>2. due[1] # c
      BY <1>1, <3>1
    <3>3. conn'[due[1]] = conn[due[1]] /\ toClient'[due[1]] = toClient[due[1]]
      BY <1>1, <3>1, <3>2
    <3>4. ASSUME NEW j \in Ids, conn[due[1]].id = j PROVE EosLeft(j, due[2])
      <4>1. reg[j].tcp = due[1]
        BY <1>0, <3>1, <3>4 DEF LinkInv
      <4>2. reg'[j] = reg[j] /\ unblock'[j] = unblock[j] /\ (reg[j].as = "shared" => common' = common)
        BY <1>5, <3>2, <4>1
      <4> QED
        BY <4>2 DEF EosLeft, HoldsEos
    <3> QED
      BY <3>1, <3>3, <3>4 DEF EosOnWay
  <2> QED
    BY <1>0, <1>2, <2>1, DueStep
<1>11. StockInv' /\ PlaceInv'
  BY <1>0, <1>2, <1>4, <1>6, StockKept, ShrinkPlace
<1> QED
  BY <1>7, <1>8, <1>9, <1>10, <1>11 DEF DataInv, OrderInv


-----------------------------------------------------------------------------
(* Sources of data exclude each other: what blocks the writer comes with   *)
(* nothing else.                                                           *)
LEMMA BlockedAlone ==
    ASSUME Inv, PlaceInv, NEW id \in Ids, reg[id].as # "none"
    PROVE  /\ reg[id].as = "shared" /\ unblockShared # 0 =>
                 unblock[id] = 0 /\ reg[id].queue = <<>> /\ common = <<>>
           /\ unblock[id] # 0 =>
                 reg[id].queue = <<>> /\ (reg[id].as = "shared" => common = <<>>)
<1>1. reg[id].as = setup.distribution[id]
  <2>1. LinkInv
    BY DEF Inv
  <2> QED
    BY <2>1 DEF LinkInv
<1>2. ASSUME reg[id].as = "shared", unblockShared # 0
      PROVE  unblock[id] = 0 /\ reg[id].queue = <<>> /\ common = <<>>
  <2>1. setup.noInputShared = "wait" /\ Waits(id)
    BY <1>1, <1>2 DEF PlaceInv, Waits
  <2> QED
    BY <1>2, <2>1 DEF PlaceInv
<1>3. ASSUME unblock[id] # 0
      PROVE  reg[id].queue = <<>> /\ (reg[id].as = "shared" => common = <<>>)
  <2>1. Waits(id)
    BY <1>3 DEF PlaceInv
  <2>2. reg[id].as = "shared" => setup.noInputShared = "wait"
    BY <1>1, <2>1 DEF Waits
  <2> QED
    BY <2>1, <2>2 DEF PlaceInv
<1> QED
  BY <1>2, <1>3

(* What an input is served with is older than what it still waits for; the *)
(* others wait for what they waited for.                                   *)
LEMMA ServesOldest ==
    ASSUME Inv, Inv', PlaceInv, OrderInv, NEW id \in Ids, NEW x \in Chunks, Serves(id, x)
    PROVE  /\ \A k \in Chunks : Same(k)
           /\ \A j \in Ids : Waiting(j)' \subseteq Waiting(j)
           /\ \A k \in Waiting(id)' : Msg(x) < Msg(k)
<1>0. /\ common \in Seq(Chunks) /\ common' \in Seq(Chunks) /\ 0 \notin Chunks
      /\ \A j \in Ids : reg[j].queue \in Seq(Chunks) /\ reg'[j].queue \in Seq(Chunks)
      /\ unblock \in [Ids -> 0..MaxChunks] /\ mem \in [Chunks -> Chunk]
  <2>1. 0 \notin Chunks
    BY ChunksAssumption DEF Chunks
  <2>2. unblock \in [Ids -> 0..MaxChunks] /\ mem \in [Chunks -> Chunk]
    BY DEF Inv, Types
  <2> QED
    BY <2>1, <2>2, PlaceTypes
<1>1. /\ reg[id].as # "none" /\ \A j \in Ids : reg'[j].as = reg[j].as
      /\ QueueInv
  BY DEF Serves, StaysLinked, OrderInv
<1>2. \A k \in Chunks : Same(k)
  <2>1. CASE mem' = mem
    BY <2>1 DEF Same
  <2>2. CASE \E n : mem' = incrementChunkUsage(mem, x, n)
    BY <1>0, <2>2 DEF Same, incrementChunkUsage, Chunk
  <2> QED
    BY <2>1, <2>2 DEF Serves, FromUnblockShared, FromUnblock, FromQueue, FromCommon
<1>e. Range(<<>>) = {}
  BY DEF Range
<1>3. CASE FromUnblockShared(id, x)
  <2>1. /\ reg[id].as = "shared" /\ unblockShared # 0 /\ unblockShared' = 0
        /\ common' = common /\ unblock' = unblock /\ QueuesStay
    BY <1>0, <1>3 DEF FromUnblockShared
  <2>2. unblock[id] = 0 /\ reg[id].queue = <<>> /\ common = <<>>
    BY <1>1, <2>1, BlockedAlone
  <2>3. Waiting(id)' = {}
    BY <1>0, <1>e, <2>1, <2>2 DEF Waiting, QueuesStay
  <2>4. \A j \in Ids : Waiting(j)' \subseteq Waiting(j)
    BY <1>0, <1>1, <2>1 DEF Waiting, QueuesStay
  <2> QED
    BY <1>2, <2>3, <2>4
<1>4. CASE FromUnblock(id, x)
  <2>1. /\ reg[id].as = "shared" => unblockShared = 0
        /\ unblock[id] # 0 /\ unblock'[id] = 0 /\ \A j \in Ids : j # id => unblock'[j] = unblock[j]
        /\ common' = common /\ unblockShared' = unblockShared /\ QueuesStay
    BY <1>0, <1>4 DEF FromUnblock
  <2>2. reg[id].queue = <<>> /\ (reg[id].as = "shared" => common = <<>>)
    BY <1>1, <2>1, BlockedAlone
  <2>3. Waiting(id)' = {}
    BY <1>0, <1>1, <1>e, <2>1, <2>2 DEF Waiting, QueuesStay
  <2>4. \A j \in Ids : Waiting(j)' \subseteq Waiting(j)
    BY <1>0, <1>1, <2>1 DEF Waiting, QueuesStay
  <2> QED
    BY <1>2, <2>3, <2>4
<1>5. CASE FromQueue(id, x)
  <2>1. /\ reg[id].as = "shared" => unblockShared = 0
        /\ unblock[id] = 0 /\ unblock' = unblock /\ unblockShared' = unblockShared
        /\ reg[id].queue # <<>> /\ x = Head(reg[id].queue) /\ reg'[id].queue = Tail(reg[id].queue)
        /\ \A j \in Ids : j # id => reg'[j].queue = reg[j].queue
        /\ common' = common
    BY <1>5 DEF FromQueue
  <2>2. PICK q \in Seq(Chunks) : q = reg[id].queue
    BY <1>0
  <2>3. IncreasingIn(mem, q)
    BY <1>1, <2>2 DEF QueueInv, Increasing, IncreasingIn, Msg
  <2>4. q # <<>> /\ x = Head(q) /\ reg'[id].queue = Tail(q)
    BY <2>1, <2>2
  <2>5. \A k \in Range(Tail(q)) : mem[x].msg < mem[k].msg
    BY <2>3, <2>4, HeadOldest
  <2>6. Range(q) = Range(Tail(q)) \cup {x}
    BY <2>4, Ranges
  <2>7. reg[id].as = "shared" => \A k \in Range(common) : mem[x].msg < mem[k].msg
    BY <1>1, <2>2, <2>6 DEF QueueInv, Msg
  <2>8. ASSUME NEW k \in Waiting(id)'
        PROVE  k \in Range(Tail(q)) \/ (reg[id].as = "shared" /\ k \in Range(common))
    BY <1>0, <1>1, <2>1, <2>4 DEF Waiting
  <2>9. \A j \in Ids : Waiting(j)' \subseteq Waiting(j)
    <3>1. \A j \in Ids : Range(reg'[j].queue) \subseteq Range(reg[j].queue)
      BY <2>1, <2>2, <2>4, <2>6
    <3> QED
      BY <1>1, <2>1, <3>1 DEF Waiting
  <2> QED
    BY <1>2, <2>5, <2>7, <2>8, <2>9 DEF Msg
<1>6. CASE FromCommon(id, x)
  <2>1. /\ reg[id].as = "shared" /\ unblockShared = 0 /\ unblock[id] = 0 /\ reg[id].queue = <<>>
        /\ common # <<>> /\ x = Head(common) /\ common' = Tail(common)
        /\ \A j \in CopiedTo(id, x) : reg'[j].queue = Append(reg[j].queue, x)
        /\ \A j \in Ids \ CopiedTo(id, x) : reg'[j].queue = reg[j].queue
        /\ UNCHANGED <<unblock, unblockShared>>
    BY <1>6 DEF FromCommon
  <2>2. \A j \in CopiedTo(id, x) : j \in Ids /\ j # id /\ reg[j].as = "shared"
    BY DEF CopiedTo, SharedInputs, Registered
  <2>3. IncreasingIn(mem, common)
    BY <1>1 DEF QueueInv, Increasing, IncreasingIn, Msg
  <2>4. /\ \A k \in Range(common') : mem[x].msg < mem[k].msg
        /\ Range(common) = Range(common') \cup {x}
    BY <1>0, <2>1, <2>3, HeadOldest, Ranges
  <2>5. reg'[id].queue = <<>>
    BY <2>1, <2>2
  <2>6. \A k \in Waiting(id)' : k \in Range(common')
    BY <1>0, <1>e, <2>1, <2>5 DEF Waiting
  <2>7. ASSUME NEW j \in Ids PROVE Waiting(j)' \subseteq Waiting(j)
    <3>1. CASE j \in CopiedTo(id, x)
      <4>1. Range(reg'[j].queue) = Range(reg[j].queue) \cup {x} /\ reg[j].as = "shared"
        <5>1. PICK q \in Seq(Chunks) : q = reg[j].queue
          BY <1>0
        <5>2. Range(Append(q, x)) = Range(q) \cup {x}
          BY Ranges
        <5> QED
          BY <2>1, <2>2, <3>1, <5>1, <5>2
      <4> QED
        BY <1>1, <2>1, <2>4, <4>1 DEF Waiting
    <3>2. CASE j \notin CopiedTo(id, x)
      <4>1. reg'[j].queue = reg[j].queue
        BY <2>1, <3>2
      <4> QED
        BY <1>1, <2>1, <2>4, <4>1 DEF Waiting
    <3> QED
      BY <3>1, <3>2
  <2> QED
    BY <1>2, <2>4, <2>6, <2>7 DEF Msg
<1> QED
  BY <1>3, <1>4, <1>5, <1>6 DEF Serves

(* What that means for each place, whatever the source                     *)
LEMMA ServesPlaces ==
    ASSUME Inv, Inv', PlaceInv, OrderInv, NEW id \in Ids, NEW x \in Chunks, Serves(id, x)
    PROVE  /\ unblockShared' \in {0, unblockShared}
           /\ \A j \in Ids : unblock'[j] \in {0, unblock[j]}
           /\ PartOf(common', common)
           /\ \A j \in Ids :
                 \/ PartOf(reg'[j].queue, reg[j].queue)
                 \/ /\ reg'[j].queue = Append(reg[j].queue, x) /\ reg[j].as = "shared"
                    /\ x \in Range(common) /\ common # <<>>
                    /\ \A k \in Range(common') : Msg(x) < Msg(k)
<1>0. /\ common \in Seq(Chunks) /\ common' \in Seq(Chunks)
      /\ \A j \in Ids : reg[j].queue \in Seq(Chunks) /\ reg'[j].queue \in Seq(Chunks)
      /\ unblock \in [Ids -> 0..MaxChunks]
  BY PlaceTypes DEF Inv, Types
<1>1. CASE FromUnblockShared(id, x) \/ FromUnblock(id, x)
  BY <1>0, <1>1, PartOfSame DEF FromUnblockShared, FromUnblock, QueuesStay
<1>2. CASE FromQueue(id, x)
  <2>1. /\ UNCHANGED <<unblock, unblockShared, common>>
        /\ reg[id].queue # <<>> /\ reg'[id].queue = Tail(reg[id].queue)
        /\ \A j \in Ids : j # id => reg'[j].queue = reg[j].queue
    BY <1>2 DEF FromQueue
  <2>2. PartOf(reg'[id].queue, reg[id].queue)
    BY <1>0, <2>1, PartOfTail
  <2> QED
    BY <1>0, <2>1, <2>2, PartOfSame
<1>3. CASE FromCommon(id, x)
  <2>1. /\ common # <<>> /\ x = Head(common) /\ common' = Tail(common)
        /\ \A j \in CopiedTo(id, x) : reg'[j].queue = Append(reg[j].queue, x)
        /\ \A j \in Ids \ CopiedTo(id, x) : reg'[j].queue = reg[j].queue
        /\ UNCHANGED <<unblock, unblockShared>>
    BY <1>3 DEF FromCommon
  <2>2. \A j \in CopiedTo(id, x) : reg[j].as = "shared"
    BY DEF CopiedTo, SharedInputs, Registered
  <2>3. IncreasingIn(mem, common)
    BY DEF OrderInv, QueueInv, Increasing, IncreasingIn, Msg
  <2>4. /\ \A k \in Range(common') : mem[x].msg < mem[k].msg
        /\ x \in Range(common)
    BY <1>0, <2>1, <2>3, HeadOldest, Ranges
  <2>5. PartOf(common', common)
    BY <1>0, <2>1, PartOfTail
  <2> QED
    BY <1>0, <2>1, <2>2, <2>4, <2>5, PartOfSame DEF Msg
<1> QED
  BY <1>1, <1>2, <1>3 DEF Serves


(* Serving keeps the places and the queues in order.                       *)
LEMMA ServesQueues ==
    ASSUME Inv, Inv', PlaceInv, OrderInv, NEW id \in Ids, NEW x \in Chunks, Serves(id, x)
    PROVE  PlaceInv' /\ AgeInv' /\ QueueInv'
<1>0. /\ common \in Seq(Chunks) /\ common' \in Seq(Chunks) /\ 0 \notin Chunks
      /\ \A j \in Ids : reg[j].queue \in Seq(Chunks) /\ reg'[j].queue \in Seq(Chunks)
  BY PlaceTypes, ChunksAssumption DEF Chunks
<1>1. /\ UNCHANGED <<setup, shareNext, copyNext, seq>>
      /\ \A j \in Ids : reg'[j].as = reg[j].as
      /\ AgeInv /\ QueueInv
  BY DEF Serves, SendsOne, StaysLinked, OrderInv
<1>2. /\ \A k \in Chunks : Same(k)
      /\ \A j \in Ids : Waiting(j)' \subseteq Waiting(j)
  BY ServesOldest
<1>3. /\ unblockShared' \in {0, unblockShared}
      /\ \A j \in Ids : unblock'[j] \in {0, unblock[j]}
      /\ PartOf(common', common)
      /\ \A j \in Ids :
            \/ PartOf(reg'[j].queue, reg[j].queue)
            \/ /\ reg'[j].queue = Append(reg[j].queue, x) /\ reg[j].as = "shared"
               /\ x \in Range(common) /\ common # <<>>
               /\ \A k \in Range(common') : Msg(x) < Msg(k)
  BY ServesPlaces
<1>4. Range(common') \subseteq Range(common) /\ (common' # <<>> => common # <<>>)
  BY <1>0, <1>3, PartRange
<1>5. PlaceInv'
  <2>1. \A j \in Ids : Waits(j)' = Waits(j) /\ Ready(j)' = Ready(j)
    BY <1>1 DEF Waits, Ready
  <2>2. ASSUME NEW j \in Ids
        PROVE  /\ unblock'[j] # 0 => reg'[j].as # "none" /\ Waits(j)'
               /\ reg'[j].queue # <<>> => reg'[j].as # "none" /\ ~Waits(j)'
               /\ reg'[j].as = "shared" /\ unblockShared' # 0 => unblock'[j] = 0
               /\ Ready(j)' => Waiting(j)' = {}
    <3>1. unblock'[j] # 0 => reg'[j].as # "none" /\ Waits(j)'
      BY <1>1, <1>3, <2>1 DEF PlaceInv
    <3>2. reg'[j].as = "shared" /\ unblockShared' # 0 => unblock'[j] = 0
      BY <1>1, <1>3 DEF PlaceInv
    <3>3. Ready(j)' => Waiting(j)' = {}
      BY <1>2, <2>1 DEF PlaceInv
    <3>4. ASSUME reg'[j].queue # <<>> PROVE reg'[j].as # "none" /\ ~Waits(j)'
      <4>1. CASE PartOf(reg'[j].queue, reg[j].queue)
        <5>1. reg[j].queue # <<>>
          BY <1>0, <3>4, <4>1, PartRange
        <5> QED
          BY <1>1, <2>1, <5>1 DEF PlaceInv
      <4>2. CASE reg[j].as = "shared" /\ common # <<>>
        <5>1. setup.noInputShared = "queueDrop"
          BY <4>2 DEF PlaceInv
        <5>2. LinkInv
          BY DEF Inv
        <5>3. setup.distribution[j] = "shared"
          BY <4>2, <5>2 DEF LinkInv
        <5>4. ~Waits(j)
          BY <5>1, <5>3 DEF Waits
        <5> QED
          BY <1>1, <2>1, <4>2, <5>4
      <4> QED
        BY <1>3, <4>1, <4>2
    <3> QED
      BY <3>1, <3>2, <3>3, <3>4
  <2>3. unblockShared' # 0 => setup'.noInputShared = "wait"
    BY <1>1, <1>3 DEF PlaceInv
  <2>4. common' # <<>> => setup'.noInputShared = "queueDrop" /\ ~setup'.selector
    BY <1>1, <1>4 DEF PlaceInv
  <2> QED
    BY <2>2, <2>3, <2>4 DEF PlaceInv
<1>6. AgeInv'
  <2> SUFFICES ASSUME NEW k \in Chunks,
                      k = unblockShared' \/ k \in Range(common') \/ \E j \in Ids : k \in Waiting(j)'
               PROVE  Msg(k)' \in 1..seq'
    BY DEF AgeInv
  <2>1. k = unblockShared \/ k \in Range(common) \/ \E j \in Ids : k \in Waiting(j)
    BY <1>0, <1>2, <1>3, <1>4
  <2>2. Msg(k) \in 1..seq
    BY <1>1, <2>1 DEF AgeInv
  <2> QED
    BY <1>1, <1>2, <2>2 DEF Msg, Same
<1>7. Increasing(common)'
  <2>1. IncreasingIn(mem, common)
    BY <1>1 DEF QueueInv, Increasing, IncreasingIn, Msg
  <2>2. SameMsgs(mem, mem', common')
    BY <1>0, <1>2, Ranges DEF Same, SameMsgs
  <2>3. IncreasingIn(mem', common')
    BY <1>0, <1>3, <2>1, <2>2, IncreasingPart
  <2> QED
    BY <2>3 DEF Increasing, IncreasingIn, Msg
<1>8. ASSUME NEW j \in Ids
      PROVE  /\ Increasing(reg[j].queue)'
             /\ reg'[j].as = "shared" => \A k \in Range(reg'[j].queue) :
                   \A l \in Range(common') : Msg(k)' < Msg(l)'
  <2>0. PICK q \in Seq(Chunks) : q = reg[j].queue
    BY <1>0
  <2>p. PICK p \in Seq(Chunks) : p = reg'[j].queue
    BY <1>0
  <2>1. /\ IncreasingIn(mem, q)
        /\ reg[j].as = "shared" => \A k \in Range(q) : \A l \in Range(common) : mem[k].msg < mem[l].msg
    BY <1>1, <2>0 DEF QueueInv, Increasing, IncreasingIn, Msg
  <2>2. /\ Range(p) \subseteq Chunks /\ Range(q) \subseteq Chunks
        /\ Range(common') \subseteq Chunks
    BY <1>0, Ranges
  <2>3. CASE PartOf(p, q)
    <3>1. SameMsgs(mem, mem', p)
      BY <1>2, <2>2 DEF Same, SameMsgs
    <3>2. IncreasingIn(mem', p)
      BY <2>1, <2>3, <3>1, IncreasingPart
    <3>3. Range(p) \subseteq Range(q)
      BY <2>3, PartRange
    <3>4. reg'[j].as = "shared" => \A k \in Range(p) :
             \A l \in Range(common') : mem'[k].msg < mem'[l].msg
      BY <1>1, <1>2, <1>4, <2>1, <2>2, <3>3 DEF Same
    <3> QED
      BY <2>p, <3>2, <3>4 DEF Increasing, IncreasingIn, Msg
  <2>4. CASE /\ p = Append(q, x) /\ reg[j].as = "shared" /\ x \in Range(common)
             /\ \A k \in Range(common') : mem[x].msg < mem[k].msg
    <3>1. SameMsgs(mem, mem', q)
      BY <1>2, <2>2 DEF Same, SameMsgs
    <3>2. \A k \in Range(q) : mem[k].msg < mem'[x].msg
      BY <1>2, <2>1, <2>4 DEF Same
    <3>3. IncreasingIn(mem', p)
      BY <2>1, <2>4, <3>1, <3>2, IncreasingAppend
    <3>4. Range(p) = Range(q) \cup {x}
      BY <2>4, Ranges
    <3>5. \A k \in Range(p) : \A l \in Range(common') : mem'[k].msg < mem'[l].msg
      BY <1>2, <1>4, <2>1, <2>2, <2>4, <3>4 DEF Same
    <3> QED
      BY <2>p, <3>3, <3>5 DEF Increasing, IncreasingIn, Msg
  <2> QED
    BY <1>3, <2>0, <2>p, <2>3, <2>4 DEF Msg
<1>9. QueueInv'
  BY <1>7, <1>8 DEF QueueInv
<1> QED
  BY <1>5, <1>6, <1>9

(* Serving keeps connections in order.                                     *)
LEMMA ServesSent ==
    ASSUME Inv, Inv', PlaceInv, OrderInv, NEW id \in Ids, NEW x \in Chunks, Serves(id, x)
    PROVE  SentInv' /\ TurnInv'
<1>0. /\ SentInv /\ TurnInv /\ AgeInv /\ seq \in Nat /\ last \in [Conns -> Nat]
      /\ toClient \in [Conns -> Seq(Nat)] /\ LinkInv
  BY DEF Inv, Types, OrderInv, SentInv
<1>1. /\ reg[id].as # "none" /\ x \in Waiting(id)
      /\ UNCHANGED <<seq, conn, last>>
      /\ \A j \in Ids : reg'[j].as = reg[j].as /\ reg'[j].tcp = reg[j].tcp
  BY DEF Serves, SendsOne, StaysLinked
<1>2. PICK w : /\ inflight' = inflight \cup {w} /\ w.msg = Msg(x) /\ w.tcp = reg[id].tcp
  BY DEF Serves, SendsOne
<1>3. PICK c \in Conns : c = reg[id].tcp
  BY <1>1, PlaceTypes
<1>4. PICK n \in 1..seq : n = Msg(x)
  BY <1>0, <1>1 DEF AgeInv
<1>5. /\ toClient'[c] = IF conn[c].state = "up" THEN Append(toClient[c], n) ELSE toClient[c]
      /\ \A d \in Conns : d # c => toClient'[d] = toClient[d]
  BY <1>3, <1>4 DEF Serves, SendsOne
<1>6. SentBefore(c, n)
  BY <1>0, <1>1, <1>3, <1>4 DEF TurnInv
<1>7. SentInv'
  <2>1. \A d \in Conns : Flow(d)
    BY <1>1, <1>4, <1>5, <1>6 DEF Flow
  <2>2. Flows
    BY <1>0, <1>1, <1>2, <1>4, <2>1 DEF Flows
  <2> QED
    BY <1>0, <2>2, FlowsInOrder
<1>8. ASSUME NEW d \in Conns, d # c PROVE OnlyOlder(d)
  BY <1>1, <1>2, <1>3, <1>5, <1>8 DEF OnlyOlder, SentBefore
<1>9. ASSUME NEW m \in Nat, n < m PROVE SentBefore(c, m)'
  <2>1. last'[c] < m
    <3>1. last[c] \in Nat /\ last[c] < n /\ n \in Nat
      BY <1>0, <1>4, <1>6 DEF SentBefore
    <3> QED
      BY <1>1, <1>9, <3>1
  <2>2. ASSUME NEW i \in 1..Len(toClient'[c]) PROVE toClient'[c][i] < m
    <3>1. PICK q \in Seq(Nat) : q = toClient[c]
      BY <1>0
    <3>2. \A a \in 1..Len(q) : q[a] \in Nat /\ q[a] < n
      BY <1>6, <3>1 DEF SentBefore
    <3>3. toClient'[c] = q \/ toClient'[c] = Append(q, n)
      BY <1>5, <3>1
    <3>4. toClient'[c][i] = n \/ \E a \in 1..Len(q) : toClient'[c][i] = q[a]
      <4>1. CASE toClient'[c] = q
        BY <2>2, <4>1
      <4>2. CASE toClient'[c] = Append(q, n)
        <5>1. /\ Len(Append(q, n)) = Len(q) + 1 /\ Len(q) \in Nat
              /\ \A a \in 1..Len(q) : Append(q, n)[a] = q[a]
              /\ Append(q, n)[Len(q) + 1] = n
          BY <1>4
        <5> QED
          BY <2>2, <4>2, <5>1
      <4> QED
        BY <3>3, <4>1, <4>2
    <3>5. PICK b \in Nat : b = toClient'[c][i] /\ (b = n \/ b < n)
      BY <3>2, <3>4, <1>4
    <3> HIDE <3>1, <3>2, <3>3, <3>4
    <3> QED
      BY <1>9, <3>5, <1>4
  <2>3. ASSUME NEW v \in inflight', v.tcp = c PROVE v.msg < m
    <3>1. v.msg \in Nat
      BY DEF Inv, Types
    <3>2. v.msg = n \/ v.msg < n
      BY <1>2, <1>4, <1>6, <2>3 DEF SentBefore
    <3> QED
      BY <1>4, <1>9, <3>1, <3>2
  <2> QED
    BY <2>1, <2>2, <2>3 DEF SentBefore
<1>10. TurnInv'
  <2> SUFFICES ASSUME NEW j \in Ids, NEW k \in Waiting(j)', reg'[j].as # "none"
               PROVE  SentBefore(reg[j].tcp, Msg(k))'
    BY DEF TurnInv
  <2>1. k \in Waiting(j) /\ k \in Chunks /\ Same(k) /\ (j = id => Msg(x) < Msg(k))
    BY ServesOldest DEF Waiting
  <2>2. PICK m \in Nat : m = Msg(k) /\ m = Msg(k)'
    BY <1>0, <2>1 DEF AgeInv, Same, Msg
  <2>3. CASE j = id
    <3>1. SentBefore(c, m)'
      BY <1>4, <1>9, <2>1, <2>2, <2>3
    <3> QED
      BY <1>1, <1>3, <2>2, <2>3, <3>1 DEF SentBefore
  <2>4. CASE j # id
    <3>1. PICK d \in Conns : d = reg[j].tcp
      BY <1>1, PlaceTypes
    <3>2. d # c
      <4>1. c # 0 /\ d # 0
        BY BoundsAssumption DEF Conns
      <4> QED
        BY <1>0, <1>3, <2>4, <3>1, <4>1 DEF LinkInv
    <3>3. SentBefore(d, m)
      BY <1>0, <1>1, <2>1, <2>2, <3>1 DEF TurnInv
    <3>4. SentBefore(d, m)'
      BY <1>8, <3>2, <3>3 DEF OnlyOlder
    <3> QED
      BY <1>1, <2>2, <3>1, <3>4 DEF SentBefore
  <2> QED
    BY <2>3, <2>4
<1> QED
  BY <1>7, <1>10


(* Only what is sent leaves its place; an end-of-stream that leaves the    *)
(* common queue goes to the queues of the other shared inputs.             *)
LEMMA ServesEos ==
    ASSUME Inv, Inv', NEW id \in Ids, NEW x \in Chunks, Serves(id, x), NEW j \in Ids,
           NEW n, j # id \/ ~HoldsEos(x, n)
    PROVE  EosLeft(j, n)
<1>0. /\ common \in Seq(Chunks) /\ reg[j].queue \in Seq(Chunks)
      /\ unblock \in [Ids -> 0..MaxChunks] /\ 0 \notin Chunks
      /\ reg'[j].as = reg[j].as
  <2>1. common \in Seq(Chunks) /\ reg[j].queue \in Seq(Chunks)
    BY PlaceTypes
  <2>2. unblock \in [Ids -> 0..MaxChunks]
    BY DEF Inv, Types
  <2>3. 0 \notin Chunks
    BY ChunksAssumption DEF Chunks
  <2> QED
    BY <2>1, <2>2, <2>3 DEF Serves, StaysLinked
<1>1. CASE FromUnblockShared(id, x)
  BY <1>0, <1>1 DEF FromUnblockShared, QueuesStay, EosLeft
<1>2. CASE FromUnblock(id, x)
  <2>1. /\ common' = common /\ reg'[j].queue = reg[j].queue /\ x = unblock[id]
        /\ j # id => unblock'[j] = unblock[j]
    BY <1>0, <1>2 DEF FromUnblock, QueuesStay
  <2>2. HoldsEos(unblock[j], n) => unblock'[j] = unblock[j]
    BY <2>1
  <2> QED
    BY <1>0, <2>1, <2>2 DEF EosLeft
<1>3. CASE FromQueue(id, x)
  <2>1. /\ UNCHANGED <<common, unblock>>
        /\ j = id => reg[j].queue # <<>> /\ x = Head(reg[j].queue) /\ reg'[j].queue = Tail(reg[j].queue)
        /\ j # id => reg'[j].queue = reg[j].queue
    BY <1>3 DEF FromQueue
  <2>2. \A k \in Range(reg[j].queue) : HoldsEos(k, n) => k \in Range(reg'[j].queue)
    <3>1. CASE j # id
      BY <2>1, <3>1
    <3>2. CASE j = id
      <4>1. Range(reg[j].queue) = Range(reg'[j].queue) \cup {x}
        BY <1>0, <2>1, <3>2, Ranges
      <4> QED
        BY <3>2, <4>1
    <3> QED
      BY <3>1, <3>2
  <2> QED
    BY <1>0, <2>1, <2>2 DEF EosLeft
<1>4. CASE FromCommon(id, x)
  <2>1. /\ common # <<>> /\ x = Head(common) /\ common' = Tail(common)
        /\ j \in CopiedTo(id, x) => reg'[j].queue = Append(reg[j].queue, x)
        /\ j \notin CopiedTo(id, x) => reg'[j].queue = reg[j].queue
        /\ unblock' = unblock
    BY <1>4 DEF FromCommon
  <2>2. Range(common) = Range(common') \cup {x}
    BY <1>0, <2>1, Ranges
  <2>3. /\ Range(reg[j].queue) \subseteq Range(reg'[j].queue)
        /\ j \in CopiedTo(id, x) => x \in Range(reg'[j].queue)
    <3>1. PICK q \in Seq(Chunks) : q = reg[j].queue
      BY <1>0
    <3>2. Range(Append(q, x)) = Range(q) \cup {x}
      BY Ranges
    <3> QED
      BY <2>1, <3>1, <3>2
  <2>4. ASSUME reg[j].as = "shared", HoldsEos(x, n) PROVE j \in CopiedTo(id, x)
    BY <2>4 DEF CopiedTo, SharedInputs, Registered, HoldsEos
  <2> QED
    BY <1>0, <2>1, <2>2, <2>3, <2>4 DEF EosLeft
<1> QED
  BY <1>1, <1>2, <1>3, <1>4 DEF Serves

(* onInputAvailable() keeps the data in order when it finds some.          *)
LEMMA ServesData ==
    ASSUME Inv, Inv', DataInv, NEW id \in Ids, NEW x \in Chunks, Serves(id, x)
    PROVE  DataInv'
<1>0. /\ StockInv /\ PlaceInv /\ OrderInv /\ DueInv /\ Types /\ Types' /\ LinkInv
      /\ toClient \in [Conns -> Seq(Nat)] /\ mem \in [Chunks -> Chunk]
      /\ conn \in [Conns -> [id : Ids, state : {"free", "up", "broken", "closed", "gone"}]]
  BY DEF DataInv, Inv, Types
<1>1. StockStep
  BY <1>0, StockServes
<1>2. PlaceInv' /\ AgeInv' /\ QueueInv' /\ SentInv' /\ TurnInv'
  BY <1>0, ServesQueues, ServesSent
<1>3. StockInv'
  BY <1>0, <1>1, StockKept
<1>4. /\ UNCHANGED <<conn, eosDue>>
      /\ \A c \in Conns : toClient'[c] =
            IF c = reg[id].tcp /\ conn[c].state = "up" THEN Append(toClient[c], Msg(x))
            ELSE toClient[c]
  BY DEF Serves, SendsOne
<1>5. Msg(x) \in Nat
  BY <1>0, MemoryTypes DEF Msg
<1>6. DueInv'
  <2>1. ASSUME NEW due \in eosDue' PROVE due \in eosDue /\ EosOnWay(due[1], due[2])
    <3>1. due \in eosDue /\ due[1] \in Conns /\ conn[due[1]].state = "up"
      BY <1>0, <1>4 DEF DueInv
    <3>2. PICK c \in Conns : c = due[1]
      BY <3>1
    <3>3. PICK j \in Ids : conn[c].id = j
      BY <1>0
    <3>4. reg[j].tcp = c /\ conn'[c] = conn[c]
      BY <1>0, <1>4, <3>1, <3>2, <3>3 DEF LinkInv
    <3>5. Range(toClient[c]) \subseteq Range(toClient'[c])
      BY <1>0, <1>4, <1>5, MessageRanges
    <3>6. CASE j = id /\ HoldsEos(x, due[2])
      <4>1. due[2] = Msg(x)
        BY <3>6 DEF HoldsEos
      <4>2. toClient'[c] = Append(toClient[c], Msg(x))
        BY <1>4, <3>1, <3>2, <3>4, <3>6
      <4>3. due[2] \in Range(toClient'[c])
        BY <1>0, <1>5, <4>1, <4>2, MessageRanges
      <4> QED
        BY <3>1, <3>2, <3>4, <4>3 DEF EosOnWay
    <3>7. CASE j # id \/ ~HoldsEos(x, due[2])
      <4>1. EosLeft(j, due[2])
        BY <3>7, ServesEos
      <4> QED
        BY <3>1, <3>2, <3>3, <3>4, <3>5, <4>1 DEF EosOnWay
    <3> QED
      BY <3>6, <3>7
  <2> QED
    BY <1>0, <1>1, <2>1, DueStep
<1> QED
  BY <1>2, <1>3, <1>6 DEF DataInv, OrderInv


-----------------------------------------------------------------------------
(* The chunks and messages around an update: what waits already keeps its  *)
(* data and is older than the new message, which chunk x holds if anybody  *)
(* waits for it.                                                           *)
UpdateFacts(x, eos) ==
    /\ \A k \in Chunks : Held(k) => k # x
    /\ \A k \in Chunks : Held(k) /\ Held(k)' => Same(k)
    /\ Held(x)' => mem'[x].msg = seq + 1 /\ (eos => mem'[x].eos)
    /\ \A k \in Chunks : (k \in Range(common) \/ \E j \in Ids : k \in Waiting(j)) =>
          mem[k].msg \in Nat /\ mem[k].msg >= 1 /\ mem[k].msg < seq + 1
    /\ \A j \in Ids : Range(reg[j].queue) \subseteq Waiting(j)
    /\ \A j \in Ids : \A k \in Waiting(j)' : k = x \/ k \in Waiting(j)
    /\ \A j \in Ids : Ready(j) => Waiting(j)' = {}
    /\ \A k \in Range(common') : k \in Range(common) \/ k = x

(* An update is like that.                                                 *)
LEMMA UpdateWaiting ==
    ASSUME Inv, Inv', StockInv, PlaceInv, OrderInv, StockStep, NEW eos \in BOOLEAN, NEW share,
           NEW send, NEW queue, NEW block, Updates(eos, share, send, queue, block),
           NEW x \in Chunks, x = chunkId
    PROVE  UpdateFacts(x, eos)
<1>0. /\ common \in Seq(Chunks) /\ common' \in Seq(Chunks) /\ 0 \notin Chunks
      /\ \A j \in Ids : reg[j].queue \in Seq(Chunks) /\ reg'[j].queue \in Seq(Chunks)
      /\ seq \in Nat /\ unblock \in [Ids -> 0..MaxChunks] /\ Types /\ Types'
  <2>1. 0 \notin Chunks
    BY ChunksAssumption DEF Chunks
  <2>2. seq \in Nat /\ unblock \in [Ids -> 0..MaxChunks] /\ Types /\ Types'
    BY DEF Inv, Types
  <2> QED
    BY <2>1, <2>2, PlaceTypes
<1>1. /\ unblockShared = 0 /\ \A j \in Ids : unblock[j] = 0
      /\ AppendedFor(reg, reg', queue, x) /\ \A j \in Ids : reg'[j].as = reg[j].as
      /\ common' = IF share.common THEN Append(common, x) ELSE common
      /\ unblock' = [j \in Ids |-> IF j \in block THEN x ELSE unblock[j]]
      /\ unblockShared' = IF share.wait THEN x ELSE unblockShared
  BY DEF Updates, Spreads, StaysLinked
<1>2. /\ queue \subseteq Ids /\ block \subseteq Ids
      /\ \A j \in queue \cup block : ~Ready(j)
      /\ share.common \/ share.wait => \A j \in Ids : reg[j].as = "shared" => ~Ready(j)
  BY DEF Updates, Decides
<1>3. \A k \in Chunks : Held(k) => k # x
  BY <1>0, HeldUse
<1>4. \A k \in Chunks : Held(k) /\ Held(k)' => Same(k)
  BY <1>0, DataKept DEF Same
<1>5. ASSUME Held(x)' PROVE mem'[x].msg = seq + 1 /\ (eos => mem'[x].eos)
  <2>1. mem'[x].use >= 1
    BY <1>0, <1>5, HeldUseNext DEF StockStep
  <2>2. PICK n : WrittenTo(x, n, seq + 1, eos)
    BY DEF Updates
  <2> QED
    BY <2>1, <2>2 DEF WrittenTo
<1>6. \A k \in Chunks : (k \in Range(common) \/ \E j \in Ids : k \in Waiting(j)) =>
         mem[k].msg \in Nat /\ mem[k].msg >= 1 /\ mem[k].msg < seq + 1
  <2>1. \A k \in Chunks : (k \in Range(common) \/ \E j \in Ids : k \in Waiting(j)) =>
           mem[k].msg \in 1..seq
    BY DEF OrderInv, AgeInv, Msg
  <2> QED
    BY <1>0, <2>1
<1>7. \A j \in Ids : Range(reg[j].queue) \subseteq Waiting(j)
  BY <1>0, Ranges DEF Waiting
<1>8. Range(common') = Range(common) \cup (IF share.common THEN {x} ELSE {})
  <2>1. Range(Append(common, x)) = Range(common) \cup {x}
    BY <1>0, Ranges
  <2> QED
    BY <1>1, <2>1
<1>9. ASSUME NEW j \in Ids
      PROVE  Range(reg'[j].queue) = Range(reg[j].queue) \cup (IF j \in queue THEN {x} ELSE {})
  <2>1. reg'[j].queue = IF j \in queue THEN Append(reg[j].queue, x) ELSE reg[j].queue
    BY <1>1 DEF AppendedFor
  <2>2. Range(Append(reg[j].queue, x)) = Range(reg[j].queue) \cup {x}
    BY <1>0, Ranges
  <2> QED
    BY <2>1, <2>2
<1>10. ASSUME NEW j \in Ids, NEW k \in Waiting(j)'
       PROVE  /\ k = x \/ k \in Waiting(j)
              /\ k = x => \/ j \in queue \/ j \in block
                          \/ reg[j].as = "shared" /\ (share.common \/ share.wait)
                          \/ k \in Waiting(j)
  <2>1. /\ k \in Chunks
        /\ \/ k = unblock'[j]
           \/ k \in Range(reg'[j].queue)
           \/ reg'[j].as = "shared" /\ (k = unblockShared' \/ k \in Range(common'))
    BY <1>10 DEF Waiting
  <2>2. CASE k = unblock'[j]
    BY <1>0, <1>1, <2>1, <2>2
  <2>3. CASE k \in Range(reg'[j].queue)
    BY <1>7, <1>9, <2>3
  <2>4. CASE reg'[j].as = "shared" /\ (k = unblockShared' \/ k \in Range(common'))
    <3>1. reg[j].as = "shared" /\ (k = x \/ k \in Range(common))
          /\ (k = x => share.wait \/ share.common \/ k \in Range(common))
      BY <1>0, <1>1, <1>8, <2>1, <2>4
    <3> QED
      BY <2>1, <3>1 DEF Waiting
  <2> QED
    BY <2>1, <2>2, <2>3, <2>4
<1>11. ASSUME NEW j \in Ids, Ready(j) PROVE Waiting(j)' = {}
  <2>1. Waiting(j) = {}
    BY <1>11 DEF PlaceInv
  <2>2. ~(j \in queue \/ j \in block \/ (reg[j].as = "shared" /\ (share.common \/ share.wait)))
    BY <1>2, <1>11
  <2> QED
    BY <1>10, <2>1, <2>2
<1>12. \A k \in Range(common') : k \in Range(common) \/ k = x
  BY <1>8
<1> QED
  BY <1>3, <1>4, <1>5, <1>6, <1>7, <1>10, <1>11, <1>12 DEF UpdateFacts


(* An update keeps the places right.                                       *)
LEMMA UpdatePlaces ==
    ASSUME Inv, Inv', PlaceInv, NEW eos \in BOOLEAN, NEW share, NEW send, NEW queue, NEW block,
           Updates(eos, share, send, queue, block), NEW x \in Chunks, x = chunkId,
           UpdateFacts(x, eos)
    PROVE  PlaceInv'
<1>1. /\ unblockShared = 0 /\ \A j \in Ids : unblock[j] = 0
      /\ AppendedFor(reg, reg', queue, x) /\ \A j \in Ids : reg'[j].as = reg[j].as
      /\ common' = IF share.common THEN Append(common, x) ELSE common
      /\ unblock' = [j \in Ids |-> IF j \in block THEN x ELSE unblock[j]]
      /\ unblockShared' = IF share.wait THEN x ELSE unblockShared
      /\ setup' = setup
  BY DEF Updates, Spreads, StaysLinked
<1>2. /\ \A j \in queue : reg[j].as # "none" /\ ~Waits(j)
      /\ \A j \in block : /\ reg[j].as # "none" /\ Waits(j)
                          /\ reg[j].as = "shared" => ~share.wait
      /\ share.common => setup.noInputShared = "queueDrop" /\ ~setup.selector
      /\ share.wait => setup.noInputShared = "wait"
      /\ \A j \in Ids : Ready(j)' => Ready(j)
  BY DEF Updates, Decides
<1>3. \A j \in Ids : Waits(j)' = Waits(j)
  BY <1>1 DEF Waits
<1>4. ASSUME NEW j \in Ids
      PROVE  /\ unblock'[j] # 0 => reg'[j].as # "none" /\ Waits(j)'
             /\ reg'[j].queue # <<>> => reg'[j].as # "none" /\ ~Waits(j)'
             /\ reg'[j].as = "shared" /\ unblockShared' # 0 => unblock'[j] = 0
             /\ Ready(j)' => Waiting(j)' = {}
  <2>1. unblock'[j] # 0 => j \in block
    BY <1>1
  <2>2. unblockShared' # 0 => share.wait
    BY <1>1
  <2>3. reg'[j].queue # <<>> => j \in queue \/ reg[j].queue # <<>>
    BY <1>1 DEF AppendedFor
  <2>4. Ready(j)' => Waiting(j)' = {}
    BY <1>2 DEF UpdateFacts
  <2>5. reg[j].queue # <<>> => reg[j].as # "none" /\ ~Waits(j)
    BY DEF PlaceInv
  <2> QED
    BY <1>1, <1>2, <1>3, <2>1, <2>2, <2>3, <2>4, <2>5
<1>5. unblockShared' # 0 => setup'.noInputShared = "wait"
  BY <1>1, <1>2
<1>6. common' # <<>> => setup'.noInputShared = "queueDrop" /\ ~setup'.selector
  BY <1>1, <1>2 DEF PlaceInv
<1> QED
  BY <1>4, <1>5, <1>6 DEF PlaceInv

(* An update keeps the queues in order: the new message is the newest.     *)
LEMMA UpdateQueues ==
    ASSUME Inv, Inv', OrderInv, NEW eos \in BOOLEAN, NEW share, NEW send, NEW queue, NEW block,
           Updates(eos, share, send, queue, block), NEW x \in Chunks, x = chunkId,
           UpdateFacts(x, eos)
    PROVE  AgeInv' /\ QueueInv'
<1>0. /\ common \in Seq(Chunks) /\ common' \in Seq(Chunks) /\ 0 \notin Chunks /\ seq \in Nat
      /\ \A j \in Ids : reg[j].queue \in Seq(Chunks) /\ reg'[j].queue \in Seq(Chunks)
  <2>1. 0 \notin Chunks
    BY ChunksAssumption DEF Chunks
  <2>2. seq \in Nat
    BY DEF Inv, Types
  <2> QED
    BY <2>1, <2>2, PlaceTypes
<1>1. /\ unblockShared = 0 /\ AppendedFor(reg, reg', queue, x)
      /\ \A j \in Ids : reg'[j].as = reg[j].as
      /\ common' = IF share.common THEN Append(common, x) ELSE common
      /\ unblockShared' = IF share.wait THEN x ELSE unblockShared
      /\ seq' = seq + 1
  BY DEF Updates, Spreads, StaysLinked
<1>2. \A j \in queue : reg[j].as = "shared" => common = <<>> /\ ~share.common
  BY DEF Updates, Decides
<1>3. ASSUME NEW k \in Chunks, k \in Range(common) \/ \E j \in Ids : k \in Waiting(j), Held(k)'
      PROVE  mem'[k].msg = mem[k].msg /\ mem[k].msg \in Nat
             /\ mem[k].msg >= 1 /\ mem[k].msg < seq + 1
  <2>1. Held(k)
    BY <1>3, PlacesHold
  <2> QED
    BY <1>3, <2>1 DEF UpdateFacts, Same
<1>4. AgeInv'
  <2> SUFFICES ASSUME NEW k \in Chunks,
                      k = unblockShared' \/ k \in Range(common') \/ \E j \in Ids : k \in Waiting(j)'
               PROVE  mem'[k].msg \in 1..(seq + 1)
    BY <1>1 DEF AgeInv, Msg
  <2>1. Held(k)'
    BY PlacesHold
  <2>2. k = x \/ k \in Range(common) \/ \E j \in Ids : k \in Waiting(j)
    BY <1>0, <1>1 DEF UpdateFacts
  <2>3. CASE k = x
    <3>1. mem'[k].msg = seq + 1
      BY <2>1, <2>3 DEF UpdateFacts
    <3> QED
      BY <1>0, <3>1
  <2>4. CASE k \in Range(common) \/ \E j \in Ids : k \in Waiting(j)
    BY <1>0, <1>3, <2>1, <2>4
  <2> QED
    BY <2>2, <2>3, <2>4
<1>5. ASSUME NEW q \in Seq(Chunks), IncreasingIn(mem, q),
             \A k \in Range(q) : /\ k \in Chunks
                                 /\ mem'[k].msg = mem[k].msg /\ mem[k].msg < seq + 1,
             NEW p, p = q \/ (p = Append(q, x) /\ mem'[x].msg = seq + 1)
      PROVE  IncreasingIn(mem', p)
  <2>1. SameMsgs(mem, mem', q)
    BY <1>5 DEF SameMsgs
  <2>2. CASE p = q
    BY <1>5, <2>1, <2>2, PartOfSame, IncreasingPart
  <2>3. CASE p = Append(q, x) /\ mem'[x].msg = seq + 1
    BY <1>5, <2>1, <2>3, IncreasingAppend
  <2> QED
    BY <1>5, <2>2, <2>3
<1>6. Range(common) \subseteq Range(common') /\ (share.common => x \in Range(common'))
  BY <1>0, <1>1, Ranges
<1>7. \A k \in Range(common) : /\ k \in Chunks /\ mem'[k].msg = mem[k].msg
                               /\ mem[k].msg \in Nat /\ mem[k].msg < seq + 1
  BY <1>0, <1>3, <1>6, PlacesHold, Ranges
<1>8. Increasing(common)'
  <2>1. IncreasingIn(mem, common)
    BY DEF OrderInv, QueueInv, Increasing, IncreasingIn, Msg
  <2>2. share.common => mem'[x].msg = seq + 1
    BY <1>6, PlacesHold DEF UpdateFacts
  <2>3. common' = common \/ (common' = Append(common, x) /\ mem'[x].msg = seq + 1)
    BY <1>1, <2>2
  <2>4. IncreasingIn(mem', common')
    BY <1>0, <1>5, <1>7, <2>1, <2>3
  <2> QED
    BY <2>4 DEF Increasing, IncreasingIn, Msg
<1>9. ASSUME NEW j \in Ids
      PROVE  /\ Increasing(reg[j].queue)'
             /\ reg'[j].as = "shared" => \A k \in Range(reg'[j].queue) :
                   \A l \in Range(common') : Msg(k)' < Msg(l)'
  <2>1. PICK q \in Seq(Chunks) : q = reg[j].queue
    BY <1>0
  <2>2. PICK p \in Seq(Chunks) : p = reg'[j].queue
    BY <1>0
  <2>3. p = IF j \in queue THEN Append(q, x) ELSE q
    BY <1>1, <2>1, <2>2 DEF AppendedFor
  <2>4. Range(p) = Range(q) \cup (IF j \in queue THEN {x} ELSE {})
    BY <2>3, Ranges
  <2>5. \A k \in Range(q) : /\ k \in Chunks /\ mem'[k].msg = mem[k].msg
                            /\ mem[k].msg \in Nat /\ mem[k].msg < seq + 1
    <3> SUFFICES ASSUME NEW k \in Range(q)
                 PROVE  /\ k \in Chunks /\ mem'[k].msg = mem[k].msg
                        /\ mem[k].msg \in Nat /\ mem[k].msg < seq + 1
      OBVIOUS
    <3>1. k \in Chunks /\ k \in Waiting(j)
      BY <2>1, Ranges DEF UpdateFacts
    <3>2. Held(k)'
      BY <2>2, <2>4, PlacesHold
    <3> QED
      BY <1>3, <3>1, <3>2
  <2>6. j \in queue => mem'[x].msg = seq + 1
    BY <2>2, <2>4, PlacesHold DEF UpdateFacts
  <2>7. /\ IncreasingIn(mem, q)
        /\ reg[j].as = "shared" => \A k \in Range(q) : \A l \in Range(common) : mem[k].msg < mem[l].msg
    BY <2>1 DEF OrderInv, QueueInv, Increasing, IncreasingIn, Msg
  <2>8. IncreasingIn(mem', p)
    BY <1>5, <2>3, <2>5, <2>6, <2>7
  <2>9. ASSUME reg'[j].as = "shared", NEW k \in Range(p), NEW l \in Range(common')
        PROVE  mem'[k].msg < mem'[l].msg
    <3>1. reg[j].as = "shared" /\ (l \in Range(common) \/ (l = x /\ share.common))
      <4>1. Range(common') = Range(common) \cup (IF share.common THEN {x} ELSE {})
        <5>1. Range(Append(common, x)) = Range(common) \cup {x}
          BY <1>0, Ranges
        <5> QED
          BY <1>1, <5>1
      <4> QED
        BY <1>1, <2>9, <4>1
    <3>2. CASE j \in queue
      <4>1. common' = <<>>
        BY <1>1, <1>2, <3>1, <3>2
      <4> QED
        BY <2>9, <4>1, <1>0, Ranges
    <3>3. CASE j \notin queue
      <4>1. k \in Range(q) /\ mem'[k].msg = mem[k].msg /\ mem[k].msg < seq + 1
        BY <2>4, <2>5, <2>9, <3>3
      <4>2. CASE l \in Range(common)
        BY <1>7, <2>7, <3>1, <4>1, <4>2
      <4>3. CASE l = x
        <5>1. mem'[l].msg = seq + 1
          BY <2>9, <4>3, PlacesHold DEF UpdateFacts
        <5> QED
          BY <4>1, <5>1
      <4> QED
        BY <3>1, <4>2, <4>3
    <3> QED
      BY <3>2, <3>3
  <2> QED
    BY <2>2, <2>8, <2>9 DEF Increasing, IncreasingIn, Msg
<1>10. QueueInv'
  BY <1>8, <1>9 DEF QueueInv
<1> QED
  BY <1>4, <1>10


(* An update keeps connections in order: who gets the new message at once  *)
(* waits for nothing.                                                      *)
LEMMA UpdateSent ==
    ASSUME Inv, Inv', OrderInv, NEW eos \in BOOLEAN, NEW share, NEW send, NEW queue, NEW block,
           Updates(eos, share, send, queue, block), NEW x \in Chunks, x = chunkId,
           UpdateFacts(x, eos)
    PROVE  SentInv' /\ TurnInv'
<1>0. /\ SentInv /\ TurnInv /\ seq \in Nat /\ last \in [Conns -> Nat] /\ LinkInv
  BY DEF Inv, Types, OrderInv, SentInv
<1>1. /\ \A c \in Conns : toClient'[c] =
            IF conn[c].state = "up" /\ \E id \in send : reg[id].tcp = c
            THEN Append(toClient[c], seq + 1) ELSE toClient[c]
      /\ \A j \in Ids : reg'[j].as = reg[j].as /\ reg'[j].tcp = reg[j].tcp
      /\ seq' = seq + 1 /\ UNCHANGED <<conn, last>>
  BY DEF Updates, Spreads, StaysLinked
<1>2. send \subseteq Ids /\ \A j \in send : reg[j].as # "none" /\ Ready(j)
  BY DEF Updates, Decides
<1>3. \A w \in inflight' : w \in inflight \/ (w.msg = seq + 1 /\ \E j \in send : w.tcp = reg[j].tcp)
  <2>1. PICK f : Starts(send, f)
    BY DEF Updates
  <2> QED
    BY <2>1 DEF Starts
<1>4. \A c \in Conns : SentBefore(c, seq + 1)
  BY <1>0 DEF SentInv
<1>5. SentInv'
  <2>1. seq + 1 \in 1..seq' /\ seq' >= seq
    BY <1>0, <1>1
  <2>2. \A c \in Conns : Flow(c)
    BY <1>1, <1>4, <2>1 DEF Flow
  <2>3. Flows
    BY <1>0, <1>1, <1>3, <2>1, <2>2 DEF Flows
  <2> QED
    BY <1>0, <2>3, FlowsInOrder
<1>6. TurnInv'
  <2> SUFFICES ASSUME NEW j \in Ids, NEW k \in Waiting(j)', reg'[j].as # "none"
               PROVE  SentBefore(reg[j].tcp, Msg(k))'
    BY DEF TurnInv
  <2>1. j \notin send
    BY <1>2 DEF UpdateFacts
  <2>2. PICK d \in Conns : d = reg[j].tcp /\ d = reg'[j].tcp
    BY <1>1, PlaceTypes
  <2>3. ASSUME NEW i \in send PROVE reg[i].tcp # d
    <3>1. d # 0
      BY BoundsAssumption DEF Conns
    <3>2. i \in Ids /\ i # j
      BY <1>2, <2>1
    <3>3. LinkInv
      BY <1>0
    <3>4. \A l \in Ids : reg[l].tcp # 0 => conn[reg[l].tcp].id = l
      BY <3>3 DEF LinkInv
    <3> QED
      BY <2>2, <3>1, <3>2, <3>4
  <2>4. OnlyOlder(d)
    BY <1>1, <1>3, <2>3 DEF OnlyOlder, SentBefore
  <2>5. k \in Chunks /\ Held(k)' /\ (k = x \/ k \in Waiting(j))
    BY PlacesHold DEF UpdateFacts, Waiting
  <2>6. PICK n \in Nat : n = mem'[k].msg /\ SentBefore(d, n)
    <3>1. CASE k = x
      <4>1. mem'[k].msg = seq + 1 /\ seq + 1 \in Nat
        BY <1>0, <2>5, <3>1 DEF UpdateFacts
      <4> QED
        BY <1>4, <4>1
    <3>2. CASE k \in Waiting(j)
      <4>1. Held(k)
        BY <3>2, PlacesHold
      <4>2. mem'[k].msg = mem[k].msg /\ mem[k].msg \in Nat
        BY <2>5, <3>2, <4>1 DEF UpdateFacts, Same
      <4>3. SentBefore(d, mem[k].msg)
        BY <1>0, <1>1, <2>2, <3>2 DEF TurnInv, Msg
      <4> QED
        BY <4>2, <4>3
    <3> QED
      BY <2>5, <3>1, <3>2
  <2>7. SentBefore(d, n)'
    BY <2>4, <2>6 DEF OnlyOlder
  <2> QED
    BY <2>2, <2>6, <2>7 DEF SentBefore, Msg
<1> QED
  BY <1>5, <1>6

(* An end-of-stream goes to every input that is connected.                 *)
LEMMA UpdateDue ==
    ASSUME Inv, Inv', StockInv, StockStep, DueInv, NEW eos \in BOOLEAN, NEW share, NEW send,
           NEW queue, NEW block, Updates(eos, share, send, queue, block),
           NEW x \in Chunks, x = chunkId, UpdateFacts(x, eos)
    PROVE  DueInv'
<1>0. /\ common \in Seq(Chunks) /\ 0 \notin Chunks /\ seq \in Nat /\ LinkInv
      /\ \A j \in Ids : reg[j].queue \in Seq(Chunks)
      /\ toClient \in [Conns -> Seq(Nat)]
      /\ conn \in [Conns -> [id : Ids, state : {"free", "up", "broken", "closed", "gone"}]]
  <2>1. 0 \notin Chunks
    BY ChunksAssumption DEF Chunks
  <2>2. /\ seq \in Nat /\ LinkInv /\ toClient \in [Conns -> Seq(Nat)]
        /\ conn \in [Conns -> [id : Ids, state : {"free", "up", "broken", "closed", "gone"}]]
    BY DEF Inv, Types
  <2> QED
    BY <2>1, <2>2, PlaceTypes
<1>1. /\ \A j \in Ids : unblock[j] = 0
      /\ AppendedFor(reg, reg', queue, x) /\ \A j \in Ids : reg'[j].as = reg[j].as
      /\ common' = IF share.common THEN Append(common, x) ELSE common
      /\ unblock' = [j \in Ids |-> IF j \in block THEN x ELSE unblock[j]]
      /\ \A c \in Conns : toClient'[c] =
            IF conn[c].state = "up" /\ \E id \in send : reg[id].tcp = c
            THEN Append(toClient[c], seq + 1) ELSE toClient[c]
      /\ conn' = conn
  BY DEF Updates, Spreads, StaysLinked
<1>2. eosDue' = eosDue \cup {<<c, seq + 1>> : c \in {d \in Listeners : eos}}
  BY DEF Updates
<1>3. eos => \A id \in Ids : reg[id].as # "none" =>
         id \in send \cup queue \cup block \/ (reg[id].as = "shared" /\ share.common)
  BY DEF Updates, Decides
<1>4. \A c \in Conns : Range(toClient[c]) \subseteq Range(toClient'[c])
  <2> SUFFICES ASSUME NEW c \in Conns
               PROVE  Range(toClient[c]) \subseteq Range(toClient'[c])
    OBVIOUS
  <2>1. PICK q \in Seq(Nat) : q = toClient[c]
    BY <1>0
  <2>2. PICK m \in Nat : m = seq + 1
    BY <1>0
  <2>3. Range(q) \subseteq Range(Append(q, m))
    BY MessageRanges
  <2>4. toClient'[c] = q \/ toClient'[c] = Append(q, m)
    BY <1>1, <2>1, <2>2
  <2> QED
    BY <2>1, <2>3, <2>4
<1>5. Range(common) \subseteq Range(common') /\ (share.common => x \in Range(common'))
  BY <1>0, <1>1, Ranges
<1>6. ASSUME NEW j \in Ids
      PROVE  /\ Range(reg[j].queue) \subseteq Range(reg'[j].queue)
             /\ j \in queue => x \in Range(reg'[j].queue)
  <2>1. reg'[j].queue = IF j \in queue THEN Append(reg[j].queue, x) ELSE reg[j].queue
    BY <1>1 DEF AppendedFor
  <2>2. Range(Append(reg[j].queue, x)) = Range(reg[j].queue) \cup {x}
    BY <1>0, Ranges
  <2> QED
    BY <2>1, <2>2
<1>7. \A j \in Ids : \A n : EosLeft(j, n)
  BY <1>1, <1>5, <1>6 DEF EosLeft, HoldsEos
<1>9. ASSUME NEW n, n = seq + 1, eos, Held(x)' PROVE HoldsEos(x, n)'
  BY <1>0, <1>9 DEF HoldsEos, Msg, UpdateFacts
<1>10. ASSUME NEW c \in Conns, NEW n, n = seq + 1, eos, conn[c].state = "up",
              reg[conn[c].id].tcp = c
       PROVE  EosNew(c, n)
  <2>1. PICK j \in Ids : j = conn[c].id
    BY <1>0
  <2>2. c # 0
    BY BoundsAssumption DEF Conns
  <2>3. reg[j].as # "none"
    BY <1>0, <1>10, <2>1, <2>2 DEF LinkInv
  <2>4. CASE j \in send
    <3>1. toClient'[c] = Append(toClient[c], n)
      BY <1>1, <1>10, <2>1, <2>4
    <3>2. n \in Range(toClient'[c])
      BY <1>0, <1>10, <3>1, MessageRanges
    <3> QED
      BY <1>1, <1>10, <3>2 DEF EosNew
  <2>5. CASE j \in queue \/ j \in block \/ (reg[j].as = "shared" /\ share.common)
    <3>1. EosWaits(j, n)'
      <4>1. CASE j \in queue
        <5>1. x \in Range(reg'[j].queue) /\ HoldsEos(x, n)'
          BY <1>6, <1>9, <1>10, <4>1, PlacesHold
        <5> QED
          BY <5>1 DEF EosWaits
      <4>2. CASE j \in block
        <5>1. unblock'[j] = x
          BY <1>1, <4>2
        <5>2. HoldsEos(x, n)'
          BY <1>9, <1>10, <5>1, PlacesHold
        <5>3. HoldsEos(unblock[j], n)'
          BY <5>1, <5>2 DEF HoldsEos, Msg
        <5> QED
          BY <5>3 DEF EosWaits
      <4>3. CASE reg[j].as = "shared" /\ share.common
        <5>1. x \in Range(common') /\ HoldsEos(x, n)'
          BY <1>5, <1>9, <1>10, <4>3, PlacesHold
        <5> QED
          BY <1>1, <4>3, <5>1 DEF EosWaits
      <4> QED
        BY <2>5, <4>1, <4>2, <4>3
    <3> QED
      BY <1>1, <1>10, <2>1, <3>1 DEF EosNew
  <2> QED
    BY <1>3, <1>10, <2>3, <2>4, <2>5
<1>11. ASSUME NEW due \in eosDue'
       PROVE  \/ due \in eosDue /\ EosOnWay(due[1], due[2])
              \/ due = <<due[1], due[2]>> /\ EosNew(due[1], due[2])
  <2>1. CASE due \in eosDue
    <3>1. due[1] \in Conns
      BY <2>1 DEF DueInv
    <3> QED
      BY <1>1, <1>4, <1>7, <2>1, <3>1 DEF EosOnWay
  <2>2. CASE due \notin eosDue
    <3>1. PICK c \in Conns : /\ due = <<c, seq + 1>> /\ eos /\ conn[c].state = "up"
                             /\ reg[conn[c].id].tcp = c
      BY <1>2, <2>2 DEF Listeners
    <3>2. PICK n : n = seq + 1
      OBVIOUS
    <3>3. EosNew(c, n)
      BY <1>10, <3>1, <3>2
    <3>4. due[1] = c /\ due[2] = n /\ due = <<due[1], due[2]>>
      BY <3>1, <3>2
    <3> QED
      BY <3>3, <3>4
  <2> QED
    BY <2>1, <2>2
<1> QED
  BY <1>11, DueStep

(* asyncUpdateNoWait() keeps the data in order.                            *)
LEMMA UpdateData ==
    ASSUME Inv, Inv', DataInv, NEW eos \in BOOLEAN, NEW final, chunkId # 0, ReadyForNext,
           asyncUpdateNoWait(eos, final)
    PROVE  DataInv'
<1>0. StockInv /\ PlaceInv /\ OrderInv /\ DueInv /\ Types /\ Types'
  BY DEF DataInv, Inv
<1>1. PICK share, send, queue, block : Updates(eos, share, send, queue, block)
  BY <1>0, UpdateMoves
<1>2. PICK x \in Chunks : x = chunkId
  BY <1>1 DEF Updates
<1>3. StockStep
  BY <1>0, <1>1, StockUpdate
<1>4. UpdateFacts(x, eos)
  BY <1>0, <1>1, <1>2, <1>3, UpdateWaiting
<1>5. StockInv'
  BY <1>0, <1>3, StockKept
<1>6. PlaceInv'
  BY <1>0, <1>1, <1>2, <1>4, UpdatePlaces
<1>7. AgeInv' /\ QueueInv'
  BY <1>0, <1>1, <1>2, <1>4, UpdateQueues
<1>8. SentInv' /\ TurnInv'
  BY <1>0, <1>1, <1>2, <1>4, UpdateSent
<1>9. DueInv'
  BY <1>0, <1>1, <1>2, <1>3, <1>4, UpdateDue
<1> QED
  BY <1>5, <1>6, <1>7, <1>8, <1>9 DEF DataInv, OrderInv


-----------------------------------------------------------------------------
(* At the beginning only the writer has a chunk.                           *)
LEMMA StockInit ==
    ASSUME Init, Types
    PROVE  StockInv
<1>1. /\ inflight = {} /\ unblockShared = 0 /\ common = <<>> /\ chunkId = 1 /\ writer = "idle"
      /\ \A id \in Ids : unblock[id] = 0 /\ reg[id].queue = <<>>
      /\ leaked = [k \in Chunks |-> 0]
  BY DEF Init, Nobody
<1>2. IsFiniteSet(inflight) /\ leaked \in [Chunks -> Nat] /\ 1 \in Chunks /\ 0 \notin Chunks
  BY <1>1, FS_EmptySet, ChunksAssumption DEF Chunks
<1>3. \A k \in Chunks : mem[k].use = IF k = 1 THEN 1 ELSE 0
  <2>1. mem = [[k \in Chunks |-> FreeChunk] EXCEPT ![1] = [FreeChunk EXCEPT !.use = 1]]
    BY DEF Init, registerChunk
  <2> QED
    BY <1>2, <2>1 DEF FreeChunk
<1>4. ASSUME NEW k \in Chunks PROVE Users(k) = IF k = 1 THEN 1 ELSE 0
  <2>1. WritesOf(inflight, k) = {}
    BY <1>1 DEF WritesOf
  <2>2. BlockedBy(unblock, k) = {}
    BY <1>1, <1>2 DEF BlockedBy
  <2>3. QueueEntries(reg, k) = {}
    BY <1>1 DEF QueueEntries
  <2>4. Occurrences(common, k) = 0
    BY <1>1, OccurrencesEmpty
  <2>5. One(k, chunkId) = (IF k = 1 THEN 1 ELSE 0) /\ One(k, unblockShared) = 0 /\ leaked[k] = 0
    BY <1>1, <1>2 DEF One
  <2>6. Users(k) = Sum(inflight, unblock, chunkId, unblockShared, common, leaked[k], reg, k)
    BY <1>2, UsersSum
  <2>7. Cardinality({}) = 0
    BY FS_EmptySet
  <2> QED
    BY <2>1, <2>2, <2>3, <2>4, <2>5, <2>6, <2>7 DEF Sum
<1>5. ChunkAccounting
  BY <1>1, <1>3, <1>4 DEF ChunkAccounting
<1> QED
  BY <1>1, <1>2, <1>3, <1>5 DEF StockInv

(* Nothing waits and nothing is sent.                                      *)
LEMMA DataInit ==
    ASSUME Init
    PROVE  Inv /\ DataInv
<1>0. Inv /\ Types
  BY InvInit DEF Inv
<1>1. /\ inflight = {} /\ unblockShared = 0 /\ common = <<>> /\ shareNext = <<>> /\ copyNext = {}
      /\ \A id \in Ids : unblock[id] = 0 /\ reg[id].queue = <<>> /\ reg[id].as = "none"
      /\ \A c \in Conns : toClient[c] = <<>> /\ last[c] = 0
      /\ last = [c \in Conns |-> 0] /\ seq = 0 /\ eosDue = {}
  BY DEF Init, Nobody
<1>2. 0 \notin Chunks /\ Range(<<>>) = {}
  BY ChunksAssumption DEF Chunks, Range
<1>3. \A id \in Ids : Waiting(id) = {}
  BY <1>1, <1>2 DEF Waiting
<1>4. StockInv
  BY <1>0, StockInit
<1>5. PlaceInv
  BY <1>1, <1>3 DEF PlaceInv
<1>6. SentInv
  <2>1. InOrder
    <3> SUFFICES ASSUME NEW c \in Conns
                 PROVE  LET received == <<last[c]>> \o toClient[c]
                        IN  \A i \in 1..(Len(received) - 1) : received[i] < received[i + 1]
      BY DEF InOrder
    <3>1. last[c] = 0 /\ toClient[c] = <<>>
      BY <1>1
    <3>2. <<0>> \in Seq(Nat)
      OBVIOUS
    <3>3. <<0>> \o <<>> = <<0>>
      BY <3>2
    <3>4. <<last[c]>> \o toClient[c] = <<0>>
      BY <3>1, <3>3
    <3> QED
      BY <3>4
  <2>2. \A c \in Conns : SentBefore(c, seq + 1)
    BY <1>1 DEF SentBefore
  <2> QED
    BY <1>1, <2>1, <2>2 DEF SentInv
<1>7. TurnInv
  BY <1>3 DEF TurnInv
<1>8. AgeInv
  BY <1>1, <1>2, <1>3 DEF AgeInv
<1>9. QueueInv
  BY <1>1, <1>2 DEF QueueInv, Increasing
<1>10. DueInv
  BY <1>1 DEF DueInv
<1> QED
  BY <1>0, <1>4, <1>5, <1>6, <1>7, <1>8, <1>9, <1>10 DEF DataInv, OrderInv

(* Every step keeps what is stated of the data, too.                       *)
LEMMA DataStep ==
    ASSUME Inv, DataInv, [Next]_vars
    PROVE  Inv' /\ DataInv'
<1>0. Inv' /\ Types
  BY InvStep DEF Inv
<1>1. CASE Server
  <2>1. CASE \E c \in Conns : readUpdate(c)
    BY <1>0, <2>1, CallsData
  <2>2. CASE \E w \in inflight : writeComplete(w)
    BY <1>0, <2>2, WriteCompleteData
  <2>3. CASE \E c \in Conns : onInputGone(c)
    BY <1>0, <2>3, GoneData
  <2>4. CASE \E id \in Ids : onInputAvailable(id)
    <3>1. PICK id \in Ids : onInputAvailable(id)
      BY <2>4
    <3>2. CASE unblockByShared(id) \/ unblockById(id) \/ sendQueued(id) \/ sendCommon(id)
      <4>1. StockInv /\ OrderInv
        BY DEF DataInv
      <4>2. PICK x : Serves(id, x)
        BY <3>2, <4>1, AvailableMoves
      <4>3. x \in Chunks
        BY <4>2 DEF Serves
      <4> QED
        BY <1>0, <4>2, <4>3, ServesData
    <3>3. CASE \E c \in {d \in calling : conn[d].id = id} : postpone(c)
      <4>1. \E c \in Conns : postpone(c)
        BY <1>0, <3>3 DEF Types
      <4> QED
        BY <1>0, <4>1, CallsData
    <3>4. CASE availableButGone(id) \/ becomeReady(id)
      BY <1>0, <3>4, CallsData
    <3> QED
      BY <3>1, <3>2, <3>3, <3>4 DEF onInputAvailable
  <2> QED
    BY <1>1, <2>1, <2>2, <2>3, <2>4 DEF Server
<1>2. CASE update \/ signalEndOfStream \/ writeAndSignalEos
  <2>1. chunkId # 0 /\ ReadyForNext
    BY <1>0, <1>2 DEF Types, update, signalEndOfStream, writeAndSignalEos, WriterMay
  <2>2. \/ asyncUpdateNoWait(FALSE, FALSE)
        \/ asyncUpdateNoWait(TRUE, FALSE)
        \/ asyncUpdateNoWait(FALSE, TRUE)
    BY <1>2 DEF update, signalEndOfStream, writeAndSignalEos
  <2> QED
    BY <1>0, <2>1, <2>2, UpdateData
<1>3. CASE sendFinalSignal
  <2>1. CASE chunkId = 0
    BY <1>0, <1>3, <2>1, CallsData
  <2>2. CASE chunkId # 0
    <3>1. ReadyForNext /\ asyncUpdateNoWait(TRUE, FALSE)
      BY <1>3, <2>2 DEF sendFinalSignal
    <3> QED
      BY <1>0, <2>2, <3>1, UpdateData
  <2> QED
    BY <2>1, <2>2
<1>4. CASE ensureValidChunkId
  BY <1>0, <1>4, UpdateChunkIdData, DropIndividualData, DropCommonData, CallsData
     DEF ensureValidChunkId
<1>5. CASE Clients
  BY <1>0, <1>5, HelloData, NetworkData DEF Clients
<1>6. CASE UNCHANGED vars
  BY <1>0, <1>6, CallsData
<1> QED
  BY <1>1, <1>2, <1>3, <1>4, <1>5, <1>6 DEF Next, Writer

(* What is stated of chunks, queues, the order of messages and the ends of *)
(* streams holds in all reachable states, whatever the inputs' settings.   *)
THEOREM DataInvariance == Spec => [](Inv /\ DataInv)
<1>1. Init => Inv /\ DataInv
  BY DataInit
<1>2. (Inv /\ DataInv) /\ [Next]_vars => (Inv /\ DataInv)'
  BY DataStep
<1> QED
  BY <1>1, <1>2, PTL DEF Spec

(* Memory's usage count of a chunk is the number of places that will still *)
(* release it: no chunk is recycled while a queue, a handler or a write    *)
(* has it, and none is lost but those that eraseOldChannel() leaks.        *)
THEOREM ChunksAccounted == Spec => []ChunkAccounting
<1>1. Inv /\ DataInv => ChunkAccounting
  BY DEF DataInv, StockInv
<1> QED
  BY <1>1, DataInvariance, PTL

(* What a connection is sent arrives in the order in which it was written, *)
(* whether asyncUpdateNoWait() sent it at once, an unblock handler or one  *)
(* of the queues did, and also if ensureValidChunkId() dropped some of it. *)
THEOREM DeliveredInOrder == Spec => []InOrder
<1>1. Inv /\ DataInv => InOrder
  BY DEF DataInv, OrderInv, SentInv
<1> QED
  BY <1>1, DataInvariance, PTL

(* "EOS must never get lost": an input that is connected when the stream   *)
(* ends has the end-of-stream on its way until it has read it; the only    *)
(* exception is an end-of-stream for which finalSignal found no chunk.     *)
THEOREM EosKept == Spec => []EosNeverLost
<1>1. Inv /\ DataInv => EosNeverLost
  <2> SUFFICES ASSUME DueInv, NEW due \in eosDue
               PROVE  LET id == conn[due[1]].id
                          Holds(k) == k # 0 /\ mem[k].eos /\ mem[k].msg = due[2]
                      IN  \/ due[2] = 0
                          \/ due[2] \in Range(toClient[due[1]])
                          \/ Holds(unblock[id])
                          \/ \E k \in Range(reg[id].queue) \cup Range(common) : Holds(k)
    BY DEF DataInv, EosNeverLost
  <2>1. \/ due[2] = 0
        \/ due[2] \in Range(toClient[due[1]])
        \/ EosWaits(conn[due[1]].id, due[2])
    BY DEF DueInv
  <2> QED
    BY <2>1 DEF EosWaits, HoldsEos, Msg
<1> QED
  BY <1>1, DataInvariance, PTL
=============================================================================
