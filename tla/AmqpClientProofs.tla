-------------------------- MODULE AmqpClientProofs --------------------------
(***************************************************************************)
(* Proofs about AmqpClient, for any sets of subscriptions and exchanges,   *)
(* any limit of postponed messages and any number of messages, calls and   *)
(* faults: types, the order of publishing, and that what counts as         *)
(* subscribed is bound.                                                    *)
(***************************************************************************)
EXTENDS AmqpClient, FiniteSetTheorems, SequenceTheorems, TLAPS

-----------------------------------------------------------------------------
(* Types of what is executed.  Handlers are nested: parts of handlers come *)
(* from some set T that contains the parts of its members as well.         *)

Repeated == {"asyncSubscribe", "asyncUnsubscribe"}
Whys == {"success", "retry", "other", "error state", "connection lost", "not sent"}
Plain == {"createChannel", "reviveIfReconnected", "doSubscribePending", "publishPostponed", "fail"}

Parts(T, n) ==
    [do : {"tell"}, n : 1..MaxCalls]
        \cup [do : {"one done"}, g : 1..n, s : Subscriptions]
        \cup [do : Repeated, s : Subscriptions, hs : Seq(T)]

Operations(n) ==
    [op : {"open"}, ch : 1..n, x : {0}]
        \cup [op : {"queue", "consume"}, ch : 0..n, x : {0}]
        \cup [op : {"declare", "bind", "unbind"}, ch : 0..n, x : Subscriptions]
        \cup [op : {"declare to publish", "bind to publish"}, ch : 0..n, x : Exchanges]

Calls(T) ==
    [do : Repeated, s : Subscriptions, hs : Seq(T)]
        \cup [do : {"asyncUnsubscribeAll"}, hs : Seq(T)]

Items(T, n) ==
    Calls(T)
        \cup [do : {"handler"}, h : T, ok : BOOLEAN]
        \cup [do : {"reply"}, op : Operations(n), why : Whys]
        \cup [do : {"channelError"}, ch : 0..n, why : Whys]
        \cup [do : Plain]
        \cup [do : {"moveSubscriptionState"}, s : Subscriptions]
        \cup [do : {"informReconnection"}, ok : BOOLEAN]
        \cup [do : {"channelCreated"}, ch : {0}]

Publishes == [do : {"asyncPublish"}, m : 1..MaxMessages]

Typed(T) ==
    /\ T \subseteq Parts(T, Len(groups))
    /\ groups \in Seq([left : SUBSET Subscriptions, ok : BOOLEAN, hs : Seq(T)])
    /\ handlers \in [Subscriptions -> Seq(T)]
    /\ ops \in Seq(Operations(created))
    /\ posts \in Seq(Items(T, created) \cup Publishes)
    /\ \/ now \in Seq(Items(T, created))
       \/ now \in [1..1 -> Publishes]

Types == TypeOK /\ \E T : Typed(T)

-----------------------------------------------------------------------------
(* Order of messages                                                       *)

IsPublish(x) == x.do = "asyncPublish"

(* Messages are published in order, then come the postponed ones, the one  *)
(* being treated and those that are posted                                 *)
OrderInv ==
    /\ \A i, j \in 1..Len(posts) :
          IsPublish(posts[i]) /\ IsPublish(posts[j]) /\ i < j => posts[i].m < posts[j].m
    /\ \A i \in 1..Len(posts) : IsPublish(posts[i]) => posts[i].m <= messages
    /\ \A i \in 1..Len(now) : IsPublish(now[i]) =>
          /\ now[i].m <= messages
          /\ \A j \in 1..Len(posts) : IsPublish(posts[j]) => now[i].m < posts[j].m
    /\ \A i, j \in 1..Len(postponed) : i < j => postponed[i] < postponed[j]
    /\ \A i \in 1..Len(postponed) :
          /\ postponed[i] <= messages
          /\ \A j \in 1..Len(posts) : IsPublish(posts[j]) => postponed[i] < posts[j].m
          /\ \A j \in 1..Len(now) : IsPublish(now[j]) => postponed[i] < now[j].m
    /\ PublishedInOrder
    /\ \A i \in 1..Len(published) :
          /\ published[i] <= messages
          /\ \A j \in 1..Len(posts) : IsPublish(posts[j]) => published[i] < posts[j].m
          /\ \A j \in 1..Len(now) : IsPublish(now[j]) => published[i] < now[j].m
          /\ \A j \in 1..Len(postponed) : published[i] < postponed[j]

-----------------------------------------------------------------------------
(* Preparation of the channel: what stands for it is its token             *)

Prepares(o) == o.op \in {"open", "queue", "consume"}

IsToken(x) ==
    \/ x.do \in {"createChannel", "channelCreated"}
    \/ x.do = "reply" /\ Prepares(x.op)

TokenInOps == \E i \in 1..Len(ops) : Prepares(ops[i])
TokenInNow == \E i \in 1..Len(now) : IsToken(now[i])
TokenInPosts == \E i \in 1..Len(posts) : IsToken(posts[i])

(* There is at most one, and only while the channel is being prepared      *)
TokenInv ==
    /\ \A i, j \in 1..Len(ops) : Prepares(ops[i]) /\ Prepares(ops[j]) => i = j
    /\ \A i, j \in 1..Len(now) : IsToken(now[i]) /\ IsToken(now[j]) => i = j
    /\ \A i, j \in 1..Len(posts) : IsToken(posts[i]) /\ IsToken(posts[j]) => i = j
    /\ pending <= 1
    /\ TokenInOps => ~TokenInNow /\ ~TokenInPosts /\ pending = 0
    /\ TokenInNow => ~TokenInPosts /\ pending = 0
    /\ TokenInPosts => pending = 0
    /\ TokenInOps \/ TokenInNow \/ TokenInPosts \/ pending > 0 =>
          channelStatus \notin {"REQUEST", "READY"} /\ preparation # "none"

-----------------------------------------------------------------------------
(* Work for a subscription: an operation, its answer, or the next step     *)

Works(o, s) == o.op \in {"declare", "bind", "unbind"} /\ o.x = s

(* The status of a subscription that has this operation under way          *)
StatusOf(op) == CASE op = "declare" -> "DECLARE_EXCHANGE"
                  [] op = "bind" -> "BIND_QUEUE"
                  [] OTHER -> "UNBIND_QUEUE"

Moves(x, s) == x.do = "moveSubscriptionState" /\ x.s = s
Answers(x, s) == x.do = "reply" /\ Works(x.op, s)
IsWork(x, s) == Moves(x, s) \/ Answers(x, s)

(* There is at most one for each subscription, it matches its status, and  *)
(* it is of the current channel; failures come only from a channel that is *)
(* not usable any more                                                     *)
WorkInv(s) ==
    /\ \A i, j \in 1..Len(ops) : Works(ops[i], s) /\ Works(ops[j], s) => i = j
    /\ \A i, j \in 1..Len(now) : IsWork(now[i], s) /\ IsWork(now[j], s) => i = j
    /\ \A i \in 1..Len(ops), j \in 1..Len(now) : ~(Works(ops[i], s) /\ IsWork(now[j], s))
    /\ \A i \in 1..Len(ops) : Works(ops[i], s) =>
          /\ channelStatus = "READY" /\ ops[i].ch = channel
          /\ subscriptions[s] = StatusOf(ops[i].op)
    /\ \A i \in 1..Len(now) : Answers(now[i], s) =>
          /\ channelStatus = "READY" /\ now[i].op.ch = channel
          /\ subscriptions[s] = StatusOf(now[i].op.op)
          /\ now[i].why # "success" => channel \notin usable
    /\ \A i \in 1..Len(now) : Moves(now[i], s) =>
          channelStatus = "READY" /\ subscriptions[s] \in {"CHECK_EXCHANGE", "BIND_QUEUE"}
    /\ channelStatus # "READY" => subscriptions[s] \in {"none", "PENDING"}

(* The broker has the binding of a subscription that is READY, and none    *)
(* for one that is not                                                     *)
BindingInv(s) ==
    channel \in usable =>
        /\ subscriptions[s] = "READY" => <<channel, s>> \in bound
        /\ <<channel, s>> \in bound => subscriptions[s] \in {"READY", "UNBIND_QUEUE"}

(* A channel that is opened has no bindings yet                            *)
FreshInv(s) ==
    /\ \A i \in 1..Len(ops) : ops[i].op = "open" => <<ops[i].ch, s>> \notin bound
    /\ \A i \in 1..Len(now) : now[i].do = "reply" /\ now[i].op.op = "open" =>
          <<now[i].op.ch, s>> \notin bound

(* What is posted to the io context, and what announces a reconnection     *)
Posted == {"asyncSubscribe", "asyncUnsubscribe", "asyncUnsubscribeAll", "asyncPublish",
           "informReconnection", "reviveIfReconnected", "channelCreated"}
Informs == {"informReconnection", "reviveIfReconnected"}
Announcing == Informs \cup {"createChannel", "channelCreated"}

(* Nothing else is under way where a reconnection is announced, pending    *)
(* subscriptions are treated when the channel is READY, and errors are     *)
(* reported of channels that are not usable any more                       *)
CalmInv ==
    /\ (\E i \in 1..Len(now) : now[i].do \in Informs) => \A i \in 1..Len(now) : now[i].do \in Announcing
    /\ \A i \in 1..Len(now) : now[i].do = "doSubscribePending" => channelStatus = "READY"
    /\ \A i \in 1..Len(now) : now[i].do = "channelError" => now[i].ch \notin usable
    /\ \A i \in 1..Len(now) : now[i].do = "fail" => usable = {}
    /\ \A i \in 1..Len(posts) : posts[i].do \in Posted

(* All of this                                                             *)
TidyInv ==
    /\ TokenInv
    /\ CalmInv
    /\ \A s \in Subscriptions : WorkInv(s) /\ BindingInv(s) /\ FreshInv(s)

(* It holds until a revival overlaps with something else                   *)
BoundInv == "overlap" \notin mishaps => TidyInv

-----------------------------------------------------------------------------
(* Lemmas about sequences and types                                        *)

(* A sequence that is longer by one item is one still                      *)
LEMMA Appended ==
    ASSUME NEW S, NEW q \in Seq(S), NEW x \in S
    PROVE  /\ Append(q, x) \in Seq(S) /\ Len(Append(q, x)) = Len(q) + 1
           /\ \A i \in 1..Len(q) : Append(q, x)[i] = q[i]
           /\ Append(q, x)[Len(q) + 1] = x
OBVIOUS

(* The same for an item of any type                                        *)
LEMMA AppendedAny ==
    ASSUME NEW S, NEW q \in Seq(S), NEW x
    PROVE  /\ Len(q) \in Nat /\ Len(Append(q, x)) = Len(q) + 1
           /\ \A i \in 1..Len(q) : Append(q, x)[i] = q[i]
           /\ Append(q, x)[Len(q) + 1] = x
OBVIOUS

(* What is appended to a sequence                                          *)
LEMMA ConcatAny ==
    ASSUME NEW S, NEW R, NEW q \in Seq(S), NEW r \in Seq(R)
    PROVE  \A j \in (Len(q) + 1)..Len(q \o r) :
              j - Len(q) \in 1..Len(r) /\ (q \o r)[j] = r[j - Len(q)]
<1>1. PICK B : B = S \cup R
  OBVIOUS
<1>2. q \in Seq(B) /\ r \in Seq(B)
  BY <1>1
<1>3. QED
  BY <1>2

(* What is put in front of the rest of a sequence                          *)
LEMMA Replaced ==
    ASSUME NEW S, NEW q \in Seq(S), q # <<>>, NEW items \in Seq(S)
    PROVE  /\ items \o Tail(q) \in Seq(S)
           /\ Len(items \o Tail(q)) = Len(items) + Len(q) - 1
           /\ \A j \in 1..Len(items) : (items \o Tail(q))[j] = items[j]
           /\ \A j \in (Len(items) + 1)..(Len(items) + Len(q) - 1) :
                 (items \o Tail(q))[j] = q[j - Len(items) + 1]
<1>1. Len(q) \in Nat \ {0}
  BY EmptySeq
<1>2. Tail(q) \in Seq(S) /\ Len(Tail(q)) = Len(q) - 1 /\ \A j \in 1..(Len(q) - 1) : Tail(q)[j] = q[j + 1]
  BY <1>1
<1>3. QED
  BY <1>1, <1>2

(* The shortest sequences                                                  *)
LEMMA Short ==
    ASSUME NEW S
    PROVE  /\ <<>> \in Seq(S) /\ Len(<<>>) = 0
           /\ \A x \in S : <<x>> \in Seq(S) /\ Len(<<x>>) = 1 /\ <<x>>[1] = x
OBVIOUS

(* A sequence of one                                                       *)
LEMMA Single ==
    ASSUME NEW S, NEW q \in [1..1 -> S]
    PROVE  /\ q \in Seq(S) /\ Len(q) = 1 /\ q[1] \in S /\ Head(q) = q[1]
           /\ Tail(q) = <<>>
<1>0. q = <<q[1]>> /\ q[1] \in S
  OBVIOUS
<1>1. q \in Seq(S) /\ Len(q) = 1
  <2>1. PICK x \in S : q = <<x>>
    BY <1>0
  <2>2. QED
    BY <2>1, Short
<1>2. Tail(q) \in Seq(S) /\ Len(Tail(q)) = 0
  BY <1>1, SMTT(30)
<1>3. Tail(q) = <<>>
  BY <1>2, EmptySeq
<1>4. QED
  BY <1>1, <1>3

(* What is put in front of a sequence                                      *)
LEMMA Prefixed ==
    ASSUME NEW S, NEW q \in Seq(S), NEW x \in S
    PROVE  /\ <<x>> \o q \in Seq(S) /\ Len(<<x>> \o q) = Len(q) + 1
           /\ (<<x>> \o q)[1] = x
           /\ \A j \in 1..Len(q) : (<<x>> \o q)[j + 1] = q[j]
<1>1. <<x>> \in Seq(S) /\ Len(<<x>>) = 1 /\ <<x>>[1] = x
  OBVIOUS
<1>2. QED
  BY <1>1

(* Sequences over a set are sequences over a larger one                    *)
LEMMA LargerSeq ==
    ASSUME NEW S, NEW U, S \subseteq U
    PROVE  Seq(S) \subseteq Seq(U)
OBVIOUS

(* More parts of handlers and more channels make more items                *)
LEMMA ItemsGrow ==
    ASSUME NEW T, NEW U, T \subseteq U, NEW n \in Nat, NEW m \in Nat, n <= m
    PROVE  /\ Items(T, n) \subseteq Items(U, m)
           /\ Operations(n) \subseteq Operations(m)
           /\ Parts(T, n) \subseteq Parts(U, m)
<1>1. Seq(T) \subseteq Seq(U)
  BY LargerSeq
<1> DEFINE L1 == 1..n
           L0 == 0..n
           M1 == 1..m
           M0 == 0..m
<1>0. L1 \subseteq M1 /\ L0 \subseteq M0
  OBVIOUS
<1>2. Operations(n) \subseteq Operations(m)
  <2> HIDE DEF L1, L0, M1, M0
  <2>1. /\ [op : {"open"}, ch : L1, x : {0}] \subseteq [op : {"open"}, ch : M1, x : {0}]
        /\ [op : {"queue", "consume"}, ch : L0, x : {0}]
              \subseteq [op : {"queue", "consume"}, ch : M0, x : {0}]
        /\ [op : {"declare", "bind", "unbind"}, ch : L0, x : Subscriptions]
              \subseteq [op : {"declare", "bind", "unbind"}, ch : M0, x : Subscriptions]
        /\ [op : {"declare to publish", "bind to publish"}, ch : L0, x : Exchanges]
              \subseteq [op : {"declare to publish", "bind to publish"}, ch : M0, x : Exchanges]
    BY <1>0
  <2>2. QED
    BY <2>1, Zenon DEF Operations, L1, L0, M1, M0
<1>3. Parts(T, n) \subseteq Parts(U, m)
  <2> HIDE DEF L1, L0, M1, M0
  <2>1. [do : {"one done"}, g : L1, s : Subscriptions]
            \subseteq [do : {"one done"}, g : M1, s : Subscriptions]
    BY <1>0
  <2>2. [do : Repeated, s : Subscriptions, hs : Seq(T)]
            \subseteq [do : Repeated, s : Subscriptions, hs : Seq(U)]
    BY <1>1
  <2>3. QED
    BY <2>1, <2>2, Zenon DEF Parts, L1, M1
<1>4. Calls(T) \subseteq Calls(U)
  BY <1>1 DEF Calls
<1>5. Items(T, n) \subseteq Items(U, m)
  BY <1>2, <1>4 DEF Items
<1>6. QED
  BY <1>2, <1>3, <1>5

(* What is known of an item by what it does                                *)
LEMMA ItemFacts ==
    ASSUME NEW T, NEW n \in Nat, NEW x \in Items(T, n)
    PROVE  /\ x.do # "asyncPublish"
           /\ x.do \in Repeated => x.s \in Subscriptions /\ x.hs \in Seq(T)
                                     /\ x = [do |-> x.do, s |-> x.s, hs |-> x.hs]
           /\ x.do = "asyncUnsubscribeAll" => x.hs \in Seq(T)
           /\ x.do = "handler" => x.h \in T /\ x.ok \in BOOLEAN
           /\ x.do = "reply" => x.op \in Operations(n) /\ x.why \in Whys
           /\ x.do = "channelError" => x.ch \in 0..n /\ x.why \in Whys
           /\ x.do = "moveSubscriptionState" => x.s \in Subscriptions
           /\ x.do = "informReconnection" => x.ok \in BOOLEAN
  BY DEF Items, Calls, Repeated, Plain

(* What is known of an operation by its name                               *)
LEMMA OperationFacts ==
    ASSUME NEW n \in Nat, NEW o \in Operations(n)
    PROVE  /\ o.ch \in 0..n
           /\ o.op = "open" => o.ch \in 1..n
           /\ o.op \in {"declare", "bind", "unbind"} => o.x \in Subscriptions
           /\ o.op \in {"declare to publish", "bind to publish"} => o.x \in Exchanges
<1> DEFINE L1 == 1..n
           L0 == 0..n
<1>1. L1 \subseteq L0
  OBVIOUS
<1>2. o \in [op : {"open"}, ch : L1, x : {0}]
        \cup [op : {"queue", "consume"}, ch : L0, x : {0}]
        \cup [op : {"declare", "bind", "unbind"}, ch : L0, x : Subscriptions]
        \cup [op : {"declare to publish", "bind to publish"}, ch : L0, x : Exchanges]
  BY DEF Operations
<1> HIDE DEF L1, L0
<1>3. /\ o.ch \in L0
      /\ o.op = "open" => o.ch \in L1
      /\ o.op \in {"declare", "bind", "unbind"} => o.x \in Subscriptions
      /\ o.op \in {"declare to publish", "bind to publish"} => o.x \in Exchanges
  BY <1>1, <1>2
<1>4. QED
  BY <1>3 DEF L1, L0

(* Items that are made                                                     *)
LEMMA ItemsMade ==
    ASSUME NEW T, NEW n \in Nat
    PROVE  /\ \A w \in Plain : Do(w) \in Items(T, n)
           /\ \A o \in Operations(n), w \in Whys : Reply(o, w) \in Items(T, n)
           /\ \A c \in 0..n, w \in Whys : ChannelError(c, w) \in Items(T, n)
           /\ \A b \in BOOLEAN : Inform(b) \in Items(T, n)
           /\ ChannelResult(0) \in Items(T, n)
           /\ \A s \in Subscriptions : Move(s) \in Items(T, n)
           /\ \A s \in Subscriptions, hs \in Seq(T) :
                 Subscribe(s, hs) \in Items(T, n) /\ Unsubscribe(s, hs) \in Items(T, n)
           /\ \A hs \in Seq(T) : UnsubscribeAll(hs) \in Items(T, n)
           /\ \A h \in T, b \in BOOLEAN : [do |-> "handler", h |-> h, ok |-> b] \in Items(T, n)
  BY DEF Items, Calls, Repeated, Plain, Do, Reply, ChannelError, Inform, ChannelResult, Move,
         Subscribe, Unsubscribe, UnsubscribeAll

(* Calling a handler                                                       *)
LEMMA CallTyped ==
    ASSUME NEW T, NEW n \in Nat, NEW hs \in Seq(T), NEW b \in BOOLEAN
    PROVE  Call(hs, b) \in Seq(Items(T, n)) /\ Len(Call(hs, b)) = Len(hs)
           /\ \A i \in 1..Len(hs) : Call(hs, b)[i].do = "handler"
<1>1. Len(hs) \in Nat /\ \A i \in 1..Len(hs) : hs[i] \in T
  OBVIOUS
<1>2. \A i \in 1..Len(hs) : [do |-> "handler", h |-> hs[i], ok |-> b] \in Items(T, n)
  BY <1>1, ItemsMade
<1>3. QED
  BY <1>1, <1>2 DEF Call

(* The order in which a finite set is treated                              *)
LEMMA OrderTyped ==
    ASSUME NEW S, IsFiniteSet(S)
    PROVE  /\ SetToSeq(S) \in Seq(S)
           /\ \A i, j \in 1..Len(SetToSeq(S)) : SetToSeq(S)[i] = SetToSeq(S)[j] => i = j
<1>1. Cardinality(S) \in Nat /\ ExistsBijection(1..Cardinality(S), S)
  BY FS_CardinalityType
<1>3. \E f \in [1..Cardinality(S) -> S] : IsInjective(f)
  BY <1>1 DEF ExistsBijection, Bijection, Injection
<1>4. SetToSeq(S) \in [1..Cardinality(S) -> S] /\ IsInjective(SetToSeq(S))
  BY <1>3 DEF SetToSeq
<1>5. QED
  BY <1>1, <1>4 DEF IsInjective

-----------------------------------------------------------------------------
(* Types are kept                                                          *)

(* Calls of asyncPublish() are neither added nor taken                     *)
Quiet ==
    /\ Len(posts) \in Nat /\ Len(posts') \in Nat /\ Len(posts) <= Len(posts')
    /\ \A i \in 1..Len(posts) : posts'[i] = posts[i]
    /\ \A i \in (Len(posts) + 1)..Len(posts') : ~IsPublish(posts'[i])
    /\ now' = now \/ \A i \in 1..Len(now') : ~IsPublish(now'[i])

(* The types of what is executed are kept if what is new has them          *)
LEMMA Frame ==
    ASSUME TypeOK, NEW T, Typed(T), NEW U, T \subseteq U,
           U \subseteq Parts(U, Len(groups')),
           created' \in Nat, created <= created',
           groups' \in Seq([left : SUBSET Subscriptions, ok : BOOLEAN, hs : Seq(U)]),
           handlers' \in [Subscriptions -> Seq(U)],
           ops' \in Seq(Operations(created')),
           NEW extra \in Seq(Items(U, created')), posts' = posts \o extra,
           now' = now \/ now' \in Seq(Items(U, created'))
    PROVE  Typed(U)' /\ Quiet
<1> DEFINE I == Items(T, created)
           J == Items(U, created')
           P == I \cup Publishes
           Q == J \cup Publishes
<1>1. I \subseteq J
  BY ItemsGrow DEF TypeOK
<1>2. posts \in Seq(P)
  BY DEF Typed
<1>3. extra \in Seq(J) /\ posts' = posts \o extra
  OBVIOUS
<1>4. now' \in Seq(J) \/ now' \in [1..1 -> Publishes]
  <2>1. now \in Seq(I) \/ now \in [1..1 -> Publishes]
    BY DEF Typed
  <2>2. Seq(I) \subseteq Seq(J)
    BY <1>1, LargerSeq
  <2>3. QED
    BY <2>1, <2>2
<1>5. \A x \in J : ~IsPublish(x)
  BY ItemFacts DEF IsPublish
<1>6. /\ posts' \in Seq(Q) /\ Len(posts) \in Nat /\ Len(posts') = Len(posts) + Len(extra)
      /\ Len(extra) \in Nat
      /\ \A i \in 1..Len(posts) : posts'[i] = posts[i]
      /\ \A i \in (Len(posts) + 1)..Len(posts') : posts'[i] \in J
  <2> HIDE DEF I, J
  <2>1. P \subseteq Q /\ J \subseteq Q
    BY <1>1
  <2> HIDE DEF P, Q
  <2>2. posts \in Seq(Q) /\ extra \in Seq(Q)
    BY <1>2, <1>3, <2>1, LargerSeq
  <2>3. posts' \in Seq(Q) /\ Len(posts') = Len(posts) + Len(extra)
    BY <1>3, <2>2
  <2>4. \A i \in 1..Len(posts) : posts'[i] = posts[i]
    BY <1>3, <2>2
  <2>5. \A i \in (Len(posts) + 1)..Len(posts') : posts'[i] = extra[i - Len(posts)]
                                                   /\ i - Len(posts) \in 1..Len(extra)
    BY <1>3, <2>2, <2>3
  <2>6. \A k \in 1..Len(extra) : extra[k] \in J
    BY <1>3
  <2>7. QED
    BY <2>2, <2>3, <2>4, <2>5, <2>6
<1>7. Quiet
  <2>1. now' = now \/ \A i \in 1..Len(now') : ~IsPublish(now'[i])
    <3>1. CASE now' = now
      BY <3>1
    <3>2. CASE now' \in Seq(J)
      <4> HIDE DEF J
      <4>1. \A i \in 1..Len(now') : now'[i] \in J
        BY <3>2
      <4>2. QED
        BY <4>1, <1>5
    <3>3. QED
      BY <3>1, <3>2
  <2> HIDE DEF J
  <2>2. \A i \in (Len(posts) + 1)..Len(posts') : ~IsPublish(posts'[i])
    BY <1>5, <1>6
  <2>3. QED
    BY <2>1, <2>2, <1>6 DEF Quiet
<1>8. Typed(U)'
  <2> HIDE DEF I
  <2>1. QED
    BY <1>4, <1>6, Zenon DEF Typed, J, Q
<1>9. QED
  BY <1>7, <1>8

(* Most steps add no parts of handlers and no channels                     *)
LEMMA PlainFrame ==
    ASSUME TypeOK, NEW T, Typed(T), UNCHANGED <<created, groups, posts>>,
           handlers' \in [Subscriptions -> Seq(T)], ops' \in Seq(Operations(created)),
           now' = now \/ now' \in Seq(Items(T, created))
    PROVE  Typed(T)' /\ Quiet
<1>1. <<>> \in Seq(Items(T, created')) /\ posts' = posts \o <<>>
  <2>1. posts \in Seq(Items(T, created) \cup Publishes)
    BY DEF Typed
  <2>2. QED
    BY <2>1
<1>2. created' \in Nat /\ created <= created'
  BY DEF TypeOK
<1>3. /\ T \subseteq Parts(T, Len(groups'))
      /\ groups' \in Seq([left : SUBSET Subscriptions, ok : BOOLEAN, hs : Seq(T)])
      /\ ops' \in Seq(Operations(created'))
      /\ now' = now \/ now' \in Seq(Items(T, created'))
  BY DEF Typed
<1>4. QED
  BY <1>1, <1>2, <1>3, Frame

(* The function that is executed has its type                              *)
LEMMA Running ==
    ASSUME TypeOK, NEW T, Typed(T), now # <<>>, Head(now).do # "asyncPublish"
    PROVE  /\ created \in Nat
           /\ now \in Seq(Items(T, created)) /\ Len(now) \in Nat \ {0}
           /\ Head(now) = now[1] /\ Head(now) \in Items(T, created)
<1>1. created \in Nat
  BY DEF TypeOK
<1>2. now \in Seq(Items(T, created))
  <2>1. SUFFICES ASSUME now \in [1..1 -> Publishes]
                 PROVE  FALSE
    BY DEF Typed
  <2>2. now \in Seq(Publishes) /\ Len(now) = 1
    BY <2>1
  <2>3. Head(now) \in Publishes
    BY <2>2
  <2>4. QED
    BY <2>3 DEF Publishes
<1>3. Len(now) \in Nat \ {0}
  BY <1>2, EmptySeq
<1>4. QED
  BY <1>1, <1>2, <1>3

(* What follows the function that is executed                              *)
LEMMA Following ==
    ASSUME TypeOK, NEW T, Typed(T), now # <<>>,
           NEW items \in Seq(Items(T, created)), Then(items)
    PROVE  now' \in Seq(Items(T, created))
<1>1. CASE now \in Seq(Items(T, created))
  BY <1>1, Replaced DEF Then
<1>2. CASE now \in [1..1 -> Publishes]
  <2>1. Tail(now) = <<>>
    BY <1>2, Single
  <2>2. items \o <<>> = items
    OBVIOUS
  <2>3. QED
    BY <2>1, <2>2 DEF Then
<1>3. QED
  BY <1>1, <1>2 DEF Typed

-----------------------------------------------------------------------------
(* Types: steps of the connection, the library and the broker              *)

(* A step of these keeps types and publishes nothing                       *)
KeepsTypes == TypeOK' /\ (\E U : Typed(U)') /\ Quiet /\ UNCHANGED <<postponed, published, messages>>

(* The types of AmqpConnection                                             *)
ConnectionTypes ==
    /\ state \in {"Unknown", "Started", "Ready", "Error", "Lost"}
    /\ urlIndex \in 0..(Urls - 1) /\ onComplete \in Nat /\ pending \in Nat
    /\ timers \in Nat /\ broken \in BOOLEAN /\ faults \in 0..MaxFaults
    /\ created \in Nat /\ usable \subseteq 1..created

(* They are a part of TypeOK                                               *)
LEMMA HasConnectionTypes == TypeOK => ConnectionTypes
BY DEF TypeOK, ConnectionTypes

(* The variables that only AmqpClient has                                  *)
LEMMA ClientRests ==
    ASSUME TypeOK, UNCHANGED <<client, observed, calls>>,
           ConnectionTypes', created <= created'
    PROVE  /\ TypeOK' /\ UNCHANGED <<postponed, published, messages>>
           /\ UNCHANGED <<groups, handlers>>
<1>1. channel' \in 0..created' /\ guarded' \in 0..created'
  <2>1. /\ channel \in 0..created /\ guarded \in 0..created /\ created \in Nat /\ created' \in Nat
        /\ channel' = channel /\ guarded' = guarded
    BY DEF TypeOK, ConnectionTypes, client
  <2>2. QED
    BY <2>1
<1>2. bound' \subseteq (0..created') \X Subscriptions
  <2>0. created \in Nat /\ created' \in Nat
    BY DEF TypeOK, ConnectionTypes
  <2>1. 0..created \subseteq 0..created' /\ bound' = bound
    BY <2>0 DEF observed
  <2> DEFINE L == 0..created
             M == 0..created'
  <2>2. bound \subseteq L \X Subscriptions
    BY DEF TypeOK
  <2> HIDE DEF L, M
  <2>3. bound' \subseteq M \X Subscriptions
    BY <2>1, <2>2 DEF L, M
  <2>4. QED
    BY <2>3 DEF M
<1>3. QED
  BY <1>1, <1>2 DEF TypeOK, ConnectionTypes, client, observed, calls

(* Repetitions                                                             *)
LEMMA RepeatTyped ==
    ASSUME NEW S, NEW n \in Nat, NEW x \in S
    PROVE  /\ Repeat(n, x) \in Seq(S) /\ Len(Repeat(n, x)) = n
           /\ \A i \in 1..n : Repeat(n, x)[i] = x
BY DEF Repeat

(* callOnComplete()                                                        *)
LEMMA CompleteTypes ==
    ASSUME TypeOK, NEW T, NEW b \in BOOLEAN, callOnComplete(b)
    PROVE  now' \in Seq(Items(T, created))
<1> DEFINE x == IF b THEN Do("createChannel") ELSE ChannelResult(0)
<1>1. Inform(b) \in Items(T, created) /\ x \in Items(T, created)
  BY ItemsMade DEF TypeOK, Plain
<1>2. onComplete \in Nat /\ pending \in Nat
  BY DEF TypeOK
<1>3. now' = Repeat(onComplete, Inform(b)) \o Repeat(pending, x)
  BY DEF callOnComplete
<1> HIDE DEF x
<1>4. QED
  BY <1>1, <1>2, <1>3, RepeatTyped

(* onReady()                                                               *)
LEMMA OnReadyTypes ==
    ASSUME TypeOK, NEW T, Typed(T), onReady, UNCHANGED <<client, observed, calls>>
    PROVE  KeepsTypes
<1>1. now' \in Seq(Items(T, created))
  BY CompleteTypes DEF onReady
<1>2. /\ state' = "Ready" /\ onComplete' = 0 /\ pending' = 0
      /\ UNCHANGED <<urlIndex, timers, broken, created, usable, ops, faults, posts>>
  BY DEF onReady, callOnComplete, library
<1>3. TypeOK' /\ UNCHANGED <<postponed, published, messages, groups, handlers>>
  <2>1. ConnectionTypes' /\ created <= created'
    BY <1>2, HasConnectionTypes DEF ConnectionTypes
  <2>2. QED
    BY <2>1, ClientRests
<1>4. Typed(T)' /\ Quiet
  <2>1. handlers' \in [Subscriptions -> Seq(T)] /\ ops' \in Seq(Operations(created))
    BY <1>2, <1>3 DEF Typed
  <2>2. QED
    BY <1>1, <1>2, <1>3, <2>1, PlainFrame
<1>5. QED
  BY <1>3, <1>4 DEF KeepsTypes

(* connectFails()                                                          *)
LEMMA ConnectFailsTypes ==
    ASSUME TypeOK, NEW T, Typed(T), connectFails, UNCHANGED <<client, observed, calls>>
    PROVE  KeepsTypes
<1>1. now' = now \/ now' \in Seq(Items(T, created))
  BY CompleteTypes DEF connectFails
<1>2. UNCHANGED <<timers, broken, created, usable, ops, posts>>
  BY DEF connectFails
<1>3. TypeOK' /\ UNCHANGED <<postponed, published, messages, groups, handlers>>
  <2>0. ConnectionTypes
    BY HasConnectionTypes
  <2>1. state' \in {"Unknown", "Started", "Ready", "Error", "Lost"}
        /\ onComplete' \in Nat /\ pending' \in Nat
    <3>1. onComplete \in Nat /\ pending \in Nat
          /\ state \in {"Unknown", "Started", "Ready", "Error", "Lost"}
      BY <2>0 DEF ConnectionTypes
    <3>2. CASE urlIndex + 1 < Urls
      BY <3>1, <3>2 DEF connectFails
    <3>3. CASE ~(urlIndex + 1 < Urls)
      BY <3>1, <3>3 DEF connectFails, callOnComplete
    <3>4. QED
      BY <3>2, <3>3
  <2>2. urlIndex' \in 0..(Urls - 1)
    <3>1. urlIndex \in 0..(Urls - 1) /\ Urls \in Nat \ {0}
      BY <2>0, ConnectionAssumption DEF ConnectionTypes
    <3>2. CASE urlIndex + 1 < Urls
      <4>1. urlIndex' = urlIndex + 1
        BY <3>2 DEF connectFails
      <4>2. QED
        BY <3>1, <3>2, <4>1
    <3>3. CASE ~(urlIndex + 1 < Urls)
      <4>1. urlIndex' = 0
        BY <3>3 DEF connectFails
      <4>2. QED
        BY <3>1, <4>1
    <3>4. QED
      BY <3>2, <3>3
  <2>3. faults' \in 0..MaxFaults
    BY HasConnectionTypes, ConnectionAssumption DEF connectFails, Fault, ConnectionTypes
  <2>4. ConnectionTypes' /\ created <= created'
    BY <1>2, <2>1, <2>2, <2>3, HasConnectionTypes DEF ConnectionTypes
  <2>5. QED
    BY <2>4, ClientRests
<1>4. Typed(T)' /\ Quiet
  <2>1. handlers' \in [Subscriptions -> Seq(T)] /\ ops' \in Seq(Operations(created))
    BY <1>2, <1>3 DEF Typed
  <2>2. QED
    BY <1>1, <1>2, <1>3, <2>1, PlainFrame
<1>5. QED
  BY <1>3, <1>4 DEF KeepsTypes

(* onLost(), triggerReconnection()                                         *)
LEMMA OnLostTypes ==
    ASSUME TypeOK, NEW T, Typed(T), onLost, UNCHANGED <<client, observed, calls>>
    PROVE  KeepsTypes
<1>1. /\ state' = "Lost" /\ timers' = timers + 1 /\ broken' = FALSE
      /\ UNCHANGED <<urlIndex, onComplete, pending, created, usable, ops, faults, posts, now>>
  BY DEF onLost, library, context
<1>2. TypeOK' /\ UNCHANGED <<postponed, published, messages, groups, handlers>>
  <2>0. ConnectionTypes
    BY HasConnectionTypes
  <2>1a. timers' \in Nat /\ created <= created'
    BY <1>1, <2>0 DEF ConnectionTypes
  <2>1b. state' \in {"Unknown", "Started", "Ready", "Error", "Lost"} /\ broken' \in BOOLEAN
    BY <1>1
  <2>1. ConnectionTypes' /\ created <= created'
    BY <1>1, <2>0, <2>1a, <2>1b, Zenon DEF ConnectionTypes
  <2>2. QED
    BY <2>1, ClientRests
<1>3. Typed(T)' /\ Quiet
  <2>1. handlers' \in [Subscriptions -> Seq(T)] /\ ops' \in Seq(Operations(created))
    BY <1>1, <1>2 DEF Typed
  <2>2. QED
    BY <1>1, <1>2, <2>1, PlainFrame
<1>4. QED
  BY <1>2, <1>3 DEF KeepsTypes

(* A function that is posted                                               *)
LEMMA PostedTypes ==
    ASSUME TypeOK, NEW T, Typed(T), NEW x \in Items(T, created), posts' = Append(posts, x),
           UNCHANGED <<created, groups, handlers, ops>>,
           now' = now \/ now' \in Seq(Items(T, created))
    PROVE  Typed(T)' /\ Quiet
<1>1. posts' = posts \o <<x>> /\ <<x>> \in Seq(Items(T, created'))
  <2>1. posts \in Seq(Items(T, created) \cup Publishes)
    BY DEF Typed
  <2>2. QED
    BY <2>1
<1>2. created' \in Nat /\ created <= created'
  BY DEF TypeOK
<1>3. /\ T \subseteq Parts(T, Len(groups'))
      /\ groups' \in Seq([left : SUBSET Subscriptions, ok : BOOLEAN, hs : Seq(T)])
      /\ ops' \in Seq(Operations(created'))
      /\ handlers' \in [Subscriptions -> Seq(T)]
      /\ now' = now \/ now' \in Seq(Items(T, created'))
  BY DEF Typed
<1>4. QED
  BY <1>1, <1>2, <1>3, Frame

(* asyncConnect()                                                          *)
LEMMA AsyncConnectTypes ==
    ASSUME TypeOK, NEW T, Typed(T), asyncConnect, UNCHANGED <<client, observed, calls>>
    PROVE  KeepsTypes
<1>1. UNCHANGED <<urlIndex, pending, created, usable, ops, faults, now>>
  BY DEF asyncConnect, library
<1>2. TypeOK' /\ UNCHANGED <<postponed, published, messages, groups, handlers>>
  <2>0. onComplete \in Nat /\ timers \in Nat /\ broken \in BOOLEAN
        /\ state \in {"Unknown", "Started", "Ready", "Error", "Lost"}
    BY HasConnectionTypes DEF ConnectionTypes
  <2>1. /\ state' \in {"Unknown", "Started", "Ready", "Error", "Lost"}
        /\ onComplete' \in Nat /\ timers' \in Nat /\ broken' \in BOOLEAN
    <3>1. onComplete' \in Nat /\ timers' \in Nat
      <4>1. timers > 0 /\ timers' = timers - 1
        BY DEF asyncConnect
      <4>2. onComplete' \in {onComplete, onComplete + 1, 1}
        BY DEF asyncConnect
      <4>3. QED
        BY <2>0, <4>1, <4>2
    <3>2. state' \in {"Unknown", "Started", "Ready", "Error", "Lost"} /\ broken' \in BOOLEAN
      BY <2>0 DEF asyncConnect
    <3>3. QED
      BY <3>1, <3>2
  <2>2. ConnectionTypes' /\ created <= created'
    BY <1>1, <2>1, HasConnectionTypes DEF ConnectionTypes
  <2>3. QED
    BY <2>2, ClientRests
<1>3. Typed(T)' /\ Quiet
  <2>1. handlers' \in [Subscriptions -> Seq(T)] /\ ops' \in Seq(Operations(created))
    BY <1>1, <1>2 DEF Typed
  <2>2. CASE posts' = posts
    BY <2>2, <1>1, <1>2, <2>1, PlainFrame
  <2>3. CASE posts' = Append(posts, Inform(TRUE))
    <3>1. Inform(TRUE) \in Items(T, created)
      BY ItemsMade DEF TypeOK
    <3>2. QED
      BY <2>3, <3>1, <1>1, <1>2, PostedTypes
  <2>4. QED
    BY <2>2, <2>3 DEF asyncConnect
<1>4. QED
  BY <1>2, <1>3 DEF KeepsTypes

(* A step that changes at most the timers, channels and operations         *)
LEMMA LibraryTypes ==
    ASSUME TypeOK, NEW T, Typed(T), UNCHANGED <<client, observed, calls>>,
           state' \in {"Unknown", "Started", "Ready", "Error", "Lost"}, broken' \in BOOLEAN,
           timers' \in Nat, faults' \in 0..MaxFaults, usable' \subseteq 1..created,
           UNCHANGED <<urlIndex, onComplete, pending, created, posts>>,
           ops' \in Seq(Operations(created)), now' \in Seq(Items(T, created))
    PROVE  KeepsTypes
<1>0. ConnectionTypes
  BY HasConnectionTypes
<1>1. ConnectionTypes' /\ created <= created'
  <2>1. created <= created'
    BY <1>0 DEF ConnectionTypes
  <2>2. QED
    BY <1>0, <2>1, Zenon DEF ConnectionTypes
<1>2. TypeOK' /\ UNCHANGED <<postponed, published, messages, groups, handlers>>
  BY <1>1, ClientRests
<1>3. Typed(T)' /\ Quiet
  <2>1. handlers' \in [Subscriptions -> Seq(T)]
    BY <1>2 DEF Typed
  <2>2. QED
    BY <1>2, <2>1, PlainFrame
<1>4. QED
  BY <1>2, <1>3 DEF KeepsTypes

(* informReconnection()                                                    *)
LEMMA InformTypes ==
    ASSUME TypeOK, NEW T, Typed(T), informReconnection(registered),
           UNCHANGED <<client, observed, calls>>
    PROVE  KeepsTypes
<1>0. ConnectionTypes /\ ops \in Seq(Operations(created))
  BY HasConnectionTypes DEF Typed
<1>1. now # <<>> /\ Head(now).do # "asyncPublish"
  BY DEF informReconnection, Runs
<1>2. PICK items \in Seq(Items(T, created)) : now' = items \o Tail(now)
  <2>1. <<>> \in Seq(Items(T, created)) /\ <<Do("reviveIfReconnected")>> \in Seq(Items(T, created))
    BY <1>0, ItemsMade DEF Plain, ConnectionTypes
  <2>2. now' = Tail(now) => now' = <<>> \o Tail(now)
    <3>1. now \in Seq(Items(T, created))
      BY <1>1, Running
    <3>2. Tail(now) \in Seq(Items(T, created))
      BY <1>1, <3>1
    <3>3. QED
      BY <3>2
  <2>3. \/ now' = Tail(now)
        \/ now' = <<>> \o Tail(now)
        \/ now' = <<Do("reviveIfReconnected")>> \o Tail(now)
    BY DEF informReconnection
  <2>4. QED
    BY <2>1, <2>2, <2>3
<1>3. now' \in Seq(Items(T, created))
  BY <1>1, <1>2, Following DEF Then
<1>4. timers' \in Nat
  <2>1. timers' \in {timers, timers + 1}
    BY DEF informReconnection
  <2>2. QED
    BY <1>0, <2>1 DEF ConnectionTypes
<1>5. UNCHANGED <<state, urlIndex, onComplete, pending, broken, created, usable, ops, faults, posts>>
  BY DEF informReconnection, library
<1>6. /\ state' \in {"Unknown", "Started", "Ready", "Error", "Lost"} /\ broken' \in BOOLEAN
      /\ faults' \in 0..MaxFaults /\ usable' \subseteq 1..created
      /\ ops' \in Seq(Operations(created))
  BY <1>0, <1>5 DEF ConnectionTypes
<1>7. QED
  BY <1>3, <1>4, <1>5, <1>6, LibraryTypes

(* An operation that is answered, and the others                           *)
LEMMA AnsweredOps ==
    ASSUME TypeOK, NEW T, Typed(T), NEW i \in 1..Len(ops)
    PROVE  /\ ops[i] \in Operations(created)
           /\ OpsWithout(i) \in Seq(Operations(created)) /\ Len(OpsWithout(i)) = Len(ops) - 1
           /\ \A j \in 1..(Len(ops) - 1) : OpsWithout(i)[j] = IF j < i THEN ops[j] ELSE ops[j + 1]
<1>1. ops \in Seq(Operations(created)) /\ Len(ops) \in Nat
  BY DEF Typed
<1>2. \A j \in 1..Len(ops) : ops[j] \in Operations(created)
  BY <1>1
<1>3. OpsWithout(i) = [j \in 1..(Len(ops) - 1) |-> IF j < i THEN ops[j] ELSE ops[j + 1]]
  BY DEF OpsWithout
<1>4. \A j \in 1..(Len(ops) - 1) : (IF j < i THEN ops[j] ELSE ops[j + 1]) \in Operations(created)
  BY <1>1, <1>2
<1>5. QED
  BY <1>1, <1>2, <1>3, <1>4

(* An operation succeeds                                                   *)
LEMMA SuccessTypes ==
    ASSUME TypeOK, NEW T, Typed(T), NEW i \in 1..Len(ops), replySuccess(i),
           UNCHANGED <<client, observed, calls>>
    PROVE  KeepsTypes
<1>0. ConnectionTypes
  BY HasConnectionTypes
<1>1. ops[i] \in Operations(created) /\ ops' \in Seq(Operations(created))
  BY AnsweredOps DEF replySuccess
<1>2. usable' \subseteq 1..created
  <2>1. ops[i].op = "open" => ops[i].ch \in 1..created
    BY <1>0, <1>1, OperationFacts DEF ConnectionTypes
  <2>2. QED
    BY <1>0, <2>1 DEF replySuccess, ConnectionTypes
<1>3. now' \in Seq(Items(T, created))
  <2>1. Reply(ops[i], "success") \in Items(T, created)
    BY <1>0, <1>1, ItemsMade DEF Whys, ConnectionTypes
  <2>2. QED
    BY <2>1 DEF replySuccess
<1>4. UNCHANGED <<state, urlIndex, onComplete, pending, timers, broken, created, faults, posts>>
  BY DEF replySuccess, connection
<1>5. /\ state' \in {"Unknown", "Started", "Ready", "Error", "Lost"} /\ broken' \in BOOLEAN
      /\ faults' \in 0..MaxFaults /\ timers' \in Nat
  BY <1>0, <1>4 DEF ConnectionTypes
<1>6. QED
  BY <1>1, <1>2, <1>3, <1>4, <1>5, LibraryTypes

(* An operation fails                                                      *)
LEMMA ErrorTypes ==
    ASSUME TypeOK, NEW T, Typed(T), NEW i \in 1..Len(ops), NEW why \in {"retry", "other"},
           replyError(i, why), UNCHANGED <<client, observed, calls>>
    PROVE  KeepsTypes
<1>0. ConnectionTypes
  BY HasConnectionTypes
<1>1. ops[i] \in Operations(created) /\ ops' \in Seq(Operations(created))
  BY AnsweredOps DEF replyError
<1>2. usable' \subseteq 1..created
  BY <1>0 DEF replyError, ConnectionTypes
<1>3. now' \in Seq(Items(T, created))
  <2>1. ops[i].ch \in 0..created
    BY <1>0, <1>1, OperationFacts DEF ConnectionTypes
  <2>2. Reply(ops[i], why) \in Items(T, created) /\ ChannelError(ops[i].ch, why) \in Items(T, created)
    BY <1>0, <1>1, <2>1, ItemsMade DEF Whys, ConnectionTypes
  <2>3. QED
    BY <2>2 DEF replyError
<1>4. UNCHANGED <<state, urlIndex, onComplete, pending, timers, broken, created, posts>>
  BY DEF replyError, connection
<1>5. faults' \in 0..MaxFaults
  BY <1>0, ConnectionAssumption DEF replyError, Fault, ConnectionTypes
<1>6. /\ state' \in {"Unknown", "Started", "Ready", "Error", "Lost"} /\ broken' \in BOOLEAN
      /\ timers' \in Nat
  BY <1>0, <1>4 DEF ConnectionTypes
<1>7. QED
  BY <1>1, <1>2, <1>3, <1>4, <1>5, <1>6, LibraryTypes

(* The operations that fail with it                                        *)
LEMMA FailNextTypes ==
    ASSUME TypeOK, NEW T, Typed(T), NEW i \in 1..Len(ops), failNext(i),
           UNCHANGED <<client, observed, calls>>
    PROVE  KeepsTypes
<1>0. ConnectionTypes
  BY HasConnectionTypes
<1>1. ops[i] \in Operations(created) /\ ops' \in Seq(Operations(created))
  BY AnsweredOps DEF failNext
<1>2. now' \in Seq(Items(T, created))
  <2>1. Reply(ops[i], "error state") \in Items(T, created)
    BY <1>0, <1>1, ItemsMade DEF Whys, ConnectionTypes
  <2>2. now \in Seq(Items(T, created))
    BY Running DEF failNext, Runs
  <2>3. now' = <<Reply(ops[i], "error state")>> \o now
    BY DEF failNext
  <2>4. QED
    BY <2>1, <2>2, <2>3, Prefixed
<1>3. UNCHANGED <<state, urlIndex, onComplete, pending, timers, broken, created, usable, faults, posts>>
  BY DEF failNext, connection
<1>4. /\ state' \in {"Unknown", "Started", "Ready", "Error", "Lost"} /\ broken' \in BOOLEAN
      /\ timers' \in Nat /\ faults' \in 0..MaxFaults /\ usable' \subseteq 1..created
  BY <1>0, <1>3 DEF ConnectionTypes
<1>5. QED
  BY <1>1, <1>2, <1>3, <1>4, LibraryTypes

(* The connection is lost                                                  *)
LEMMA BreaksTypes ==
    ASSUME TypeOK, NEW T, Typed(T), connectionBreaks, UNCHANGED <<client, observed, calls>>
    PROVE  KeepsTypes
<1>0. ConnectionTypes /\ ops \in Seq(Operations(created))
  BY HasConnectionTypes DEF Typed
<1>1. now' \in Seq(Items(T, created))
  <2>1. Do("fail") \in Items(T, created)
    BY <1>0, ItemsMade DEF Plain, ConnectionTypes
  <2>2. QED
    BY <2>1 DEF connectionBreaks
<1>2. /\ usable' = {} /\ broken' = TRUE /\ state' \in {"Ready", "Error"}
      /\ UNCHANGED <<urlIndex, onComplete, pending, timers, created, ops, posts>>
  BY DEF connectionBreaks
<1>3. faults' \in 0..MaxFaults
  BY <1>0, ConnectionAssumption DEF connectionBreaks, Fault, ConnectionTypes
<1>4. /\ state' \in {"Unknown", "Started", "Ready", "Error", "Lost"} /\ broken' \in BOOLEAN
      /\ timers' \in Nat /\ usable' \subseteq 1..created /\ ops' \in Seq(Operations(created))
  BY <1>0, <1>2 DEF ConnectionTypes
<1>5. QED
  BY <1>1, <1>2, <1>3, <1>4, LibraryTypes

(* The operations that are lost with it                                    *)
LEMMA LoseNextTypes ==
    ASSUME TypeOK, NEW T, Typed(T), loseNext, UNCHANGED <<client, observed, calls>>
    PROVE  KeepsTypes
<1>0. ConnectionTypes /\ ops \in Seq(Operations(created))
  BY HasConnectionTypes DEF Typed
<1>1. now \in Seq(Items(T, created)) /\ now # <<>>
  BY Running DEF loseNext, Runs
<1>2. now' \in Seq(Items(T, created)) /\ ops' \in Seq(Operations(created))
  <2>1. CASE ops = <<>>
    BY <2>1, <1>0, <1>1 DEF loseNext
  <2>2. CASE ops # <<>>
    <3>1. Head(ops) \in Operations(created) /\ Tail(ops) \in Seq(Operations(created))
      BY <2>2, <1>0
    <3>2. Reply(Head(ops), "connection lost") \in Items(T, created)
      BY <1>0, <3>1, ItemsMade DEF Whys, ConnectionTypes
    <3>3. now' = <<Reply(Head(ops), "connection lost")>> \o now /\ ops' = Tail(ops)
      BY <2>2 DEF loseNext
    <3>4. QED
      BY <1>1, <3>1, <3>2, <3>3, Prefixed
  <2>3. QED
    BY <2>1, <2>2
<1>3. UNCHANGED <<state, urlIndex, onComplete, pending, timers, broken, created, usable, faults, posts>>
  BY DEF loseNext, connection
<1>4. /\ state' \in {"Unknown", "Started", "Ready", "Error", "Lost"} /\ broken' \in BOOLEAN
      /\ timers' \in Nat /\ faults' \in 0..MaxFaults /\ usable' \subseteq 1..created
  BY <1>0, <1>3 DEF ConnectionTypes
<1>5. QED
  BY <1>2, <1>3, <1>4, LibraryTypes

(* doCreateChannel()                                                       *)
LEMMA CreateTypes ==
    ASSUME TypeOK, NEW T, Typed(T), doCreateChannel, UNCHANGED <<client, observed, calls>>
    PROVE  KeepsTypes
<1>0. ConnectionTypes
  BY HasConnectionTypes
<1>a. ops \in Seq(Operations(created)) /\ created \in Nat
  BY <1>0 DEF Typed, ConnectionTypes
<1>1. now' \in Seq(Items(T, created))
  <2>1. now \in Seq(Items(T, created)) /\ now # <<>>
    BY Running DEF doCreateChannel, Runs
  <2>2. QED
    BY <2>1 DEF doCreateChannel
<1>2. UNCHANGED <<urlIndex, onComplete, timers, broken, usable, faults>>
  BY DEF doCreateChannel
<1>3. CASE state = "Ready" /\ ~broken
  <2>1. /\ created' = created + 1 /\ UNCHANGED <<state, pending, posts>>
        /\ ops' = Append(ops, [op |-> "open", ch |-> created + 1, x |-> 0])
    BY <1>3 DEF doCreateChannel
  <2>2. created' \in Nat /\ created <= created' /\ usable' \subseteq 1..created'
    BY <2>1, <1>a, <1>0, <1>2 DEF ConnectionTypes
  <2>3. ConnectionTypes'
    BY <1>0, <1>2, <2>1, <2>2, Zenon DEF ConnectionTypes
  <2>4. TypeOK' /\ UNCHANGED <<postponed, published, messages, groups, handlers>>
    BY <2>2, <2>3, ClientRests
  <2>5. ops' \in Seq(Operations(created'))
    <3>1. [op |-> "open", ch |-> created + 1, x |-> 0] \in Operations(created')
      <4>1. created + 1 \in 1..created'
        BY <2>1, <1>a
      <4>2. QED
        BY <4>1 DEF Operations
    <3>2. ops \in Seq(Operations(created'))
      <4>1. Operations(created) \subseteq Operations(created')
        BY <1>a, <2>2, ItemsGrow
      <4>2. QED
        BY <4>1, <1>a, LargerSeq
    <3>3. QED
      BY <3>1, <3>2, <2>1, Appended
  <2>6. now' \in Seq(Items(T, created'))
    <3>1. Items(T, created) \subseteq Items(T, created')
      BY <1>a, <2>2, ItemsGrow
    <3>2. QED
      BY <3>1, <1>1, LargerSeq
  <2>7. <<>> \in Seq(Items(T, created')) /\ posts' = posts \o <<>>
    <3>1. posts \in Seq(Items(T, created) \cup Publishes)
      BY DEF Typed
    <3>2. QED
      BY <3>1, <2>1
  <2>8. /\ T \subseteq Parts(T, Len(groups'))
        /\ groups' \in Seq([left : SUBSET Subscriptions, ok : BOOLEAN, hs : Seq(T)])
        /\ handlers' \in [Subscriptions -> Seq(T)]
    BY <2>4 DEF Typed
  <2>9. Typed(T)' /\ Quiet
    BY <2>2, <2>5, <2>6, <2>7, <2>8, Frame
  <2>10. QED
    BY <2>4, <2>9 DEF KeepsTypes
<1>4. CASE ~(state = "Ready" /\ ~broken)
  <2>1. /\ UNCHANGED <<created, ops>> /\ pending' \in {pending, pending + 1}
        /\ state' \in {state, "Started"}
        /\ posts' = posts \/ posts' = Append(posts, ChannelResult(0))
    <3>1. CASE state \in {"Unknown", "Started"}
      BY <1>4, <3>1 DEF doCreateChannel
    <3>2. CASE state \notin {"Unknown", "Started"}
      BY <1>4, <3>2 DEF doCreateChannel
    <3>3. QED
      BY <3>1, <3>2
  <2>2. pending' \in Nat /\ created <= created'
    BY <1>0, <2>1 DEF ConnectionTypes
  <2>3. state' \in {"Unknown", "Started", "Ready", "Error", "Lost"}
    BY <1>0, <2>1 DEF ConnectionTypes
  <2>4. ConnectionTypes'
    BY <1>0, <1>2, <2>1, <2>2, <2>3, Zenon DEF ConnectionTypes
  <2>5. TypeOK' /\ UNCHANGED <<postponed, published, messages, groups, handlers>>
    BY <2>2, <2>4, ClientRests
  <2>6. Typed(T)' /\ Quiet
    <3>1. CASE posts' = posts
      <4>1. handlers' \in [Subscriptions -> Seq(T)] /\ ops' \in Seq(Operations(created))
        BY <2>1, <2>5, <1>a DEF Typed
      <4>2. QED
        BY <3>1, <4>1, <1>1, <2>1, <2>5, PlainFrame
    <3>2. CASE posts' = Append(posts, ChannelResult(0))
      <4>1. ChannelResult(0) \in Items(T, created)
        BY <1>a, ItemsMade
      <4>2. QED
        BY <3>2, <4>1, <1>1, <2>1, <2>5, PostedTypes
    <3>3. QED
      BY <2>1, <3>1, <3>2
  <2>7. QED
    BY <2>5, <2>6 DEF KeepsTypes
<1>5. QED
  BY <1>3, <1>4

(* The next function of the io context; it may be a call of asyncPublish() *)
LEMMA RunPostedTypes ==
    ASSUME TypeOK, NEW T, Typed(T), runPosted, UNCHANGED <<client, observed, calls>>
    PROVE  /\ TypeOK' /\ Typed(T)' /\ UNCHANGED <<postponed, published, messages>>
           /\ Len(posts) \in Nat \ {0} /\ Len(posts') = Len(posts) - 1
           /\ \A i \in 1..(Len(posts) - 1) : posts'[i] = posts[i + 1]
           /\ Len(now') = 1 /\ now'[1] = posts[1]
<1>0. ConnectionTypes
  BY HasConnectionTypes
<1>1. /\ posts # <<>> /\ now' = <<Head(posts)>> /\ posts' = Tail(posts)
      /\ UNCHANGED <<state, urlIndex, onComplete, pending, timers, broken, created, usable, ops, faults>>
  BY DEF runPosted, connection, library
<1>2. ConnectionTypes' /\ created <= created'
  <2>1. created <= created'
    BY <1>0, <1>1 DEF ConnectionTypes
  <2>2. QED
    BY <1>0, <1>1, <2>1, Zenon DEF ConnectionTypes
<1>3. TypeOK' /\ UNCHANGED <<postponed, published, messages, groups, handlers>>
  BY <1>2, ClientRests
<1> DEFINE I == Items(T, created)
<1>4. posts \in Seq(I \cup Publishes)
  BY DEF Typed
<1> HIDE DEF I
<1>5. Len(posts) \in Nat \ {0}
  BY <1>1, <1>4, EmptySeq
<1>6. /\ Len(posts') = Len(posts) - 1 /\ posts' \in Seq(I \cup Publishes)
      /\ \A i \in 1..(Len(posts) - 1) : posts'[i] = posts[i + 1]
  BY <1>1, <1>4, <1>5
<1>7. Len(now') = 1 /\ now'[1] = posts[1] /\ posts[1] \in I \cup Publishes
  BY <1>1, <1>4, <1>5
<1>8. now' \in Seq(I) \/ now' \in [1..1 -> Publishes]
  <2>1. CASE posts[1] \in I
    BY <1>1, <1>4, <1>5, <2>1
  <2>2. CASE posts[1] \in Publishes
    BY <1>1, <1>4, <1>5, <2>2
  <2>3. QED
    BY <1>7, <2>1, <2>2
<1>9. Typed(T)'
  BY <1>1, <1>3, <1>6, <1>8 DEF Typed, I
<1>10. QED
  BY <1>3, <1>5, <1>6, <1>7, <1>9

-----------------------------------------------------------------------------
(* Types: steps of the client                                              *)

(* The types of AmqpClient                                                 *)
ClientTypes ==
    /\ channel \in 0..created /\ guarded \in 0..created
    /\ channelStatus \in {"REQUEST", "CREATE", "CREATE_QUEUE", "CREATE_CONSUMER", "READY"}
    /\ preparation \in {"none", "subscribe", "publish"} /\ registered \in BOOLEAN
    /\ exchanges \in [Exchanges -> {"none", "DECLARING", "DECLARED", "BINDING", "PUBLISHABLE"}]
    /\ subscriptions \in [Subscriptions -> Unready \cup {"none", "READY", "UNBIND_QUEUE"}]
    /\ postponed \in Seq(1..MaxMessages) /\ Len(postponed) <= MaxPostponed
    /\ bound \subseteq (0..created) \X Subscriptions
    /\ published \in Seq(1..MaxMessages) /\ messages \in 0..MaxMessages
    /\ called \in 0..MaxCalls /\ told \in [1..MaxCalls -> Nat]
    /\ wanted \subseteq Subscriptions /\ crashed \in BOOLEAN /\ mishaps \subseteq Mishaps

(* They are the other part of TypeOK                                       *)
LEMMA HasClientTypes == TypeOK <=> ConnectionTypes /\ ClientTypes
BY DEF TypeOK, ConnectionTypes, ClientTypes

(* A step of the client leaves the connection alone                        *)
LEMMA StepTypes ==
    ASSUME TypeOK, UNCHANGED <<connection, created>>, usable' \subseteq usable,
           faults' \in 0..MaxFaults, ClientTypes'
    PROVE  TypeOK'
<1>1. ConnectionTypes
  BY HasConnectionTypes
<1>2. /\ UNCHANGED <<state, urlIndex, onComplete, pending, timers, broken, created>>
      /\ usable' \subseteq 1..created
  BY <1>1 DEF connection, ConnectionTypes
<1>3. ConnectionTypes'
  BY <1>1, <1>2, Zenon DEF ConnectionTypes
<1>4. QED
  BY <1>3, HasClientTypes, PTL

(* An operation on the channel                                             *)
LEMMA OperationTypes ==
    ASSUME TypeOK, NEW T, Typed(T), now # <<>>,
           NEW o \in Operations(created), Operation(o, <<>>)
    PROVE  /\ crashed' \in BOOLEAN
           /\ now' \in Seq(Items(T, created)) /\ ops' \in Seq(Operations(created))
           /\ \/ channel \in usable /\ ops' = Append(ops, o) /\ now' = <<>> \o Tail(now)
              \/ channel \notin usable /\ ops' = ops /\ now' = <<Reply(o, "not sent")>> \o Tail(now)
<1>0. ops \in Seq(Operations(created)) /\ created \in Nat
  BY DEF Typed, TypeOK
<1>1. crashed' \in BOOLEAN
  BY DEF Operation
<1>2. Reply(o, "not sent") \in Items(T, created)
  BY <1>0, ItemsMade DEF Whys
<1>3. <<Reply(o, "not sent")>> \o <<>> = <<Reply(o, "not sent")>>
  OBVIOUS
<1>4. \/ channel \in usable /\ ops' = Append(ops, o) /\ Then(<<>>)
      \/ channel \notin usable /\ ops' = ops /\ Then(<<Reply(o, "not sent")>>)
  BY <1>3 DEF Operation
<1>5. <<>> \in Seq(Items(T, created)) /\ <<Reply(o, "not sent")>> \in Seq(Items(T, created))
  BY <1>2, Short
<1>6. now' \in Seq(Items(T, created))
  BY <1>4, <1>5, Following
<1>7. ops' \in Seq(Operations(created))
  BY <1>0, <1>4, Appended
<1>8. QED
  BY <1>1, <1>4, <1>6, <1>7 DEF Then

(* The operation of an answer                                              *)
LEMMA AnswerTypes ==
    ASSUME TypeOK, NEW T, Typed(T), Runs("reply")
    PROVE  /\ now # <<>> /\ Head(now).do # "asyncPublish"
           /\ now \in Seq(Items(T, created))
           /\ Answer.op \in Operations(created) /\ Answer.op.ch \in 0..created
           /\ Answer.op.op = "open" => Answer.op.ch \in 1..created
           /\ Answer.op.op \in {"declare", "bind", "unbind"} => Answer.op.x \in Subscriptions
           /\ Answer.op.op \in {"declare to publish", "bind to publish"} => Answer.op.x \in Exchanges
<1>1. now # <<>> /\ Head(now).do = "reply"
  BY DEF Runs
<1>2. now \in Seq(Items(T, created)) /\ Answer \in Items(T, created) /\ created \in Nat
  BY <1>1, Running DEF Answer
<1>3. Answer.op \in Operations(created)
  BY <1>1, <1>2, ItemFacts DEF Answer
<1>4. QED
  BY <1>1, <1>2, <1>3, OperationFacts

(* A channel is there                                                      *)
LEMMA ChannelCreatedTypes ==
    ASSUME TypeOK, NEW T, Typed(T), channelCreated
    PROVE  KeepsTypes
<1>0. ClientTypes /\ ConnectionTypes
  BY HasClientTypes
<1>1. Runs("reply") /\ Answer.op.op = "open"
  BY DEF channelCreated, Answered
<1>2. now # <<>> /\ Head(now).do # "asyncPublish" /\ Answer.op.ch \in 1..created
  BY <1>1, AnswerTypes
<1>3. created \in Nat /\ faults' \in 0..MaxFaults
  BY <1>0 DEF channelCreated, ConnectionTypes
<1>4. /\ channel' = Answer.op.ch /\ channelStatus' = "CREATE_QUEUE"
      /\ UNCHANGED <<created, posts, guarded, preparation, registered, exchanges, subscriptions,
                     handlers, postponed, groups, bound, published, told, crashed, mishaps,
                     called, messages, wanted>>
  BY DEF channelCreated, observed, calls
<1>5. channel' \in 0..created
  BY <1>2, <1>3, <1>4
<1>6. ClientTypes'
  BY <1>0, <1>4, <1>5, Zenon DEF ClientTypes
<1>7. TypeOK'
  <2>1. UNCHANGED <<connection, created>> /\ usable' \subseteq usable
    BY DEF channelCreated
  <2>2. QED
    BY <1>3, <1>6, <2>1, StepTypes
<1>8. Typed(T)' /\ Quiet
  <2>1. now' \in Seq(Items(T, created))
    <3>1. <<>> \in Seq(Items(T, created)) /\ Then(<<>>)
      BY DEF channelCreated
    <3>2. QED
      BY <1>2, <3>1, Following
  <2>2. ops' \in Seq(Operations(created))
    <3>1. [op |-> "queue", ch |-> Answer.op.ch, x |-> 0] \in Operations(created)
      <4>1. Answer.op.ch \in 0..created
        BY <1>2, <1>3
      <4>2. QED
        BY <4>1 DEF Operations
    <3>2. ops \in Seq(Operations(created))
      BY DEF Typed
    <3>3. QED
      BY <3>1, <3>2, Appended DEF channelCreated
  <2>3. handlers' \in [Subscriptions -> Seq(T)]
    BY <1>4 DEF Typed
  <2>4. QED
    BY <1>4, <2>1, <2>2, <2>3, PlainFrame
<1>9. QED
  BY <1>4, <1>7, <1>8 DEF KeepsTypes

(* The callback of the preparation                                         *)
LEMMA PreparationTypes ==
    ASSUME TypeOK, NEW T, Typed(T), now # <<>>,
           NEW b \in BOOLEAN, callPreparation(b)
    PROVE  /\ preparation' = "none" /\ crashed' \in BOOLEAN
           /\ now' \in Seq(Items(T, created))
<1>0. created \in Nat
  BY DEF TypeOK
<1>1. crashed' \in BOOLEAN /\ preparation' = "none"
  BY DEF callPreparation
<1>2. \/ Then(<<>>) \/ Then(<<Do("doSubscribePending")>>) \/ Then(<<Do("publishPostponed")>>)
  BY DEF callPreparation
<1>3. /\ <<>> \in Seq(Items(T, created))
      /\ <<Do("doSubscribePending")>> \in Seq(Items(T, created))
      /\ <<Do("publishPostponed")>> \in Seq(Items(T, created))
  BY <1>0, ItemsMade DEF Plain
<1>4. QED
  BY <1>1, <1>2, <1>3, Following

(* Beginning to prepare a channel                                          *)
LEMMA PrepareTypes ==
    ASSUME TypeOK, NEW T, Typed(T), now # <<>>,
           NEW c, asyncPrepareChannel(c)
    PROVE  /\ channelStatus' = "CREATE" /\ preparation' = c /\ registered' = TRUE
           /\ now' \in Seq(Items(T, created))
<1>0. created \in Nat
  BY DEF TypeOK
<1>1. <<Do("createChannel")>> \in Seq(Items(T, created)) /\ Then(<<Do("createChannel")>>)
  BY <1>0, ItemsMade DEF Plain, asyncPrepareChannel
<1>2. QED
  BY <1>1, Following DEF asyncPrepareChannel

(* mishaps only grow                                                       *)
LEMMA Noted ==
    ASSUME TypeOK, NEW b, NEW m \in Mishaps, Note(b, m)
    PROVE  mishaps' \subseteq Mishaps /\ mishaps \subseteq mishaps'
BY DEF Note, TypeOK

(* There is no channel                                                     *)
LEMMA ChannelFailedTypes ==
    ASSUME TypeOK, NEW T, Typed(T), channelFailed
    PROVE  KeepsTypes
<1>0. ClientTypes /\ ConnectionTypes
  BY HasClientTypes
<1>1. now # <<>> /\ Head(now).do # "asyncPublish"
  BY DEF channelFailed, Answered, Runs
<1>2. preparation' = "none" /\ crashed' \in BOOLEAN /\ now' \in Seq(Items(T, created))
  BY <1>1, PreparationTypes DEF channelFailed
<1>3. mishaps' \subseteq Mishaps
  BY Noted DEF channelFailed, Mishaps
<1>4. /\ channelStatus' = "REQUEST"
      /\ UNCHANGED <<connection, created, usable, faults, ops, posts, channel, guarded, registered,
                     exchanges, subscriptions, handlers, postponed, groups, bound, published,
                     told, called, messages, wanted>>
  BY DEF channelFailed, library, calls
<1>5. ClientTypes'
  BY <1>0, <1>2, <1>3, <1>4, Zenon DEF ClientTypes
<1>6. TypeOK'
  BY <1>0, <1>4, <1>5, StepTypes DEF ConnectionTypes
<1>7. Typed(T)' /\ Quiet
  <2>1. handlers' \in [Subscriptions -> Seq(T)] /\ ops' \in Seq(Operations(created))
    BY <1>4 DEF Typed
  <2>2. QED
    BY <1>2, <1>4, <2>1, PlainFrame
<1>8. QED
  BY <1>4, <1>6, <1>7 DEF KeepsTypes

(* Queue or consumer fails                                                 *)
LEMMA PreparationFailsTypes ==
    ASSUME TypeOK, NEW T, Typed(T), preparationFails
    PROVE  KeepsTypes
<1>0. ClientTypes /\ ConnectionTypes
  BY HasClientTypes
<1>1. now # <<>> /\ Head(now).do # "asyncPublish"
  BY DEF preparationFails, Answered, Runs
<1>2. /\ preparation' \in {"none", "subscribe", "publish"} /\ crashed' \in BOOLEAN
      /\ now' \in Seq(Items(T, created)) /\ mishaps' \subseteq Mishaps
      /\ channelStatus' \in {"REQUEST", "CREATE"} /\ registered' \in BOOLEAN
  <2>1. CASE Answer.why = "retry"
    <3>1. asyncPrepareChannel(preparation) /\ UNCHANGED <<crashed, mishaps>>
      BY <2>1 DEF preparationFails
    <3>2. /\ channelStatus' = "CREATE" /\ preparation' = preparation /\ registered' = TRUE
          /\ now' \in Seq(Items(T, created))
      BY <1>1, <3>1, PrepareTypes
    <3>3. QED
      BY <1>0, <3>1, <3>2 DEF ClientTypes
  <2>2. CASE Answer.why # "retry"
    <3>1. /\ channelStatus' = "REQUEST" /\ callPreparation(FALSE) /\ UNCHANGED registered
          /\ Note(Answer.why = "other", "given up")
      BY <2>2 DEF preparationFails
    <3>2. preparation' = "none" /\ crashed' \in BOOLEAN /\ now' \in Seq(Items(T, created))
      BY <1>1, <3>1, PreparationTypes
    <3>3. mishaps' \subseteq Mishaps
      BY <3>1, Noted DEF Mishaps
    <3>4. QED
      BY <1>0, <3>1, <3>2, <3>3 DEF ClientTypes
  <2>3. QED
    BY <2>1, <2>2
<1>3. channel' \in 0..created
  <2>1. channel \in 0..created /\ created \in Nat
    BY <1>0 DEF ClientTypes, ConnectionTypes
  <2>2. channel' \in {0, channel}
    BY DEF preparationFails
  <2>3. QED
    BY <2>1, <2>2
<1>4. UNCHANGED <<connection, created, usable, faults, ops, posts, guarded, exchanges,
                  subscriptions, handlers, postponed, groups, bound, published, told,
                  called, messages, wanted>>
  BY DEF preparationFails, library, calls
<1>5. ClientTypes'
  <2>1. channelStatus' \in {"REQUEST", "CREATE", "CREATE_QUEUE", "CREATE_CONSUMER", "READY"}
    BY <1>2
  <2>2. QED
    BY <1>0, <1>2, <1>3, <1>4, <2>1, Zenon DEF ClientTypes
<1>6. TypeOK'
  BY <1>0, <1>4, <1>5, StepTypes DEF ConnectionTypes
<1>7. Typed(T)' /\ Quiet
  <2>1. handlers' \in [Subscriptions -> Seq(T)] /\ ops' \in Seq(Operations(created))
    BY <1>4 DEF Typed
  <2>2. QED
    BY <1>2, <1>4, <2>1, PlainFrame
<1>8. QED
  BY <1>4, <1>6, <1>7 DEF KeepsTypes

(* The queue is declared                                                   *)
LEMMA QueueDeclaredTypes ==
    ASSUME TypeOK, NEW T, Typed(T), queueDeclared
    PROVE  KeepsTypes
<1>0. ClientTypes /\ ConnectionTypes
  BY HasClientTypes
<1>1. now # <<>> /\ Head(now).do # "asyncPublish"
  BY DEF queueDeclared, Answered, Runs
<1>2. Op("consume", 0) \in Operations(created) /\ Op("queue", 0) \in Operations(created)
  <2>1. channel \in 0..created
    BY <1>0 DEF ClientTypes
  <2>2. QED
    BY <2>1 DEF Op, Operations
<1>3. \/ channelStatus' = "CREATE_CONSUMER" /\ Operation(Op("consume", 0), <<>>) /\ faults' = faults
      \/ Fault(3) /\ Operation(Op("queue", 0), <<>>) /\ channelStatus' = channelStatus
  BY DEF queueDeclared
<1>4. crashed' \in BOOLEAN /\ now' \in Seq(Items(T, created)) /\ ops' \in Seq(Operations(created))
  BY <1>1, <1>2, <1>3, OperationTypes
<1>5. faults' \in 0..MaxFaults
  BY <1>0, <1>3, ConnectionAssumption DEF Fault, ConnectionTypes
<1>6. channelStatus' \in {"REQUEST", "CREATE", "CREATE_QUEUE", "CREATE_CONSUMER", "READY"}
  BY <1>0, <1>3 DEF ClientTypes
<1>7. UNCHANGED <<connection, created, usable, posts, channel, guarded, preparation, registered,
                  exchanges, subscriptions, handlers, postponed, groups, bound, published,
                  told, mishaps, called, messages, wanted>>
  BY DEF queueDeclared, calls
<1>8. ClientTypes'
  BY <1>0, <1>4, <1>6, <1>7, Zenon DEF ClientTypes
<1>9. TypeOK'
  BY <1>5, <1>7, <1>8, StepTypes
<1>10. Typed(T)' /\ Quiet
  <2>1. handlers' \in [Subscriptions -> Seq(T)]
    BY <1>7 DEF Typed
  <2>2. QED
    BY <1>4, <1>7, <2>1, PlainFrame
<1>11. QED
  BY <1>7, <1>9, <1>10 DEF KeepsTypes

(* The consumer is there                                                   *)
LEMMA ConsumerCreatedTypes ==
    ASSUME TypeOK, NEW T, Typed(T), consumerCreated
    PROVE  KeepsTypes
<1>0. ClientTypes /\ ConnectionTypes
  BY HasClientTypes
<1>1. now # <<>> /\ Head(now).do # "asyncPublish"
  BY DEF consumerCreated, Answered, Runs
<1>2. preparation' = "none" /\ crashed' \in BOOLEAN /\ now' \in Seq(Items(T, created))
  BY <1>1, PreparationTypes DEF consumerCreated
<1>3. /\ channelStatus' = "READY" /\ guarded' = channel
      /\ UNCHANGED <<connection, created, usable, faults, ops, posts, channel, registered,
                     exchanges, subscriptions, handlers, postponed, groups, bound, published,
                     told, mishaps, called, messages, wanted>>
  BY DEF consumerCreated, library, calls
<1>4. ClientTypes'
  BY <1>0, <1>2, <1>3, Zenon DEF ClientTypes
<1>5. TypeOK'
  BY <1>0, <1>3, <1>4, StepTypes DEF ConnectionTypes
<1>6. Typed(T)' /\ Quiet
  <2>1. handlers' \in [Subscriptions -> Seq(T)] /\ ops' \in Seq(Operations(created))
    BY <1>3 DEF Typed
  <2>2. QED
    BY <1>2, <1>3, <2>1, PlainFrame
<1>7. QED
  BY <1>3, <1>5, <1>6 DEF KeepsTypes

(* The error of a channel is reported                                      *)
LEMMA ChannelErrorTypes ==
    ASSUME TypeOK, NEW T, Typed(T), channelErrorHandler
    PROVE  KeepsTypes
<1>1. now # <<>> /\ Head(now).do # "asyncPublish" /\ Then(<<>>)
  BY DEF channelErrorHandler, Runs
<1>2. now' \in Seq(Items(T, created))
  BY <1>1, Short, Following
<1>3. /\ UNCHANGED <<client, observed, calls, connection, created, usable, ops, faults>>
      /\ posts' = posts \/ posts' = Append(posts, Do("reviveIfReconnected"))
  BY DEF channelErrorHandler, library
<1>4. TypeOK' /\ UNCHANGED <<postponed, published, messages, groups, handlers>>
  <2>1. ConnectionTypes
    BY HasConnectionTypes
  <2>2. UNCHANGED <<state, urlIndex, onComplete, pending, timers, broken, created, usable, faults>>
    BY <1>3 DEF connection
  <2>3. created <= created'
    BY <2>1, <2>2 DEF ConnectionTypes
  <2>4. ConnectionTypes'
    BY <2>1, <2>2, Zenon DEF ConnectionTypes
  <2>5. QED
    BY <2>3, <2>4, <1>3, ClientRests
<1>5. Typed(T)' /\ Quiet
  <2>1. CASE posts' = posts
    <3>1. handlers' \in [Subscriptions -> Seq(T)] /\ ops' \in Seq(Operations(created))
      BY <1>3, <1>4 DEF Typed
    <3>2. QED
      BY <2>1, <3>1, <1>2, <1>3, <1>4, PlainFrame
  <2>2. CASE posts' = Append(posts, Do("reviveIfReconnected"))
    <3>1. Do("reviveIfReconnected") \in Items(T, created)
      BY ItemsMade DEF Plain, TypeOK
    <3>2. QED
      BY <2>2, <3>1, <1>2, <1>3, <1>4, PostedTypes
  <2>3. QED
    BY <1>3, <2>1, <2>2
<1>6. QED
  BY <1>4, <1>5 DEF KeepsTypes

(* Handlers may become parts of others                                     *)
LEMMA PartAdded ==
    ASSUME NEW T, NEW n \in Nat, T \subseteq Parts(T, n), NEW x \in Parts(T, n)
    PROVE  /\ T \cup {x} \subseteq Parts(T \cup {x}, n)
           /\ Seq(T) \subseteq Seq(T \cup {x})
<1>1. Parts(T, n) \subseteq Parts(T \cup {x}, n)
  BY ItemsGrow
<1>2. QED
  BY <1>1, LargerSeq

(* A step of the client that adds at most one part of handlers             *)
LEMMA GrowingFrame ==
    ASSUME TypeOK, NEW T, Typed(T), NEW x \in Parts(T, Len(groups)),
           UNCHANGED <<created, groups, posts>>,
           handlers' \in [Subscriptions -> Seq(T \cup {x})], ops' \in Seq(Operations(created)),
           now' \in Seq(Items(T, created))
    PROVE  (\E U : Typed(U)') /\ Quiet
<1> DEFINE U == T \cup {x}
<1>0. created' \in Nat /\ created <= created' /\ created \in Nat
  BY DEF TypeOK
<1>1. Len(groups) \in Nat
  BY DEF Typed
<1>2. U \subseteq Parts(U, Len(groups)) /\ Seq(T) \subseteq Seq(U)
  BY <1>1, PartAdded DEF Typed
<1>3. groups' \in Seq([left : SUBSET Subscriptions, ok : BOOLEAN, hs : Seq(U)])
  <2> HIDE DEF U
  <2>1. groups' \in Seq([left : SUBSET Subscriptions, ok : BOOLEAN, hs : Seq(T)])
    BY DEF Typed
  <2>2. [left : SUBSET Subscriptions, ok : BOOLEAN, hs : Seq(T)]
          \subseteq [left : SUBSET Subscriptions, ok : BOOLEAN, hs : Seq(U)]
    BY <1>2
  <2>3. QED
    BY <2>1, <2>2, LargerSeq
<1>4. <<>> \in Seq(Items(U, created')) /\ posts' = posts \o <<>>
  <2>1. posts \in Seq(Items(T, created) \cup Publishes)
    BY DEF Typed
  <2>2. QED
    BY <2>1
<1>5. now' \in Seq(Items(U, created'))
  <2>1. Items(T, created) \subseteq Items(U, created)
    BY <1>0, ItemsGrow
  <2>2. QED
    BY <2>1, LargerSeq
<1>6. T \subseteq U
  OBVIOUS
<1> HIDE DEF U
<1>7. Typed(U)' /\ Quiet
  BY <1>0, <1>2, <1>3, <1>4, <1>5, <1>6, Frame DEF U
<1>8. QED
  BY <1>7

(* asyncSubscribe()                                                        *)
LEMMA SubscribeTypes ==
    ASSUME TypeOK, NEW T, Typed(T), asyncSubscribe
    PROVE  KeepsTypes
<1>0. ClientTypes /\ ConnectionTypes
  BY HasClientTypes
<1>1. now # <<>> /\ Head(now).do = "asyncSubscribe"
  BY DEF asyncSubscribe, Runs
<1> DEFINE s == Answer.s
           hs == Answer.hs
<1>2. s \in Subscriptions /\ hs \in Seq(T) /\ Subscribe(s, hs) \in Parts(T, Len(groups))
  <2>1. Answer \in Items(T, created) /\ created \in Nat
    BY <1>1, Running DEF Answer
  <2>2. s \in Subscriptions /\ hs \in Seq(T)
    BY <1>1, <2>1, ItemFacts DEF Repeated, Answer
  <2> HIDE DEF s, hs
  <2>3. QED
    BY <2>2 DEF Subscribe, Parts, Repeated
<1>3. mishaps' \subseteq Mishaps
  BY Noted DEF asyncSubscribe, Mishaps
<1>4. UNCHANGED <<connection, created, usable, ops, faults, posts, channel, guarded, exchanges,
                  postponed, groups, bound, published, told, crashed, called, messages, wanted>>
  BY DEF asyncSubscribe, library, calls
<1>5. handlers \in [Subscriptions -> Seq(T)] /\ ops \in Seq(Operations(created))
  BY DEF Typed
<1>6. /\ handlers' \in [Subscriptions -> Seq(T \cup {Subscribe(s, hs)})]
      /\ now' \in Seq(Items(T, created))
      /\ channelStatus' \in {channelStatus, "CREATE"} /\ preparation' \in {preparation, "subscribe"}
      /\ registered' \in BOOLEAN
      /\ subscriptions' \in [Subscriptions -> Unready \cup {"none", "READY", "UNBIND_QUEUE"}]
  <2> DEFINE U == T \cup {Subscribe(s, hs)}
             A == Unready \cup {"none", "READY", "UNBIND_QUEUE"}
  <2>1. Seq(T) \subseteq Seq(U) /\ Subscribe(s, hs) \in U
    BY LargerSeq
  <2>2. registered \in BOOLEAN /\ subscriptions \in [Subscriptions -> A] /\ "PENDING" \in A
    BY <1>0 DEF ClientTypes, Unready
  <2>3. CASE /\ subscriptions[s] \in Unready
             /\ handlers' = [handlers EXCEPT ![s] = @ \o hs]
             /\ Then(<<>>)
             /\ UNCHANGED <<channelStatus, preparation, registered, subscriptions>>
    <3> HIDE DEF s, hs, U, A
    <3>1. handlers[s] \o hs \in Seq(U)
      BY <1>2, <1>5, <2>1
    <3>2. handlers' \in [Subscriptions -> Seq(U)]
      BY <2>3, <3>1, <1>5, <2>1
    <3>3. now' \in Seq(Items(T, created))
      BY <1>1, <2>3, Short, Following
    <3>4. QED
      BY <2>2, <2>3, <3>2, <3>3 DEF U, A
  <2>4. CASE /\ subscriptions[s] = "READY"
             /\ Then(Call(hs, TRUE))
             /\ UNCHANGED <<channelStatus, preparation, registered, subscriptions, handlers>>
    <3>1. Call(hs, TRUE) \in Seq(Items(T, created))
      BY <1>2, <1>0, CallTyped DEF ConnectionTypes
    <3> HIDE DEF s, hs, U, A
    <3>2. now' \in Seq(Items(T, created))
      BY <1>1, <2>4, <3>1, Following
    <3>3. handlers' \in [Subscriptions -> Seq(U)]
      BY <2>4, <1>5, <2>1
    <3>4. QED
      BY <2>2, <2>4, <3>2, <3>3 DEF U, A
  <2>5. CASE /\ subscriptions[s] = "UNBIND_QUEUE"
             /\ handlers' = [handlers EXCEPT ![s] = Append(@, Subscribe(s, hs))]
             /\ Then(<<>>)
             /\ UNCHANGED <<channelStatus, preparation, registered, subscriptions>>
    <3> HIDE DEF s, hs, U, A
    <3>0. handlers[s] \in Seq(U)
      BY <1>2, <1>5, <2>1
    <3>1. Append(handlers[s], Subscribe(s, hs)) \in Seq(U)
      BY <3>0, <2>1, Appended
    <3>2. handlers' \in [Subscriptions -> Seq(U)]
      BY <2>5, <3>1, <1>5, <2>1
    <3>3. now' \in Seq(Items(T, created))
      BY <1>1, <2>5, Short, Following
    <3>4. QED
      BY <2>2, <2>5, <3>2, <3>3 DEF U, A
  <2>6. CASE /\ subscriptions[s] = "none"
             /\ subscriptions' = [subscriptions EXCEPT ![s] = "PENDING"]
             /\ handlers' = [handlers EXCEPT ![s] = hs]
             /\ IF channelStatus = "REQUEST" THEN asyncPrepareChannel("subscribe")
                ELSE /\ Then(IF channelStatus = "READY" THEN <<Do("doSubscribePending")>>
                                                        ELSE <<>>)
                     /\ UNCHANGED <<channelStatus, preparation, registered>>
    <3> HIDE DEF s, hs, U, A
    <3>1. handlers' \in [Subscriptions -> Seq(U)] /\ subscriptions' \in [Subscriptions -> A]
      BY <2>6, <1>2, <1>5, <2>1, <2>2
    <3>2. CASE channelStatus = "REQUEST"
      <4>1. /\ channelStatus' = "CREATE" /\ preparation' = "subscribe" /\ registered' = TRUE
            /\ now' \in Seq(Items(T, created))
        BY <1>1, <2>6, <3>2, PrepareTypes
      <4>2. QED
        BY <3>1, <4>1 DEF U, A
    <3>3. CASE channelStatus # "REQUEST"
      <4>1. Do("doSubscribePending") \in Items(T, created)
        BY <1>0, ItemsMade DEF Plain, ConnectionTypes
      <4>2. (IF channelStatus = "READY" THEN <<Do("doSubscribePending")>> ELSE <<>>)
              \in Seq(Items(T, created))
        BY <4>1, Short
      <4>3. now' \in Seq(Items(T, created))
        BY <1>1, <2>6, <3>3, <4>2, Following
      <4>4. QED
        BY <2>2, <2>6, <3>1, <3>3, <4>3 DEF U, A
    <3>4. QED
      BY <3>2, <3>3
  <2>7. QED
    <3> HIDE DEF U, A
    <3>1. QED
      BY <2>3, <2>4, <2>5, <2>6 DEF asyncSubscribe
<1> HIDE DEF s, hs
<1>7. ClientTypes'
  <2>1. /\ channelStatus' \in {"REQUEST", "CREATE", "CREATE_QUEUE", "CREATE_CONSUMER", "READY"}
        /\ preparation' \in {"none", "subscribe", "publish"}
    BY <1>0, <1>6 DEF ClientTypes
  <2>2. QED
    BY <1>0, <1>3, <1>4, <1>6, <2>1, Zenon DEF ClientTypes
<1>8. TypeOK'
  BY <1>0, <1>4, <1>7, StepTypes DEF ConnectionTypes
<1>9. (\E U : Typed(U)') /\ Quiet
  <2>1. ops' \in Seq(Operations(created))
    BY <1>4, <1>5
  <2>2. QED
    BY <1>2, <1>4, <1>6, <2>1, GrowingFrame
<1>10. QED
  BY <1>4, <1>8, <1>9 DEF KeepsTypes

(* asyncUnsubscribe()                                                      *)
LEMMA UnsubscribeTypes ==
    ASSUME TypeOK, NEW T, Typed(T), asyncUnsubscribe
    PROVE  KeepsTypes
<1>0. ClientTypes /\ ConnectionTypes
  BY HasClientTypes
<1>1. now # <<>> /\ Head(now).do = "asyncUnsubscribe"
  BY DEF asyncUnsubscribe, Runs
<1> DEFINE s == Answer.s
           hs == Answer.hs
           e == ExchangeOf[s]
<1>2. s \in Subscriptions /\ hs \in Seq(T) /\ Unsubscribe(s, hs) \in Parts(T, Len(groups))
  <2>1. Answer \in Items(T, created) /\ created \in Nat
    BY <1>1, Running DEF Answer
  <2>2. s \in Subscriptions /\ hs \in Seq(T)
    BY <1>1, <2>1, ItemFacts DEF Repeated, Answer
  <2> HIDE DEF s, hs
  <2>3. QED
    BY <2>2 DEF Unsubscribe, Parts, Repeated
<1>4. UNCHANGED <<connection, created, usable, faults, posts, channelStatus, channel, guarded,
                  preparation, registered, postponed, groups, bound, published, told, mishaps,
                  called, messages, wanted>>
  BY DEF asyncUnsubscribe, calls
<1>5. handlers \in [Subscriptions -> Seq(T)] /\ ops \in Seq(Operations(created))
  BY DEF Typed
<1>6. /\ handlers' \in [Subscriptions -> Seq(T \cup {Unsubscribe(s, hs)})]
      /\ now' \in Seq(Items(T, created)) /\ ops' \in Seq(Operations(created))
      /\ crashed' \in BOOLEAN
      /\ exchanges' \in [Exchanges -> {"none", "DECLARING", "DECLARED", "BINDING", "PUBLISHABLE"}]
      /\ subscriptions' \in [Subscriptions -> Unready \cup {"none", "READY", "UNBIND_QUEUE"}]
  <2> DEFINE U == T \cup {Unsubscribe(s, hs)}
             A == Unready \cup {"none", "READY", "UNBIND_QUEUE"}
             E == {"none", "DECLARING", "DECLARED", "BINDING", "PUBLISHABLE"}
  <2>1. Seq(T) \subseteq Seq(U) /\ Unsubscribe(s, hs) \in U
    BY LargerSeq
  <2>2. /\ crashed \in BOOLEAN /\ subscriptions \in [Subscriptions -> A] /\ "UNBIND_QUEUE" \in A
        /\ exchanges \in [Exchanges -> E] /\ "none" \in E
    BY <1>0 DEF ClientTypes
  <2>3. CASE /\ subscriptions[s] = "none"
             /\ Then(Call(hs, TRUE))
             /\ UNCHANGED <<ops, subscriptions, handlers, exchanges, crashed>>
    <3>1. Call(hs, TRUE) \in Seq(Items(T, created))
      BY <1>2, <1>0, CallTyped DEF ConnectionTypes
    <3> HIDE DEF s, hs, U, A, E
    <3>2. now' \in Seq(Items(T, created))
      BY <1>1, <2>3, <3>1, Following
    <3>3. handlers' \in [Subscriptions -> Seq(U)]
      BY <2>3, <1>5, <2>1
    <3>4. QED
      BY <2>2, <2>3, <3>2, <3>3, <1>5 DEF U, A, E
  <2>4. CASE /\ subscriptions[s] \in Unready \cup {"UNBIND_QUEUE"}
             /\ handlers' = [handlers EXCEPT ![s] = Append(@, Unsubscribe(s, hs))]
             /\ Then(<<>>)
             /\ UNCHANGED <<ops, subscriptions, exchanges, crashed>>
    <3> HIDE DEF s, hs, U, A, E
    <3>0. handlers[s] \in Seq(U)
      BY <1>2, <1>5, <2>1
    <3>1. Append(handlers[s], Unsubscribe(s, hs)) \in Seq(U)
      BY <3>0, <2>1, Appended
    <3>2. handlers' \in [Subscriptions -> Seq(U)]
      BY <2>4, <3>1, <1>5, <2>1
    <3>3. now' \in Seq(Items(T, created))
      BY <1>1, <2>4, Short, Following
    <3>4. QED
      BY <2>2, <2>4, <3>2, <3>3, <1>5 DEF U, A, E
  <2>5. CASE /\ subscriptions[s] = "READY"
             /\ subscriptions' = [subscriptions EXCEPT ![s] = "UNBIND_QUEUE"]
             /\ handlers' = [handlers EXCEPT ![s] = hs]
             /\ exchanges' = [exchanges EXCEPT ![e] = IF @ = "PUBLISHABLE" THEN @ ELSE "none"]
             /\ Operation(Op("unbind", s), <<>>)
    <3>1. Op("unbind", s) \in Operations(created)
      <4>1. channel \in 0..created
        BY <1>0 DEF ClientTypes
      <4> HIDE DEF s
      <4>2. QED
        BY <1>2, <4>1 DEF Op, Operations
    <3> HIDE DEF s, hs, e, U, A, E
    <3>2. crashed' \in BOOLEAN /\ now' \in Seq(Items(T, created)) /\ ops' \in Seq(Operations(created))
      BY <1>1, <2>5, <3>1, OperationTypes
    <3>3. handlers' \in [Subscriptions -> Seq(U)] /\ subscriptions' \in [Subscriptions -> A]
      BY <2>5, <1>2, <1>5, <2>1, <2>2
    <3>4. exchanges' \in [Exchanges -> E]
      BY <2>5, <2>2
    <3>5. QED
      BY <3>2, <3>3, <3>4 DEF U, A, E
  <2>6. QED
    <3> HIDE DEF U, A, E
    <3>1. QED
      BY <2>3, <2>4, <2>5 DEF asyncUnsubscribe
<1> HIDE DEF s, hs, e
<1>7. ClientTypes'
  BY <1>0, <1>4, <1>6, Zenon DEF ClientTypes
<1>8. TypeOK'
  BY <1>0, <1>4, <1>7, StepTypes DEF ConnectionTypes
<1>9. (\E U : Typed(U)') /\ Quiet
  BY <1>2, <1>4, <1>6, GrowingFrame
<1>10. QED
  BY <1>4, <1>8, <1>9 DEF KeepsTypes

(* A group of operations with a common handler is begun                    *)
LEMMA GroupFrame ==
    ASSUME TypeOK, NEW T, Typed(T), UNCHANGED created,
           NEW r \in [left : SUBSET Subscriptions, ok : BOOLEAN, hs : Seq(T)],
           groups' = Append(groups, r),
           handlers' \in [Subscriptions -> Seq(T)], ops' \in Seq(Operations(created)),
           NEW extra \in Seq(Items(T \cup {OneDone(Len(groups) + 1, s) : s \in Subscriptions}, created)),
           posts' = posts \o extra,
           now' \in Seq(Items(T, created))
    PROVE  (\E U : Typed(U)') /\ Quiet
<1> DEFINE n == Len(groups)
           New == {OneDone(n + 1, s) : s \in Subscriptions}
           G == [left : SUBSET Subscriptions, ok : BOOLEAN, hs : Seq(T)]
<1>u. PICK U : U = T \cup New
  OBVIOUS
<1>0. created' \in Nat /\ created <= created' /\ created \in Nat
  BY DEF TypeOK
<1>1. n \in Nat /\ groups \in Seq(G) /\ T \subseteq Parts(T, n)
  BY DEF Typed
<1>2. groups' \in Seq(G) /\ Len(groups') = n + 1
  <2> HIDE DEF G
  <2>1. r \in G /\ groups \in Seq(G)
    BY <1>1 DEF G
  <2>2. QED
    BY <2>1, Appended
<1>3. T \subseteq U /\ New \subseteq U
  BY <1>u
<1>4. U \subseteq Parts(U, n + 1)
  <2>0. n \in Nat /\ n + 1 \in Nat /\ n <= n + 1
    BY <1>1
  <2>1. Parts(T, n) \subseteq Parts(U, n + 1)
    <3> HIDE DEF n
    <3>1. QED
      BY <2>0, <1>3, ItemsGrow
  <2>2. New \subseteq Parts(U, n + 1)
    <3>1. n + 1 \in 1..(n + 1)
      BY <1>1
    <3> HIDE DEF n
    <3>2. \A s \in Subscriptions : OneDone(n + 1, s) \in [do : {"one done"}, g : 1..(n + 1), s : Subscriptions]
      BY <3>1 DEF OneDone
    <3>3. QED
      BY <3>2, ZenonT(60) DEF Parts
  <2>3. QED
    BY <2>1, <2>2, <1>1, <1>u
<1>5. groups' \in Seq([left : SUBSET Subscriptions, ok : BOOLEAN, hs : Seq(U)])
  <2>1. Seq(T) \subseteq Seq(U)
    BY <1>3, LargerSeq
  <2>2. G \subseteq [left : SUBSET Subscriptions, ok : BOOLEAN, hs : Seq(U)]
    BY <2>1
  <2> DEFINE H == [left : SUBSET Subscriptions, ok : BOOLEAN, hs : Seq(U)]
  <2> HIDE DEF G, H
  <2>3. groups' \in Seq(G) /\ G \subseteq H
    BY <1>2, <2>2 DEF H
  <2>4. groups' \in Seq(H)
    BY <2>3, LargerSeq
  <2>5. QED
    BY <2>4 DEF H
<1>6. handlers' \in [Subscriptions -> Seq(U)]
  <2>1. Seq(T) \subseteq Seq(U)
    BY <1>3, LargerSeq
  <2>2. QED
    BY <2>1
<1>7. now' \in Seq(Items(U, created'))
  <2>1. Items(T, created) \subseteq Items(U, created)
    BY <1>0, <1>3, ItemsGrow
  <2>2. QED
    BY <2>1, LargerSeq
<1>8. extra \in Seq(Items(U, created'))
  BY <1>u
<1>9. U \subseteq Parts(U, Len(groups')) /\ ops' \in Seq(Operations(created'))
  BY <1>2, <1>4
<1>10. T \subseteq U
  BY <1>3
<1> HIDE DEF n, New, G
<1>11. Typed(U)' /\ Quiet
  BY <1>0, <1>5, <1>6, <1>7, <1>8, <1>9, <1>10, Frame
<1>12. QED
  BY <1>11

(* Any set of subscriptions can be listed                                  *)
LEMMA Listed ==
    ASSUME NEW S \in SUBSET Subscriptions
    PROVE  /\ SetToSeq(S) \in Seq(S) /\ SetToSeq(S) \in Seq(Subscriptions)
           /\ Len(SetToSeq(S)) \in Nat
           /\ \A i \in 1..Len(SetToSeq(S)) : SetToSeq(S)[i] \in S
           /\ \A i, j \in 1..Len(SetToSeq(S)) : SetToSeq(S)[i] = SetToSeq(S)[j] => i = j
<1>1. IsFiniteSet(S)
  BY ClientAssumption, FS_Subset
<1>2. SetToSeq(S) \in Seq(S)
  BY <1>1, OrderTyped
<1>3. SetToSeq(S) \in Seq(Subscriptions)
  BY <1>2, LargerSeq
<1>4. QED
  BY <1>1, <1>2, <1>3, OrderTyped

(* asyncUnsubscribeAll()                                                   *)
LEMMA UnsubscribeAllTypes ==
    ASSUME TypeOK, NEW T, Typed(T), asyncUnsubscribeAll
    PROVE  KeepsTypes
<1>0. ClientTypes /\ ConnectionTypes
  BY HasClientTypes
<1>1. now # <<>> /\ Head(now).do = "asyncUnsubscribeAll"
  BY DEF asyncUnsubscribeAll, Runs
<1>2. Answer.hs \in Seq(T) /\ created \in Nat
  <2>1. Answer \in Items(T, created) /\ created \in Nat
    BY <1>1, Running DEF Answer
  <2>2. QED
    BY <1>1, <2>1, ItemFacts DEF Answer
<1>3. /\ UNCHANGED <<connection, created, usable, ops, faults, channelStatus, channel, guarded,
                     preparation, registered, exchanges, subscriptions, handlers, postponed,
                     bound, published, told, crashed, mishaps, called, messages>>
      /\ wanted' \subseteq wanted
  BY DEF asyncUnsubscribeAll, library, observed
<1>4. ClientTypes'
  <2>1. wanted' \subseteq Subscriptions
    BY <1>0, <1>3 DEF ClientTypes
  <2>2. QED
    BY <1>0, <1>3, <2>1, Zenon DEF ClientTypes
<1>5. TypeOK'
  BY <1>0, <1>3, <1>4, StepTypes DEF ConnectionTypes
<1>6. handlers' \in [Subscriptions -> Seq(T)] /\ ops' \in Seq(Operations(created))
  BY <1>3 DEF Typed
<1>7. (\E U : Typed(U)') /\ Quiet
  <2> DEFINE known == {s \in Subscriptions : subscriptions[s] # "none"}
             order == SetToSeq(known)
             g == Len(groups) + 1
             U == T \cup {OneDone(g, s) : s \in Subscriptions}
             extra == [i \in 1..Len(order) |-> Unsubscribe(order[i], <<OneDone(g, order[i])>>)]
  <2>1. CASE known = {}
    <3>1. Then(Call(Answer.hs, TRUE)) /\ UNCHANGED <<posts, groups>>
      BY <2>1 DEF asyncUnsubscribeAll
    <3>2. Call(Answer.hs, TRUE) \in Seq(Items(T, created))
      BY <1>2, CallTyped
    <3>3. now' \in Seq(Items(T, created))
      BY <1>1, <3>1, <3>2, Following
    <3>4. Typed(T)' /\ Quiet
      BY <1>3, <1>6, <3>1, <3>3, PlainFrame
    <3>5. QED
      BY <3>4
  <2>2. CASE known # {}
    <3> DEFINE r == [left |-> known, ok |-> TRUE, hs |-> Answer.hs]
    <3>1. groups' = Append(groups, r) /\ posts' = posts \o extra /\ Then(<<>>)
      BY <2>2 DEF asyncUnsubscribeAll
    <3>2. r \in [left : SUBSET Subscriptions, ok : BOOLEAN, hs : Seq(T)]
      BY <1>2
    <3>3. now' \in Seq(Items(T, created))
      BY <1>1, <3>1, Short, Following
    <3>4. extra \in Seq(Items(U, created))
      <4>1. order \in Seq(Subscriptions) /\ Len(order) \in Nat
        BY Listed
      <4>2. \A s \in Subscriptions : <<OneDone(g, s)>> \in Seq(U)
        <5>1. \A s \in Subscriptions : OneDone(g, s) \in U
          OBVIOUS
        <5> HIDE DEF U
        <5>2. QED
          BY <5>1, Short
      <4> HIDE DEF U, order, g
      <4>3. \A s \in Subscriptions : Unsubscribe(s, <<OneDone(g, s)>>) \in Items(U, created)
        BY <4>2, <1>2, ItemsMade
      <4>4. \A i \in 1..Len(order) : order[i] \in Subscriptions
        BY <4>1
      <4>5. QED
        BY <4>1, <4>3, <4>4
    <3> HIDE DEF r, extra, order, known
    <3>5. QED
      BY <1>3, <1>6, <3>1, <3>2, <3>3, <3>4, GroupFrame
  <2>3. QED
    BY <2>1, <2>2
<1>8. QED
  BY <1>3, <1>5, <1>7 DEF KeepsTypes

(* reviveIfReconnected()                                                   *)
LEMMA ReviveTypes ==
    ASSUME TypeOK, NEW T, Typed(T), reviveIfReconnected
    PROVE  KeepsTypes
<1>0. ClientTypes /\ ConnectionTypes
  BY HasClientTypes
<1>1. now # <<>> /\ Head(now).do = "reviveIfReconnected"
  BY DEF reviveIfReconnected, Runs
<1> DEFINE known == {s \in Subscriptions : subscriptions[s] # "none"}
           order == SetToSeq(known)
           g == Len(groups) + 1
           U == T \cup {OneDone(g, s) : s \in Subscriptions}
           extra == [i \in 1..Len(order) |->
                        Subscribe(order[i], Append(handlers[order[i]], OneDone(g, order[i])))]
<1>2. /\ UNCHANGED <<connection, created, ops, faults, guarded, postponed, bound, published,
                     told, crashed, called, messages, wanted>>
      /\ channel' = 0 /\ usable' \subseteq usable
      /\ exchanges' = [e \in Exchanges |-> "none"]
      /\ subscriptions' = [s \in Subscriptions |-> "none"]
      /\ handlers' = [s \in Subscriptions |-> <<>>]
  BY DEF reviveIfReconnected, ClearedSubscriptions, calls
<1>3. /\ now' \in Seq(Items(T, created))
      /\ channelStatus' \in {"REQUEST", "CREATE"} /\ preparation' \in {"none", "publish"}
      /\ registered' \in BOOLEAN
  <2>1. CASE known # {}
    <3>1. channelStatus' = "REQUEST" /\ preparation' = "none" /\ Then(<<>>) /\ UNCHANGED registered
      BY <2>1 DEF reviveIfReconnected
    <3>2. now' \in Seq(Items(T, created))
      BY <1>1, <3>1, Short, Following
    <3>3. QED
      BY <1>0, <3>1, <3>2 DEF ClientTypes
  <2>2. CASE known = {}
    <3>1. asyncPrepareChannel("publish")
      BY <2>2 DEF reviveIfReconnected
    <3>2. QED
      BY <1>1, <3>1, PrepareTypes
  <2>3. QED
    BY <2>1, <2>2
<1>4. mishaps' \subseteq Mishaps
  BY Noted DEF reviveIfReconnected, Mishaps
<1>5. ClientTypes'
  <2>1. channel' \in 0..created /\ created \in Nat
    BY <1>0, <1>2 DEF ConnectionTypes
  <2>2. /\ channelStatus' \in {"REQUEST", "CREATE", "CREATE_QUEUE", "CREATE_CONSUMER", "READY"}
        /\ preparation' \in {"none", "subscribe", "publish"}
        /\ exchanges' \in [Exchanges -> {"none", "DECLARING", "DECLARED", "BINDING", "PUBLISHABLE"}]
        /\ subscriptions' \in [Subscriptions -> Unready \cup {"none", "READY", "UNBIND_QUEUE"}]
    BY <1>2, <1>3
  <2>3. QED
    BY <1>0, <1>2, <1>3, <1>4, <2>1, <2>2, Zenon DEF ClientTypes
<1>6. TypeOK'
  BY <1>0, <1>2, <1>5, StepTypes DEF ConnectionTypes
<1>7. handlers' \in [Subscriptions -> Seq(T)] /\ ops' \in Seq(Operations(created))
  <2>1. ops' \in Seq(Operations(created))
    BY <1>2 DEF Typed
  <2>2. <<>> \in Seq(T)
    BY Short
  <2>3. QED
    BY <1>2, <2>1, <2>2
<1>8. (\E V : Typed(V)') /\ Quiet
  <2>0. posts' = posts \o extra
    BY DEF reviveIfReconnected
  <2>1. CASE known = {}
    <3>1. groups' = groups
      BY <2>1 DEF reviveIfReconnected
    <3>2. posts' = posts
      <4>1. order \in Seq(known) /\ Len(order) \in Nat /\ \A i \in 1..Len(order) : order[i] \in known
        BY Listed
      <4> HIDE DEF order
      <4>2. Len(order) = 0
        BY <4>1, <2>1
      <4>3. extra = <<>>
        BY <4>2
      <4>4. posts \in Seq(Items(T, created) \cup Publishes)
        BY DEF Typed
      <4> HIDE DEF extra
      <4>5. QED
        BY <2>0, <4>3, <4>4
    <3>3. Typed(T)' /\ Quiet
      BY <1>2, <1>3, <1>7, <3>1, <3>2, PlainFrame
    <3>4. QED
      BY <3>3
  <2>2. CASE known # {}
    <3> DEFINE r == [left |-> known, ok |-> TRUE, hs |-> <<>>]
    <3>1. groups' = Append(groups, r)
      BY <2>2 DEF reviveIfReconnected
    <3>2. r \in [left : SUBSET Subscriptions, ok : BOOLEAN, hs : Seq(T)]
      <4>1. <<>> \in Seq(T)
        BY Short
      <4>2. QED
        BY <4>1
    <3>4. extra \in Seq(Items(U, created))
      <4>0. order \in Seq(Subscriptions) /\ Len(order) \in Nat /\ created \in Nat
        BY <1>0, Listed DEF ConnectionTypes
      <4>1. \A s \in Subscriptions : handlers[s] \in Seq(U) /\ OneDone(g, s) \in U
        <5>1. Seq(T) \subseteq Seq(U)
          BY LargerSeq
        <5>2. handlers \in [Subscriptions -> Seq(T)]
          BY DEF Typed
        <5>3. QED
          BY <5>1, <5>2
      <4> HIDE DEF U, order, g
      <4>2. \A s \in Subscriptions : Append(handlers[s], OneDone(g, s)) \in Seq(U)
        BY <4>1, Appended
      <4>3. \A s \in Subscriptions : Subscribe(s, Append(handlers[s], OneDone(g, s))) \in Items(U, created)
        BY <4>0, <4>2, ItemsMade
      <4>4. \A i \in 1..Len(order) : order[i] \in Subscriptions
        BY <4>0
      <4>5. QED
        BY <4>0, <4>3, <4>4
    <3> HIDE DEF r, extra, order, known
    <3>5. QED
      BY <1>2, <1>3, <1>7, <2>0, <3>1, <3>2, <3>4, GroupFrame
  <2>3. QED
    BY <2>1, <2>2
<1>9. QED
  BY <1>2, <1>6, <1>8 DEF KeepsTypes

(* doSubscribePending()                                                    *)
LEMMA SubscribePendingTypes ==
    ASSUME TypeOK, NEW T, Typed(T), doSubscribePending
    PROVE  KeepsTypes
<1>0. ClientTypes /\ ConnectionTypes
  BY HasClientTypes
<1>1. now # <<>>
  BY DEF doSubscribePending, Runs
<1> DEFINE todo == {s \in Subscriptions : subscriptions[s] = "PENDING"}
           order == SetToSeq(todo)
           items == [i \in 1..Len(order) |-> Move(order[i])]
<1>2. /\ UNCHANGED <<connection, created, usable, ops, faults, posts, channelStatus, channel,
                     guarded, preparation, registered, exchanges, handlers, postponed, groups,
                     bound, published, told, crashed, mishaps, called, messages, wanted>>
      /\ subscriptions' = [s \in Subscriptions |->
                              IF s \in todo THEN "CHECK_EXCHANGE" ELSE subscriptions[s]]
      /\ Then(items)
  BY DEF doSubscribePending, library, observed, calls
<1>3. items \in Seq(Items(T, created))
  <2>1. order \in Seq(Subscriptions) /\ Len(order) \in Nat
    BY Listed
  <2> HIDE DEF order
  <2>2. \A i \in 1..Len(order) : Move(order[i]) \in Items(T, created)
    BY <1>0, <2>1, ItemsMade DEF ConnectionTypes
  <2>3. QED
    BY <2>1, <2>2
<1>4. now' \in Seq(Items(T, created))
  <2> HIDE DEF items
  <2>1. QED
    BY <1>1, <1>2, <1>3, Following
<1>5. ClientTypes'
  <2>1. subscriptions' \in [Subscriptions -> Unready \cup {"none", "READY", "UNBIND_QUEUE"}]
    <3>1. subscriptions \in [Subscriptions -> Unready \cup {"none", "READY", "UNBIND_QUEUE"}]
          /\ "CHECK_EXCHANGE" \in Unready
      BY <1>0 DEF ClientTypes, Unready
    <3> HIDE DEF todo
    <3>2. QED
      BY <1>2, <3>1
  <2> HIDE DEF todo, items
  <2>2. QED
    BY <1>0, <1>2, <2>1, Zenon DEF ClientTypes
<1> HIDE DEF todo, order, items
<1>6. TypeOK'
  BY <1>0, <1>2, <1>5, StepTypes DEF ConnectionTypes
<1>7. Typed(T)' /\ Quiet
  <2>1. handlers' \in [Subscriptions -> Seq(T)] /\ ops' \in Seq(Operations(created))
    BY <1>2 DEF Typed
  <2>2. QED
    BY <1>2, <1>4, <2>1, PlainFrame
<1>8. QED
  BY <1>2, <1>6, <1>7 DEF KeepsTypes

(* Operations for a subscription or an exchange                            *)
LEMMA OpTypes ==
    ASSUME TypeOK
    PROVE  /\ \A s \in Subscriptions, op \in {"declare", "bind", "unbind"} :
                 Op(op, s) \in Operations(created)
           /\ \A e \in Exchanges, op \in {"declare to publish", "bind to publish"} :
                 Op(op, e) \in Operations(created)
<1>1. channel \in 0..created
  BY DEF TypeOK
<1>2. QED
  BY <1>1 DEF Op, Operations

(* moveSubscriptionState()                                                 *)
LEMMA MoveTypes ==
    ASSUME TypeOK, NEW T, Typed(T), moveSubscriptionState
    PROVE  KeepsTypes
<1>0. ClientTypes /\ ConnectionTypes
  BY HasClientTypes
<1>1. now # <<>> /\ Head(now).do = "moveSubscriptionState"
  BY DEF moveSubscriptionState, Runs
<1> DEFINE s == Answer.s
           e == ExchangeOf[s]
           A == Unready \cup {"none", "READY", "UNBIND_QUEUE"}
           E == {"none", "DECLARING", "DECLARED", "BINDING", "PUBLISHABLE"}
<1>2. s \in Subscriptions
  <2>1. Answer \in Items(T, created) /\ created \in Nat
    BY <1>1, Running DEF Answer
  <2>2. QED
    BY <1>1, <2>1, ItemFacts DEF Answer
<1>3. \/ /\ subscriptions' = [subscriptions EXCEPT ![s] = "BIND_QUEUE"]
         /\ Operation(Op("bind", s), <<>>)
         /\ UNCHANGED exchanges
      \/ /\ subscriptions' = [subscriptions EXCEPT ![s] = "DECLARE_EXCHANGE"]
         /\ exchanges' = [exchanges EXCEPT ![e] = "DECLARING"]
         /\ Operation(Op("declare", s), <<>>)
  BY DEF moveSubscriptionState
<1>4. UNCHANGED <<connection, created, usable, posts, faults, channelStatus, channel, guarded,
                  preparation, registered, handlers, postponed, groups, bound, published,
                  told, mishaps, called, messages, wanted>>
  BY DEF moveSubscriptionState, calls
<1> HIDE DEF s, e
<1>5. crashed' \in BOOLEAN /\ now' \in Seq(Items(T, created)) /\ ops' \in Seq(Operations(created))
  <2>1. Op("bind", s) \in Operations(created) /\ Op("declare", s) \in Operations(created)
    BY <1>2, OpTypes
  <2>2. QED
    BY <1>1, <1>3, <2>1, OperationTypes
<1>6. subscriptions' \in [Subscriptions -> A] /\ exchanges' \in [Exchanges -> E]
  <2>1. /\ subscriptions \in [Subscriptions -> A] /\ exchanges \in [Exchanges -> E]
        /\ "BIND_QUEUE" \in A /\ "DECLARE_EXCHANGE" \in A /\ "DECLARING" \in E
    BY <1>0 DEF ClientTypes, Unready
  <2> HIDE DEF A, E
  <2>2. QED
    BY <2>1, <1>3
<1>7. ClientTypes'
  BY <1>0, <1>4, <1>5, <1>6, Zenon DEF ClientTypes
<1> HIDE DEF A, E
<1>8. TypeOK'
  BY <1>0, <1>4, <1>7, StepTypes DEF ConnectionTypes
<1>9. Typed(T)' /\ Quiet
  <2>1. handlers' \in [Subscriptions -> Seq(T)]
    BY <1>4 DEF Typed
  <2>2. QED
    BY <1>4, <1>5, <2>1, PlainFrame
<1>10. QED
  BY <1>4, <1>8, <1>9 DEF KeepsTypes

(* The handler of a subscription is called                                 *)
LEMMA ReportTypes ==
    ASSUME TypeOK, NEW T, Typed(T), now # <<>>, NEW s \in Subscriptions, NEW b \in BOOLEAN,
           Report(s, b)
    PROVE  now' \in Seq(Items(T, created)) /\ handlers' \in [Subscriptions -> Seq(T)]
<1>0. handlers \in [Subscriptions -> Seq(T)] /\ created \in Nat
  BY DEF Typed, TypeOK
<1>1. Call(handlers[s], b) \in Seq(Items(T, created))
  BY <1>0, CallTyped
<1>2. now' \in Seq(Items(T, created))
  BY <1>1, Following DEF Report
<1>3. <<>> \in Seq(T)
  BY Short
<1>4. handlers' \in [Subscriptions -> Seq(T)]
  BY <1>0, <1>3 DEF Report
<1>5. QED
  BY <1>2, <1>4

(* An exchange is declared for a subscription                              *)
LEMMA ExchangeDeclaredTypes ==
    ASSUME TypeOK, NEW T, Typed(T), exchangeDeclared
    PROVE  KeepsTypes
<1>0. ClientTypes /\ ConnectionTypes
  BY HasClientTypes
<1>1. Runs("reply") /\ Answer.op.op = "declare"
  BY DEF exchangeDeclared, Answered
<1> DEFINE s == Answer.op.x
           e == ExchangeOf[s]
           A == Unready \cup {"none", "READY", "UNBIND_QUEUE"}
           E == {"none", "DECLARING", "DECLARED", "BINDING", "PUBLISHABLE"}
<1>2. now # <<>> /\ s \in Subscriptions
  BY <1>1, AnswerTypes
<1>3. UNCHANGED <<connection, created, usable, ops, faults, posts, channelStatus, channel, guarded,
                  preparation, registered, postponed, groups, bound, published, told, crashed,
                  mishaps, called, messages, wanted>>
  BY DEF exchangeDeclared, library, observed, calls
<1>4. handlers \in [Subscriptions -> Seq(T)] /\ created \in Nat
  BY <1>0 DEF Typed, ConnectionTypes
<1>5. /\ subscriptions \in [Subscriptions -> A] /\ exchanges \in [Exchanges -> E]
      /\ "BIND_QUEUE" \in A /\ "DECLARED" \in E /\ "none" \in E
  BY <1>0 DEF ClientTypes, Unready
<1>6. /\ subscriptions' \in [Subscriptions -> A] /\ exchanges' \in [Exchanges -> E]
      /\ handlers' \in [Subscriptions -> Seq(T)] /\ now' \in Seq(Items(T, created))
  <2>1. CASE Success
    <3>1. /\ exchanges' = [exchanges EXCEPT ![e] =
                              IF @ \in {"none", "DECLARING"} THEN "DECLARED" ELSE @]
          /\ UNCHANGED handlers
      BY <2>1 DEF exchangeDeclared
    <3>2. \/ Then(<<Do("publishPostponed")>>) /\ UNCHANGED subscriptions
          \/ /\ subscriptions' = [subscriptions EXCEPT ![s] = "BIND_QUEUE"]
             /\ Then(<<Move(s), Do("publishPostponed")>>)
      BY <2>1 DEF exchangeDeclared
    <3> HIDE DEF s, e, A, E
    <3>3. Do("publishPostponed") \in Items(T, created) /\ Move(s) \in Items(T, created)
      BY <1>2, <1>4, ItemsMade DEF Plain
    <3>4. /\ <<Do("publishPostponed")>> \in Seq(Items(T, created))
          /\ <<Move(s), Do("publishPostponed")>> \in Seq(Items(T, created))
      BY <3>3
    <3>5. now' \in Seq(Items(T, created))
      BY <1>2, <3>2, <3>4, Following
    <3>6. exchanges' \in [Exchanges -> E]
      BY <1>5, <3>1
    <3>7. subscriptions' \in [Subscriptions -> A]
      BY <1>5, <3>2
    <3>8. QED
      BY <1>4, <3>1, <3>5, <3>6, <3>7
  <2>2. CASE ~Success
    <3>1. /\ exchanges' = [exchanges EXCEPT ![e] = "none"]
          /\ Report(s, FALSE) /\ UNCHANGED subscriptions
      BY <2>2 DEF exchangeDeclared
    <3> HIDE DEF s, e, A, E
    <3>2. now' \in Seq(Items(T, created)) /\ handlers' \in [Subscriptions -> Seq(T)]
      BY <1>2, <3>1, ReportTypes
    <3>3. QED
      BY <1>5, <3>1, <3>2
  <2>3. QED
    BY <2>1, <2>2
<1>7. ClientTypes'
  <2> HIDE DEF s, e
  <2>1. QED
    BY <1>0, <1>3, <1>6, Zenon DEF ClientTypes
<1> HIDE DEF s, e, A, E
<1>8. TypeOK'
  BY <1>0, <1>3, <1>7, StepTypes DEF ConnectionTypes
<1>9. Typed(T)' /\ Quiet
  <2>1. ops' \in Seq(Operations(created))
    BY <1>3 DEF Typed
  <2>2. QED
    BY <1>3, <1>6, <2>1, PlainFrame
<1>10. QED
  BY <1>3, <1>8, <1>9 DEF KeepsTypes

(* The queue is bound                                                      *)
LEMMA QueueBoundTypes ==
    ASSUME TypeOK, NEW T, Typed(T), queueBound
    PROVE  KeepsTypes
<1>0. ClientTypes /\ ConnectionTypes
  BY HasClientTypes
<1>1. Runs("reply") /\ Answer.op.op = "bind"
  BY DEF queueBound, Answered
<1> DEFINE s == Answer.op.x
           A == Unready \cup {"none", "READY", "UNBIND_QUEUE"}
<1>2. now # <<>> /\ s \in Subscriptions /\ Answer.op.ch \in 0..created
  BY <1>1, AnswerTypes
<1>3. /\ UNCHANGED <<connection, created, usable, ops, faults, posts, channelStatus, channel, guarded,
                     preparation, registered, exchanges, postponed, groups, published, told,
                     mishaps, called, messages, wanted>>
      /\ crashed' \in BOOLEAN
  BY DEF queueBound, library, calls
<1>4. handlers \in [Subscriptions -> Seq(T)] /\ subscriptions \in [Subscriptions -> A] /\ "READY" \in A
  BY <1>0 DEF Typed, ClientTypes
<1>5. bound' \subseteq (0..created) \X Subscriptions
  <2>1. Answer.op.ch \in 0..created
    BY <1>2
  <2>2. bound' \subseteq bound \cup {<<Answer.op.ch, s>>}
    BY DEF queueBound
  <2>3. bound \subseteq (0..created) \X Subscriptions
    BY <1>0 DEF ClientTypes
  <2> HIDE DEF s
  <2>4. QED
    BY <2>1, <2>2, <2>3, <1>2
<1>6. /\ subscriptions' \in [Subscriptions -> A] /\ handlers' \in [Subscriptions -> Seq(T)]
      /\ now' \in Seq(Items(T, created))
  <2>1. \/ Then(<<>>) /\ UNCHANGED <<subscriptions, handlers>>
        \/ subscriptions' = [subscriptions EXCEPT ![s] = "READY"] /\ Report(s, TRUE)
        \/ Report(s, FALSE) /\ UNCHANGED subscriptions
    BY DEF queueBound
  <2> HIDE DEF s, A
  <2>2. CASE Then(<<>>) /\ UNCHANGED <<subscriptions, handlers>>
    <3>1. now' \in Seq(Items(T, created))
      BY <1>2, <2>2, Short, Following
    <3>2. QED
      BY <1>4, <2>2, <3>1
  <2>3. CASE subscriptions' = [subscriptions EXCEPT ![s] = "READY"] /\ Report(s, TRUE)
    BY <1>2, <1>4, <2>3, ReportTypes
  <2>4. CASE Report(s, FALSE) /\ UNCHANGED subscriptions
    BY <1>2, <1>4, <2>4, ReportTypes
  <2>5. QED
    BY <2>1, <2>2, <2>3, <2>4
<1>7. ClientTypes'
  <2> HIDE DEF s
  <2>1. QED
    BY <1>0, <1>3, <1>5, <1>6, Zenon DEF ClientTypes
<1> HIDE DEF s, A
<1>8. TypeOK'
  BY <1>0, <1>3, <1>7, StepTypes DEF ConnectionTypes
<1>9. Typed(T)' /\ Quiet
  <2>1. ops' \in Seq(Operations(created))
    BY <1>3 DEF Typed
  <2>2. QED
    BY <1>3, <1>6, <2>1, PlainFrame
<1>10. QED
  BY <1>3, <1>8, <1>9 DEF KeepsTypes

(* The queue is unbound                                                    *)
LEMMA QueueUnboundTypes ==
    ASSUME TypeOK, NEW T, Typed(T), queueUnbound
    PROVE  KeepsTypes
<1>0. ClientTypes /\ ConnectionTypes
  BY HasClientTypes
<1>1. Runs("reply") /\ Answer.op.op = "unbind"
  BY DEF queueUnbound, Answered
<1> DEFINE s == Answer.op.x
           A == Unready \cup {"none", "READY", "UNBIND_QUEUE"}
<1>2. now # <<>> /\ s \in Subscriptions
  BY <1>1, AnswerTypes
<1>3. UNCHANGED <<connection, created, usable, ops, faults, posts, channelStatus, channel, guarded,
                  preparation, registered, exchanges, postponed, groups, published, told,
                  crashed, mishaps, called, messages, wanted>>
  BY DEF queueUnbound, library, calls
<1>4. /\ handlers \in [Subscriptions -> Seq(T)] /\ subscriptions \in [Subscriptions -> A]
      /\ "READY" \in A /\ "none" \in A
  BY <1>0 DEF Typed, ClientTypes
<1>5. bound' \subseteq (0..created) \X Subscriptions
  <2>1. bound' \subseteq bound
    BY DEF queueUnbound
  <2>2. QED
    BY <2>1, <1>0 DEF ClientTypes
<1>6. /\ subscriptions' \in [Subscriptions -> A] /\ handlers' \in [Subscriptions -> Seq(T)]
      /\ now' \in Seq(Items(T, created))
  <2>0. Success \in BOOLEAN
    BY DEF Success
  <2>1. \/ Then(<<>>) /\ UNCHANGED <<subscriptions, handlers>>
        \/ /\ \/ subscriptions' = [subscriptions EXCEPT ![s] = "none"]
              \/ subscriptions' = [subscriptions EXCEPT ![s] = "READY"]
           /\ Report(s, Success)
    BY DEF queueUnbound
  <2> HIDE DEF s, A
  <2>2. CASE Then(<<>>) /\ UNCHANGED <<subscriptions, handlers>>
    <3>1. now' \in Seq(Items(T, created))
      BY <1>2, <2>2, Short, Following
    <3>2. QED
      BY <1>4, <2>2, <3>1
  <2>3. CASE /\ \/ subscriptions' = [subscriptions EXCEPT ![s] = "none"]
                \/ subscriptions' = [subscriptions EXCEPT ![s] = "READY"]
             /\ Report(s, Success)
    <3>1. now' \in Seq(Items(T, created)) /\ handlers' \in [Subscriptions -> Seq(T)]
      BY <1>2, <2>0, <2>3, ReportTypes
    <3>2. QED
      BY <1>4, <2>3, <3>1
  <2>4. QED
    BY <2>1, <2>2, <2>3
<1>7. ClientTypes'
  <2> HIDE DEF s
  <2>1. QED
    BY <1>0, <1>3, <1>5, <1>6, Zenon DEF ClientTypes
<1> HIDE DEF s, A
<1>8. TypeOK'
  BY <1>0, <1>3, <1>7, StepTypes DEF ConnectionTypes
<1>9. Typed(T)' /\ Quiet
  <2>1. ops' \in Seq(Operations(created))
    BY <1>3 DEF Typed
  <2>2. QED
    BY <1>3, <1>6, <2>1, PlainFrame
<1>10. QED
  BY <1>3, <1>8, <1>9 DEF KeepsTypes

(* An exchange is prepared for publishing                                  *)
LEMMA PrepareExchangeTypes ==
    ASSUME TypeOK, NEW T, Typed(T), now # <<>>, NEW e \in Exchanges,
           asyncPrepareExchangeThenPublish(e)
    PROVE  /\ crashed' \in BOOLEAN
           /\ exchanges' \in [Exchanges -> {"none", "DECLARING", "DECLARED", "BINDING", "PUBLISHABLE"}]
           /\ now' \in Seq(Items(T, created)) /\ ops' \in Seq(Operations(created))
<1> DEFINE E == {"none", "DECLARING", "DECLARED", "BINDING", "PUBLISHABLE"}
<1>1. exchanges \in [Exchanges -> E] /\ "BINDING" \in E /\ "DECLARING" \in E
  BY DEF TypeOK
<1>2. /\ Op("bind to publish", e) \in Operations(created)
      /\ Op("declare to publish", e) \in Operations(created)
  BY OpTypes
<1>3. \/ /\ exchanges' = [exchanges EXCEPT ![e] = "BINDING"]
         /\ Operation(Op("bind to publish", e), <<>>)
      \/ /\ exchanges' = [exchanges EXCEPT ![e] = "DECLARING"]
         /\ Operation(Op("declare to publish", e), <<>>)
  BY DEF asyncPrepareExchangeThenPublish
<1>4. crashed' \in BOOLEAN /\ now' \in Seq(Items(T, created)) /\ ops' \in Seq(Operations(created))
  BY <1>2, <1>3, OperationTypes
<1>5. exchanges' \in [Exchanges -> E]
  <2> HIDE DEF E
  <2>1. QED
    BY <1>1, <1>3
<1>6. QED
  BY <1>4, <1>5

(* queueMessage()                                                          *)
LEMMA QueueMessage ==
    ASSUME TypeOK, NEW m \in 1..MaxMessages, queueMessage(m)
    PROVE  /\ postponed' \in Seq(1..MaxMessages) /\ Len(postponed') <= MaxPostponed
           /\ Len(postponed') \in Nat \ {0} /\ postponed'[Len(postponed')] = m
           /\ \E d \in {0, 1} :
                 /\ Len(postponed') = Len(postponed) + 1 - d
                 /\ \A i \in 1..(Len(postponed') - 1) : i + d \in 1..Len(postponed)
                                                          /\ postponed'[i] = postponed[i + d]
<1> DEFINE S == 1..MaxMessages
<1>1. postponed \in Seq(S) /\ Len(postponed) <= MaxPostponed /\ Len(postponed) \in Nat /\ m \in S
  BY DEF TypeOK
<1>2. MaxPostponed \in Nat \ {0}
  BY ClientAssumption
<1> HIDE DEF S
<1>3. CASE Len(postponed) = MaxPostponed
  <2>1. postponed' = Append(Tail(postponed), m)
    BY <1>3 DEF queueMessage
  <2>2. /\ Tail(postponed) \in Seq(S) /\ Len(Tail(postponed)) = Len(postponed) - 1
        /\ \A i \in 1..(Len(postponed) - 1) : Tail(postponed)[i] = postponed[i + 1]
    BY <1>1, <1>2, <1>3
  <2>3. /\ postponed' \in Seq(S) /\ Len(postponed') = Len(postponed)
        /\ postponed'[Len(postponed)] = m
        /\ \A i \in 1..(Len(postponed) - 1) : postponed'[i] = postponed[i + 1]
    BY <1>1, <1>2, <1>3, <2>1, <2>2
  <2>4. /\ Len(postponed') = Len(postponed) + 1 - 1
        /\ \A i \in 1..(Len(postponed') - 1) : i + 1 \in 1..Len(postponed)
                                                 /\ postponed'[i] = postponed[i + 1]
    BY <1>1, <2>3
  <2>5. QED
    BY <1>1, <1>2, <1>3, <2>3, <2>4 DEF S
<1>4. CASE Len(postponed) # MaxPostponed
  <2>1. postponed' = Append(postponed, m)
    BY <1>4 DEF queueMessage
  <2>2. /\ postponed' \in Seq(S) /\ Len(postponed') = Len(postponed) + 1
        /\ postponed'[Len(postponed) + 1] = m
        /\ \A i \in 1..Len(postponed) : postponed'[i] = postponed[i]
    BY <1>1, <2>1
  <2>3. /\ Len(postponed') = Len(postponed) + 1 - 0
        /\ \A i \in 1..(Len(postponed') - 1) : i + 0 \in 1..Len(postponed)
                                                 /\ postponed'[i] = postponed[i + 0]
    BY <1>1, <2>2
  <2>4. QED
    BY <1>1, <1>2, <1>4, <2>2, <2>3 DEF S
<1>5. QED
  BY <1>3, <1>4

(* asyncPublish()                                                          *)
LEMMA PublishTypes ==
    ASSUME TypeOK, NEW T, Typed(T), asyncPublish
    PROVE  /\ TypeOK' /\ Typed(T)' /\ UNCHANGED <<posts, messages>>
           /\ Len(now) = 1 /\ now[1] = Answer /\ Answer.m \in 1..MaxMessages
           /\ \A i \in 1..Len(now') : ~IsPublish(now'[i])
           /\ \/ queueMessage(Answer.m) /\ UNCHANGED published
              \/ postponed = <<>> /\ published' = Append(published, Answer.m) /\ UNCHANGED postponed
<1>0. ClientTypes /\ ConnectionTypes
  BY HasClientTypes
<1>1. now # <<>> /\ Head(now).do = "asyncPublish"
  BY DEF asyncPublish, Runs
<1>2. Len(now) = 1 /\ now[1] = Answer /\ Answer.m \in 1..MaxMessages
  <2>1. now \in [1..1 -> Publishes]
    <3>1. SUFFICES ASSUME now \in Seq(Items(T, created))
                   PROVE  FALSE
      BY DEF Typed
    <3>2. Head(now) \in Items(T, created)
      BY <1>1, <3>1
    <3>3. QED
      BY <1>0, <1>1, <3>2, ItemFacts DEF ConnectionTypes
  <2>2. Len(now) = 1 /\ Head(now) = now[1] /\ now[1] \in Publishes
    BY <2>1, Single
  <2>3. QED
    BY <2>2 DEF Answer, Publishes
<1> DEFINE m == Answer.m
           e == ExchangeOf[m]
<1>3. e \in Exchanges
  BY <1>2, ClientAssumption
<1>4. UNCHANGED <<connection, created, usable, posts, faults, channel, guarded, subscriptions,
                  handlers, groups, bound, told, mishaps, called, messages, wanted>>
  BY DEF asyncPublish, calls
<1>5. /\ crashed \in BOOLEAN /\ registered \in BOOLEAN
      /\ exchanges \in [Exchanges -> {"none", "DECLARING", "DECLARED", "BINDING", "PUBLISHABLE"}]
      /\ postponed \in Seq(1..MaxMessages) /\ Len(postponed) <= MaxPostponed
      /\ published \in Seq(1..MaxMessages)
  BY <1>0 DEF ClientTypes
<1>6. ops \in Seq(Operations(created)) /\ <<>> \in Seq(Items(T, created))
  BY Short DEF Typed
<1>7. /\ crashed' \in BOOLEAN /\ registered' \in BOOLEAN
      /\ channelStatus' \in {channelStatus, "CREATE"} /\ preparation' \in {preparation, "publish"}
      /\ exchanges' \in [Exchanges -> {"none", "DECLARING", "DECLARED", "BINDING", "PUBLISHABLE"}]
      /\ now' \in Seq(Items(T, created)) /\ ops' \in Seq(Operations(created))
      /\ \/ queueMessage(m) /\ UNCHANGED published
         \/ postponed = <<>> /\ published' = Append(published, m) /\ UNCHANGED postponed
  <2>1. CASE /\ channelStatus = "REQUEST"
             /\ queueMessage(m) /\ asyncPrepareChannel("publish")
             /\ UNCHANGED <<ops, exchanges, published, crashed>>
    <3> HIDE DEF m, e
    <3>1. /\ channelStatus' = "CREATE" /\ preparation' = "publish" /\ registered' = TRUE
          /\ now' \in Seq(Items(T, created))
      BY <1>1, <2>1, PrepareTypes
    <3>2. QED
      BY <1>5, <1>6, <2>1, <3>1
  <2>2. CASE /\ channelStatus = "READY" /\ exchanges[e] \in {"none", "DECLARED"}
             /\ queueMessage(m) /\ asyncPrepareExchangeThenPublish(e)
             /\ UNCHANGED <<channelStatus, preparation, registered, published>>
    <3> HIDE DEF m, e
    <3>1. /\ crashed' \in BOOLEAN
          /\ exchanges' \in [Exchanges -> {"none", "DECLARING", "DECLARED", "BINDING", "PUBLISHABLE"}]
          /\ now' \in Seq(Items(T, created)) /\ ops' \in Seq(Operations(created))
      BY <1>1, <1>3, <2>2, PrepareExchangeTypes
    <3>2. QED
      BY <1>5, <2>2, <3>1
  <2>3. CASE /\ channelStatus = "READY" /\ Direct(e) /\ channel \in usable
             /\ published' = Append(published, m) /\ Then(<<>>)
             /\ UNCHANGED <<ops, channelStatus, preparation, registered, exchanges,
                            postponed, crashed>>
    <3> HIDE DEF m, e
    <3>1. now' \in Seq(Items(T, created))
      BY <1>1, <1>6, <2>3, Following
    <3>2. postponed = <<>>
      BY <2>3 DEF Direct
    <3>3. QED
      BY <1>5, <1>6, <2>3, <3>1, <3>2
  <2>4. CASE /\ queueMessage(m) /\ Then(<<>>)
             /\ UNCHANGED <<ops, channelStatus, preparation, registered, exchanges,
                            published, crashed>>
    <3> HIDE DEF m, e
    <3>1. now' \in Seq(Items(T, created))
      BY <1>1, <1>6, <2>4, Following
    <3>2. QED
      BY <1>5, <1>6, <2>4, <3>1
  <2>5. QED
    BY <2>1, <2>2, <2>3, <2>4 DEF asyncPublish
<1>8. m \in 1..MaxMessages
  BY <1>2
<1> HIDE DEF m, e
<1>9. /\ postponed' \in Seq(1..MaxMessages) /\ Len(postponed') <= MaxPostponed
      /\ published' \in Seq(1..MaxMessages)
  <2>1. CASE queueMessage(m) /\ UNCHANGED published
    BY <1>5, <1>8, <2>1, QueueMessage
  <2>2. CASE published' = Append(published, m) /\ UNCHANGED postponed
    <3> DEFINE S == 1..MaxMessages
    <3> HIDE DEF S
    <3>1. published \in Seq(S) /\ m \in S
      BY <1>5, <1>8 DEF S
    <3>2. published' \in Seq(S)
      BY <3>1, <2>2, Appended
    <3>3. QED
      BY <1>5, <2>2, <3>2 DEF S
  <2>3. QED
    BY <1>7, <2>1, <2>2
<1>10. ClientTypes'
  <2>1. /\ channelStatus' \in {"REQUEST", "CREATE", "CREATE_QUEUE", "CREATE_CONSUMER", "READY"}
        /\ preparation' \in {"none", "subscribe", "publish"}
    BY <1>0, <1>7 DEF ClientTypes
  <2>2. QED
    BY <1>0, <1>4, <1>7, <1>9, <2>1, Zenon DEF ClientTypes
<1>11. TypeOK'
  BY <1>0, <1>4, <1>10, StepTypes DEF ConnectionTypes
<1>12. Typed(T)' /\ Quiet
  <2>1. handlers' \in [Subscriptions -> Seq(T)]
    BY <1>4 DEF Typed
  <2>2. QED
    BY <1>4, <1>7, <2>1, PlainFrame
<1>13. \A i \in 1..Len(now') : ~IsPublish(now'[i])
  <2>1. \A i \in 1..Len(now') : now'[i] \in Items(T, created)
    BY <1>7
  <2>2. QED
    BY <1>0, <2>1, ItemFacts DEF IsPublish, ConnectionTypes
<1>14. QED
  BY <1>2, <1>4, <1>7, <1>11, <1>12, <1>13 DEF m

(* publishPostponed()                                                      *)
LEMMA PublishPostponedTypes ==
    ASSUME TypeOK, NEW T, Typed(T), publishPostponed
    PROVE  /\ TypeOK' /\ Typed(T)' /\ Quiet /\ UNCHANGED messages
           /\ \/ UNCHANGED <<published, postponed>>
              \/ /\ postponed # <<>> /\ published' = Append(published, Head(postponed))
                 /\ postponed' = Tail(postponed)
<1>0. ClientTypes /\ ConnectionTypes
  BY HasClientTypes
<1>1. now # <<>> /\ Head(now).do = "publishPostponed"
  BY DEF publishPostponed, Runs
<1> DEFINE m == Head(postponed)
           e == ExchangeOf[m]
           S == 1..MaxMessages
<1>2. UNCHANGED <<connection, created, usable, posts, faults, channelStatus, channel, guarded,
                  preparation, registered, subscriptions, handlers, groups, bound, told, mishaps,
                  called, messages, wanted>>
  BY DEF publishPostponed, calls
<1>3. /\ crashed \in BOOLEAN
      /\ exchanges \in [Exchanges -> {"none", "DECLARING", "DECLARED", "BINDING", "PUBLISHABLE"}]
      /\ postponed \in Seq(S) /\ Len(postponed) <= MaxPostponed /\ published \in Seq(S)
  BY <1>0 DEF ClientTypes
<1>4. postponed # <<>> => m \in S /\ Tail(postponed) \in Seq(S)
                            /\ Len(Tail(postponed)) <= MaxPostponed
  <2> HIDE DEF S
  <2>1. MaxPostponed \in Nat
    BY ClientAssumption
  <2>2. QED
    BY <1>3, <2>1
<1>5. postponed # <<>> => e \in Exchanges
  BY <1>4, ClientAssumption
<1>6. ops \in Seq(Operations(created)) /\ <<>> \in Seq(Items(T, created))
  BY Short DEF Typed
<1>7. \/ /\ postponed # <<>>
         /\ published' = Append(published, m) /\ postponed' = Tail(postponed)
         /\ UNCHANGED <<now, ops, exchanges, crashed>>
      \/ /\ postponed # <<>>
         /\ asyncPrepareExchangeThenPublish(e)
         /\ UNCHANGED <<published, postponed>>
      \/ /\ Then(<<>>)
         /\ UNCHANGED <<ops, exchanges, published, postponed, crashed>>
  BY DEF publishPostponed
<1> HIDE DEF m, e, S
<1>8. /\ crashed' \in BOOLEAN
      /\ exchanges' \in [Exchanges -> {"none", "DECLARING", "DECLARED", "BINDING", "PUBLISHABLE"}]
      /\ now' = now \/ now' \in Seq(Items(T, created))
      /\ ops' \in Seq(Operations(created))
      /\ postponed' \in Seq(S) /\ Len(postponed') <= MaxPostponed /\ published' \in Seq(S)
      /\ \/ UNCHANGED <<published, postponed>>
         \/ /\ postponed # <<>> /\ published' = Append(published, m)
            /\ postponed' = Tail(postponed)
  <2>1. CASE /\ postponed # <<>>
             /\ published' = Append(published, m) /\ postponed' = Tail(postponed)
             /\ UNCHANGED <<now, ops, exchanges, crashed>>
    <3>1. published' \in Seq(S)
      BY <2>1, <1>3, <1>4, Appended
    <3>2. QED
      BY <2>1, <3>1, <1>3, <1>4, <1>6
  <2>2. CASE /\ postponed # <<>>
             /\ asyncPrepareExchangeThenPublish(e)
             /\ UNCHANGED <<published, postponed>>
    <3>1. /\ crashed' \in BOOLEAN
          /\ exchanges' \in [Exchanges -> {"none", "DECLARING", "DECLARED", "BINDING", "PUBLISHABLE"}]
          /\ now' \in Seq(Items(T, created)) /\ ops' \in Seq(Operations(created))
      BY <1>1, <1>5, <2>2, PrepareExchangeTypes
    <3>2. QED
      BY <2>2, <3>1, <1>3
  <2>3. CASE /\ Then(<<>>)
             /\ UNCHANGED <<ops, exchanges, published, postponed, crashed>>
    <3>1. now' \in Seq(Items(T, created))
      BY <1>1, <1>6, <2>3, Following
    <3>2. QED
      BY <2>3, <3>1, <1>3, <1>6
  <2>4. QED
    BY <1>7, <2>1, <2>2, <2>3
<1>9. ClientTypes'
  BY <1>0, <1>2, <1>8, Zenon DEF ClientTypes, S
<1>10. TypeOK'
  BY <1>0, <1>2, <1>9, StepTypes DEF ConnectionTypes
<1>11. Typed(T)' /\ Quiet
  <2>1. handlers' \in [Subscriptions -> Seq(T)]
    BY <1>2 DEF Typed
  <2>2. QED
    BY <1>2, <1>8, <2>1, PlainFrame
<1>12. QED
  BY <1>2, <1>8, <1>10, <1>11 DEF m

(* An exchange is declared for publishing                                  *)
LEMMA DeclaredToPublishTypes ==
    ASSUME TypeOK, NEW T, Typed(T), declaredToPublish
    PROVE  KeepsTypes
<1>0. ClientTypes /\ ConnectionTypes
  BY HasClientTypes
<1>1. Runs("reply") /\ Answer.op.op = "declare to publish"
  BY DEF declaredToPublish, Answered
<1> DEFINE e == Answer.op.x
           E == {"none", "DECLARING", "DECLARED", "BINDING", "PUBLISHABLE"}
<1>2. now # <<>> /\ e \in Exchanges
  BY <1>1, AnswerTypes
<1>3. UNCHANGED <<connection, created, usable, posts, faults, channelStatus, channel, guarded,
                  preparation, registered, subscriptions, handlers, postponed, groups, bound,
                  published, told, mishaps, called, messages, wanted>>
  BY DEF declaredToPublish, calls
<1>4. /\ crashed \in BOOLEAN /\ exchanges \in [Exchanges -> E] /\ "BINDING" \in E /\ "none" \in E
      /\ created \in Nat
  BY <1>0 DEF ClientTypes, ConnectionTypes
<1>5. ops \in Seq(Operations(created))
  BY DEF Typed
<1>6. /\ crashed' \in BOOLEAN /\ exchanges' \in [Exchanges -> E]
      /\ now' \in Seq(Items(T, created)) /\ ops' \in Seq(Operations(created))
  <2>1. CASE Success
    <3>1. exchanges' = [exchanges EXCEPT ![e] = "BINDING"] /\ Operation(Op("bind to publish", e), <<>>)
      BY <2>1 DEF declaredToPublish
    <3> HIDE DEF e, E
    <3>2. Op("bind to publish", e) \in Operations(created)
      BY <1>2, OpTypes
    <3>3. crashed' \in BOOLEAN /\ now' \in Seq(Items(T, created)) /\ ops' \in Seq(Operations(created))
      BY <1>2, <3>1, <3>2, OperationTypes
    <3>4. QED
      BY <1>4, <3>1, <3>3
  <2>2. CASE ~Success
    <3>1. /\ exchanges' = [exchanges EXCEPT ![e] = "none"]
          /\ Then(IF channel \in usable THEN <<Do("publishPostponed")>> ELSE <<>>)
          /\ UNCHANGED ops /\ crashed' \in BOOLEAN
      BY <2>2 DEF declaredToPublish
    <3> HIDE DEF e, E
    <3>2. Do("publishPostponed") \in Items(T, created)
      BY <1>4, ItemsMade DEF Plain
    <3>3. (IF channel \in usable THEN <<Do("publishPostponed")>> ELSE <<>>) \in Seq(Items(T, created))
      BY <3>2, Short
    <3>4. now' \in Seq(Items(T, created))
      BY <1>2, <3>1, <3>3, Following
    <3>5. QED
      BY <1>4, <1>5, <3>1, <3>4
  <2>3. QED
    BY <2>1, <2>2
<1>7. ClientTypes'
  <2> HIDE DEF e
  <2>1. QED
    BY <1>0, <1>3, <1>6, Zenon DEF ClientTypes
<1> HIDE DEF e, E
<1>8. TypeOK'
  BY <1>0, <1>3, <1>7, StepTypes DEF ConnectionTypes
<1>9. Typed(T)' /\ Quiet
  <2>1. handlers' \in [Subscriptions -> Seq(T)]
    BY <1>3 DEF Typed
  <2>2. QED
    BY <1>3, <1>6, <2>1, PlainFrame
<1>10. QED
  BY <1>3, <1>8, <1>9 DEF KeepsTypes

(* An exchange is bound for publishing                                     *)
LEMMA BoundToPublishTypes ==
    ASSUME TypeOK, NEW T, Typed(T), boundToPublish
    PROVE  KeepsTypes
<1>0. ClientTypes /\ ConnectionTypes
  BY HasClientTypes
<1>1. Runs("reply") /\ Answer.op.op = "bind to publish"
  BY DEF boundToPublish, Answered
<1> DEFINE E == {"none", "DECLARING", "DECLARED", "BINDING", "PUBLISHABLE"}
<1>2. now # <<>>
  BY <1>1 DEF Runs
<1>3. UNCHANGED <<connection, created, usable, ops, faults, posts, channelStatus, channel, guarded,
                  preparation, registered, subscriptions, handlers, postponed, groups, bound,
                  published, told, crashed, mishaps, called, messages, wanted>>
  BY DEF boundToPublish, library, observed, calls
<1>4. exchanges' \in [Exchanges -> E] /\ now' \in Seq(Items(T, created))
  <2>1. exchanges \in [Exchanges -> E] /\ created \in Nat
    BY <1>0 DEF ClientTypes, ConnectionTypes
  <2>2. Do("publishPostponed") \in Items(T, created)
    BY <2>1, ItemsMade DEF Plain
  <2>3. \/ /\ exchanges' = [exchanges EXCEPT ![Answer.op.x] = "PUBLISHABLE"]
           /\ Then(<<Do("publishPostponed")>>)
        \/ Then(<<>>) /\ UNCHANGED exchanges
    BY DEF boundToPublish
  <2>4. now' \in Seq(Items(T, created))
    BY <1>2, <2>2, <2>3, Short, Following
  <2>5. QED
    BY <2>1, <2>3, <2>4
<1>5. ClientTypes'
  BY <1>0, <1>3, <1>4, Zenon DEF ClientTypes
<1> HIDE DEF E
<1>6. TypeOK'
  BY <1>0, <1>3, <1>5, StepTypes DEF ConnectionTypes
<1>7. Typed(T)' /\ Quiet
  <2>1. handlers' \in [Subscriptions -> Seq(T)] /\ ops' \in Seq(Operations(created))
    BY <1>3 DEF Typed
  <2>2. QED
    BY <1>3, <1>4, <2>1, PlainFrame
<1>8. QED
  BY <1>3, <1>6, <1>7 DEF KeepsTypes

(* An answer is dropped                                                    *)
LEMMA DroppedTypes ==
    ASSUME TypeOK, NEW T, Typed(T), answerDropped
    PROVE  KeepsTypes
<1>0. ClientTypes /\ ConnectionTypes
  BY HasClientTypes
<1>1. now # <<>> /\ Then(<<>>)
  BY DEF answerDropped, Runs
<1>2. now' \in Seq(Items(T, created))
  BY <1>1, Short, Following
<1>3. UNCHANGED <<connection, created, usable, ops, faults, posts, channelStatus, channel, guarded,
                  preparation, registered, exchanges, subscriptions, handlers, postponed, groups,
                  bound, published, told, crashed, mishaps, called, messages, wanted>>
  BY DEF answerDropped, library, client, observed, calls
<1>4. ClientTypes'
  BY <1>0, <1>3, Zenon DEF ClientTypes
<1>5. TypeOK'
  BY <1>0, <1>3, <1>4, StepTypes DEF ConnectionTypes
<1>6. Typed(T)' /\ Quiet
  <2>1. handlers' \in [Subscriptions -> Seq(T)] /\ ops' \in Seq(Operations(created))
    BY <1>3 DEF Typed
  <2>2. QED
    BY <1>2, <1>3, <2>1, PlainFrame
<1>7. QED
  BY <1>3, <1>5, <1>6 DEF KeepsTypes

(* A group keeps its type                                                  *)
LEMMA GroupReplaced ==
    ASSUME NEW T, NEW old \in [left : SUBSET Subscriptions, ok : BOOLEAN, hs : Seq(T)],
           NEW l \in SUBSET Subscriptions, NEW b \in BOOLEAN
    PROVE  [old EXCEPT !.left = l, !.ok = b]
              \in [left : SUBSET Subscriptions, ok : BOOLEAN, hs : Seq(T)]
OBVIOUS

(* A resubscription or unsubscription of a group is done                   *)
LEMMA GroupChanged ==
    ASSUME NEW T, NEW old \in [left : SUBSET Subscriptions, ok : BOOLEAN, hs : Seq(T)],
           NEW s, NEW b \in BOOLEAN
    PROVE  [old EXCEPT !.left = @ \ {s}, !.ok = @ /\ b]
              \in [left : SUBSET Subscriptions, ok : BOOLEAN, hs : Seq(T)]
<1>1. old.ok \in BOOLEAN /\ old.left \in SUBSET Subscriptions
  OBVIOUS
<1>2. (old.ok /\ b) \in BOOLEAN /\ old.left \ {s} \in SUBSET Subscriptions
  BY <1>1, Zenon
<1>3. QED
  BY <1>2, GroupReplaced, Zenon

(* A part of a handler is executed                                         *)
LEMMA HandlerTypes ==
    ASSUME TypeOK, NEW T, Typed(T), handler
    PROVE  KeepsTypes
<1>0. ClientTypes /\ ConnectionTypes
  BY HasClientTypes
<1>1. now # <<>> /\ Head(now).do = "handler"
  BY DEF handler, Runs
<1> DEFINE h == Answer.h
           G == [left : SUBSET Subscriptions, ok : BOOLEAN, hs : Seq(T)]
<1>2. h \in T /\ h \in Parts(T, Len(groups)) /\ Answer.ok \in BOOLEAN /\ created \in Nat
  <2>1. Answer \in Items(T, created) /\ created \in Nat
    BY <1>1, Running DEF Answer
  <2>2. h \in T /\ Answer.ok \in BOOLEAN
    BY <1>1, <2>1, ItemFacts DEF Answer
  <2>3. QED
    BY <2>1, <2>2 DEF Typed
<1>3. UNCHANGED <<connection, created, usable, ops, faults, channelStatus, channel, guarded,
                  preparation, registered, exchanges, subscriptions, handlers, postponed, bound,
                  published, crashed, mishaps, called, messages, wanted>>
  BY DEF handler, library, calls
<1>4. handlers' \in [Subscriptions -> Seq(T)] /\ ops' \in Seq(Operations(created))
  BY <1>3 DEF Typed
<1>5. told' \in [1..MaxCalls -> Nat] /\ Typed(T)' /\ Quiet
  <2>0. told \in [1..MaxCalls -> Nat]
    BY <1>0 DEF ClientTypes
  <2>1. CASE /\ h.do = "tell"
             /\ told' = [told EXCEPT ![h.n] = @ + 1]
             /\ Then(<<>>)
             /\ UNCHANGED <<posts, groups>>
    <3> HIDE DEF h
    <3>1. now' \in Seq(Items(T, created))
      BY <1>1, <2>1, Short, Following
    <3>2. Typed(T)' /\ Quiet
      BY <1>3, <1>4, <2>1, <3>1, PlainFrame
    <3>3. told' \in [1..MaxCalls -> Nat]
      <4> DEFINE L == 1..MaxCalls
      <4>1. told \in [L -> Nat] /\ told' = [told EXCEPT ![h.n] = told[h.n] + 1]
        BY <2>0, <2>1
      <4> HIDE DEF L
      <4>2. \A k \in L : told[k] \in Nat /\ told[k] + 1 \in Nat
        BY <4>1
      <4>3. told' \in [L -> Nat]
        BY <4>1, <4>2
      <4>4. QED
        BY <4>3 DEF L
    <3>4. QED
      BY <3>2, <3>3
  <2>2. CASE /\ h.do = "one done"
             /\ groups' = [groups EXCEPT ![h.g].left = @ \ {h.s}, ![h.g].ok = @ /\ Answer.ok]
             /\ LET group == groups'[h.g] IN
                Then(CASE group.left # {} -> <<>>
                       [] group.left = {} /\ group.hs # <<>> -> Call(group.hs, group.ok)
                       [] group.left = {} /\ group.hs = <<>> ->
                             IF group.ok THEN <<Do("publishPostponed")>> ELSE <<>>)
             /\ UNCHANGED <<posts, told>>
    <3>1. h.g \in 1..Len(groups) /\ Len(groups) \in Nat
      <4>1. h.g \in 1..Len(groups)
        <5> HIDE DEF h
        <5>1. QED
          BY <1>2, <2>2 DEF Parts, Repeated
      <4>2. QED
        BY <4>1 DEF Typed
    <3>2. groups \in Seq(G)
      BY DEF Typed
    <3> DEFINE old == groups[h.g]
               new == [old EXCEPT !.left = @ \ {h.s}, !.ok = @ /\ Answer.ok]
    <3>3. old \in G
      <4> HIDE DEF h, G
      <4>1. QED
        BY <3>1, <3>2
    <3>4. new \in G
      <4> HIDE DEF old, h
      <4>1. QED
        BY <1>2, <3>3, GroupChanged
    <3>5. groups' = [groups EXCEPT ![h.g] = new]
      BY <2>2
    <3> HIDE DEF G, new, old
    <3>6. groups' \in Seq(G) /\ Len(groups') = Len(groups) /\ groups'[h.g] = new
      <4> HIDE DEF h
      <4>1. QED
        BY <3>1, <3>2, <3>4, <3>5, ExceptSeq
    <3>7. /\ groups'[h.g].hs \in Seq(T) /\ groups'[h.g].ok \in BOOLEAN
      <4> HIDE DEF h
      <4>1. QED
        BY <3>4, <3>6 DEF G
    <3>8. now' \in Seq(Items(T, created))
      <4> DEFINE group == groups'[h.g]
      <4>1. Call(group.hs, group.ok) \in Seq(Items(T, created))
        <5> HIDE DEF h
        <5>1. QED
          BY <1>2, <3>7, CallTyped
      <4>2. Do("publishPostponed") \in Items(T, created)
        BY <1>2, ItemsMade DEF Plain
      <4>3. <<Do("publishPostponed")>> \in Seq(Items(T, created)) /\ <<>> \in Seq(Items(T, created))
        BY <4>2, Short
      <4>4. Then(<<>>) \/ Then(Call(group.hs, group.ok)) \/ Then(<<Do("publishPostponed")>>)
        BY <2>2
      <4> HIDE DEF group
      <4>5. QED
        BY <1>1, <4>1, <4>3, <4>4, Following
    <3>9. <<>> \in Seq(Items(T, created')) /\ posts' = posts \o <<>>
      <4>1. posts \in Seq(Items(T, created) \cup Publishes) /\ posts' = posts
        BY <2>2 DEF Typed
      <4>2. QED
        BY <4>1
    <3>10. /\ T \subseteq Parts(T, Len(groups')) /\ created' \in Nat /\ created <= created'
           /\ groups' \in Seq([left : SUBSET Subscriptions, ok : BOOLEAN, hs : Seq(T)])
           /\ ops' \in Seq(Operations(created')) /\ now' \in Seq(Items(T, created'))
      BY <1>2, <1>3, <1>4, <3>6, <3>8 DEF Typed, G
    <3>11. Typed(T)' /\ Quiet
      BY <1>4, <3>9, <3>10, Frame
    <3>12. QED
      BY <2>0, <2>2, <3>11
  <2>3. CASE /\ h.do \in {"asyncSubscribe", "asyncUnsubscribe"}
             /\ posts' = Append(posts, h) /\ Then(<<>>)
             /\ UNCHANGED <<groups, told>>
    <3> HIDE DEF h
    <3>1. now' \in Seq(Items(T, created))
      BY <1>1, <2>3, Short, Following
    <3>2. h \in Items(T, created)
      <4>1. h \in [do : Repeated, s : Subscriptions, hs : Seq(T)]
        BY <1>2, <2>3 DEF Parts
      <4>2. QED
        BY <4>1 DEF Items, Calls
    <3>3. Typed(T)' /\ Quiet
      BY <1>3, <2>3, <3>1, <3>2, PostedTypes
    <3>4. QED
      BY <2>0, <2>3, <3>3
  <2>4. QED
    BY <2>1, <2>2, <2>3 DEF handler
<1> HIDE DEF h, G
<1>6. ClientTypes'
  BY <1>0, <1>3, <1>5, Zenon DEF ClientTypes
<1>7. TypeOK'
  BY <1>0, <1>3, <1>6, StepTypes DEF ConnectionTypes
<1>8. QED
  BY <1>3, <1>5, <1>7 DEF KeepsTypes

(* A call of the user is posted; its handler is told the result            *)
LEMMA CallPosted ==
    ASSUME TypeOK, NEW T, Typed(T), called < MaxCalls, called' = called + 1,
           NEW x, posts' = Append(posts, x),
           \/ \E s \in Subscriptions : x = Subscribe(s, <<Tell(called + 1)>>)
           \/ \E s \in Subscriptions : x = Unsubscribe(s, <<Tell(called + 1)>>)
           \/ x = UnsubscribeAll(<<Tell(called + 1)>>),
           wanted' \subseteq Subscriptions,
           UNCHANGED <<connection, library, now, client, observed, messages>>
    PROVE  KeepsTypes
<1>0. ClientTypes /\ ConnectionTypes
  BY HasClientTypes
<1>1. UNCHANGED <<connection, created, usable, ops, faults, channelStatus, channel, guarded,
                  preparation, registered, exchanges, subscriptions, handlers, postponed, groups,
                  bound, published, told, crashed, mishaps, messages, now>>
  BY DEF library, client, observed
<1>2. called' \in 0..MaxCalls /\ called + 1 \in 1..MaxCalls
  BY <1>0, ClientAssumption DEF ClientTypes
<1>3. ClientTypes'
  BY <1>0, <1>1, <1>2, Zenon DEF ClientTypes
<1>4. TypeOK'
  BY <1>0, <1>1, <1>3, StepTypes DEF ConnectionTypes
<1> DEFINE n == Len(groups)
<1>5. PICK t : t = Tell(called + 1)
  OBVIOUS
<1>6. PICK U : U = T \cup {t}
  OBVIOUS
<1>7. n \in Nat /\ T \subseteq Parts(T, n) /\ created \in Nat
  BY <1>0 DEF Typed, ConnectionTypes
<1>8. t \in Parts(T, n)
  BY <1>2, <1>5 DEF Tell, Parts
<1>9. U \subseteq Parts(U, n) /\ Seq(T) \subseteq Seq(U) /\ T \subseteq U /\ t \in U
  BY <1>6, <1>7, <1>8, PartAdded
<1>10. x \in Items(U, created)
  <2>1. <<t>> \in Seq(U)
    BY <1>9, Short
  <2>2. QED
    BY <2>1, <1>5, <1>7, ItemsMade
<1>11. groups' \in Seq([left : SUBSET Subscriptions, ok : BOOLEAN, hs : Seq(U)])
  <2> DEFINE G == [left : SUBSET Subscriptions, ok : BOOLEAN, hs : Seq(T)]
             H == [left : SUBSET Subscriptions, ok : BOOLEAN, hs : Seq(U)]
  <2>1. groups' \in Seq(G)
    BY <1>1 DEF Typed
  <2>2. G \subseteq H
    BY <1>9
  <2> HIDE DEF G, H
  <2>3. groups' \in Seq(H)
    BY <2>1, <2>2, LargerSeq
  <2>4. QED
    BY <2>3 DEF H
<1>12. handlers' \in [Subscriptions -> Seq(U)] /\ ops' \in Seq(Operations(created'))
  <2>1. handlers \in [Subscriptions -> Seq(T)] /\ ops \in Seq(Operations(created))
    BY DEF Typed
  <2>2. QED
    BY <2>1, <1>1, <1>9
<1>13. <<x>> \in Seq(Items(U, created')) /\ posts' = posts \o <<x>>
  <2>1. posts \in Seq(Items(T, created) \cup Publishes)
    BY DEF Typed
  <2>2. posts' = posts \o <<x>>
    BY <2>1
  <2>3. QED
    BY <2>2, <1>1, <1>10, Short
<1>14. U \subseteq Parts(U, Len(groups')) /\ created' \in Nat /\ created <= created' /\ now' = now
  BY <1>1, <1>7, <1>9
<1> HIDE DEF n
<1>15. Typed(U)' /\ Quiet
  BY <1>9, <1>11, <1>12, <1>13, <1>14, Frame
<1>16. QED
  BY <1>1, <1>4, <1>15 DEF KeepsTypes

(* Calls of the user, except for asyncPublish()                            *)
LEMMA CallTypes ==
    ASSUME TypeOK, NEW T, Typed(T),
           (\E s \in Subscriptions : callSubscribe(s) \/ callUnsubscribe(s)) \/ callUnsubscribeAll
    PROVE  KeepsTypes
<1>0. wanted \subseteq Subscriptions
  BY DEF TypeOK
<1>1. ASSUME NEW s \in Subscriptions, callSubscribe(s)
      PROVE  KeepsTypes
  <2>1. called < MaxCalls /\ called' = called + 1
    BY <1>1 DEF callSubscribe
  <2>2. /\ posts' = Append(posts, Subscribe(s, <<Tell(called + 1)>>)) /\ wanted' \subseteq Subscriptions
        /\ UNCHANGED <<connection, library, now, client, observed, messages>>
    BY <1>0, <1>1, <2>1 DEF callSubscribe
  <2>3. QED
    BY <2>1, <2>2, CallPosted
<1>2. ASSUME NEW s \in Subscriptions, callUnsubscribe(s)
      PROVE  KeepsTypes
  <2>1. called < MaxCalls /\ called' = called + 1
    BY <1>2 DEF callUnsubscribe
  <2>2. /\ posts' = Append(posts, Unsubscribe(s, <<Tell(called + 1)>>)) /\ wanted' \subseteq Subscriptions
        /\ UNCHANGED <<connection, library, now, client, observed, messages>>
    BY <1>0, <1>2, <2>1 DEF callUnsubscribe
  <2>3. QED
    BY <2>1, <2>2, CallPosted
<1>3. ASSUME callUnsubscribeAll
      PROVE  KeepsTypes
  <2>1. called < MaxCalls /\ called' = called + 1
    BY <1>3 DEF callUnsubscribeAll
  <2>2. /\ posts' = Append(posts, UnsubscribeAll(<<Tell(called + 1)>>)) /\ wanted' \subseteq Subscriptions
        /\ UNCHANGED <<connection, library, now, client, observed, messages>>
    BY <1>0, <1>3, <2>1 DEF callUnsubscribeAll
  <2>3. QED
    BY <2>1, <2>2, CallPosted
<1>4. QED
  BY <1>1, <1>2, <1>3

(* asyncPublish() is called                                                *)
LEMMA CallPublishTypes ==
    ASSUME TypeOK, NEW T, Typed(T), callPublish
    PROVE  /\ TypeOK' /\ Typed(T)' /\ UNCHANGED <<postponed, published, now>>
           /\ messages' = messages + 1
           /\ Len(posts) \in Nat /\ Len(posts') = Len(posts) + 1
           /\ \A i \in 1..Len(posts) : posts'[i] = posts[i]
           /\ posts'[Len(posts) + 1] = Publish(messages + 1)
<1>0. ClientTypes /\ ConnectionTypes
  BY HasClientTypes
<1>1. /\ messages < MaxMessages /\ messages' = messages + 1
      /\ UNCHANGED <<connection, created, usable, ops, faults, channelStatus, channel, guarded,
                     preparation, registered, exchanges, subscriptions, handlers, postponed,
                     groups, bound, published, told, crashed, mishaps, called, wanted, now>>
  BY DEF callPublish, library, client, observed
<1>2. posts' = Append(posts, Publish(messages + 1))
  BY <1>1 DEF callPublish
<1>3. messages' \in 0..MaxMessages /\ messages + 1 \in 1..MaxMessages
  BY <1>0, <1>1, ClientAssumption DEF ClientTypes
<1>4. ClientTypes'
  BY <1>0, <1>1, <1>3, Zenon DEF ClientTypes
<1>5. TypeOK'
  BY <1>0, <1>1, <1>4, StepTypes DEF ConnectionTypes
<1> DEFINE P == Items(T, created) \cup Publishes
<1>6. posts \in Seq(P) /\ Publish(messages + 1) \in P
  BY <1>3 DEF Typed, Publish, Publishes
<1> HIDE DEF P
<1>7. /\ posts' \in Seq(P) /\ Len(posts) \in Nat /\ Len(posts') = Len(posts) + 1
      /\ \A i \in 1..Len(posts) : posts'[i] = posts[i]
      /\ posts'[Len(posts) + 1] = Publish(messages + 1)
  BY <1>2, <1>6, Appended
<1>8. Typed(T)'
  BY <1>1, <1>7 DEF Typed, P
<1>9. QED
  BY <1>1, <1>5, <1>7, <1>8


-----------------------------------------------------------------------------
(* The order of messages                                                   *)

(* Messages are numbers                                                    *)
LEMMA Numbered ==
    ASSUME TypeOK, NEW T, Typed(T)
    PROVE  /\ messages \in Nat
           /\ Len(posts) \in Nat /\ Len(now) \in Nat
           /\ Len(postponed) \in Nat /\ Len(published) \in Nat
           /\ \A i \in 1..Len(posts) : IsPublish(posts[i]) => posts[i].m \in Nat
           /\ \A i \in 1..Len(now) : IsPublish(now[i]) => now[i].m \in Nat
           /\ \A i \in 1..Len(postponed) : postponed[i] \in Nat
           /\ \A i \in 1..Len(published) : published[i] \in Nat
<1> DEFINE L == 1..MaxMessages
           I == Items(T, created)
<1>1. L \subseteq Nat /\ created \in Nat
  BY ClientAssumption DEF TypeOK
<1>2. messages \in Nat /\ postponed \in Seq(L) /\ published \in Seq(L)
  BY ClientAssumption DEF TypeOK
<1>3. \A x \in I \cup Publishes : IsPublish(x) => x.m \in L
  <2>1. \A x \in I : ~IsPublish(x)
    BY <1>1, ItemFacts DEF IsPublish
  <2>2. \A x \in Publishes : x.m \in L
    BY DEF Publishes
  <2>3. QED
    BY <2>1, <2>2
<1>4. posts \in Seq(I \cup Publishes) /\ now \in Seq(I \cup Publishes)
  <2>1. now \in Seq(I) \/ now \in Seq(Publishes)
    BY Single DEF Typed
  <2>2. Seq(I) \subseteq Seq(I \cup Publishes) /\ Seq(Publishes) \subseteq Seq(I \cup Publishes)
    <3> HIDE DEF I
    <3>1. QED
      BY LargerSeq
  <2>3. QED
    BY <2>1, <2>2 DEF Typed
<1> DEFINE A == I \cup Publishes
<1> HIDE DEF I, L
<1>5. posts \in Seq(A) /\ now \in Seq(A) /\ \A x \in A : IsPublish(x) => x.m \in Nat
  BY <1>1, <1>3, <1>4
<1> HIDE DEF A
<1>6. /\ Len(posts) \in Nat /\ \A i \in 1..Len(posts) : posts[i] \in A
      /\ Len(now) \in Nat /\ \A i \in 1..Len(now) : now[i] \in A
  BY <1>5
<1>7. /\ Len(postponed) \in Nat /\ \A i \in 1..Len(postponed) : postponed[i] \in L
      /\ Len(published) \in Nat /\ \A i \in 1..Len(published) : published[i] \in L
  BY <1>2
<1>8. QED
  BY <1>1, <1>2, <1>5, <1>6, <1>7

(* Nothing is published                                                    *)
LEMMA OrderQuiet ==
    ASSUME OrderInv, Quiet, UNCHANGED <<postponed, published, messages>>
    PROVE  OrderInv'
<1>1. \A i \in 1..Len(posts') : IsPublish(posts'[i]) => i \in 1..Len(posts) /\ posts'[i] = posts[i]
  BY DEF Quiet
<1>2. \A i \in 1..Len(now') : IsPublish(now'[i]) => i \in 1..Len(now) /\ now'[i] = now[i]
  BY DEF Quiet
<1>3. /\ Len(postponed') = Len(postponed) /\ postponed' = postponed
      /\ Len(published') = Len(published) /\ published' = published
      /\ messages' = messages
  OBVIOUS
<1>4. \A i, j \in 1..Len(posts') :
         IsPublish(posts'[i]) /\ IsPublish(posts'[j]) /\ i < j => posts'[i].m < posts'[j].m
  BY <1>1 DEF OrderInv
<1>5. \A i \in 1..Len(posts') : IsPublish(posts'[i]) => posts'[i].m <= messages'
  BY <1>1 DEF OrderInv
<1>6. \A i \in 1..Len(now') : IsPublish(now'[i]) =>
         /\ now'[i].m <= messages'
         /\ \A j \in 1..Len(posts') : IsPublish(posts'[j]) => now'[i].m < posts'[j].m
  BY <1>1, <1>2 DEF OrderInv
<1>7. \A i \in 1..Len(postponed') :
         /\ postponed'[i] <= messages'
         /\ \A j \in 1..Len(posts') : IsPublish(posts'[j]) => postponed'[i] < posts'[j].m
         /\ \A j \in 1..Len(now') : IsPublish(now'[j]) => postponed'[i] < now'[j].m
  BY <1>1, <1>2 DEF OrderInv
<1>8. \A i \in 1..Len(published') :
         /\ published'[i] <= messages'
         /\ \A j \in 1..Len(posts') : IsPublish(posts'[j]) => published'[i] < posts'[j].m
         /\ \A j \in 1..Len(now') : IsPublish(now'[j]) => published'[i] < now'[j].m
         /\ \A j \in 1..Len(postponed') : published'[i] < postponed'[j]
  BY <1>1, <1>2 DEF OrderInv
<1>9. /\ \A i, j \in 1..Len(postponed') : i < j => postponed'[i] < postponed'[j]
      /\ PublishedInOrder'
  BY DEF OrderInv, PublishedInOrder
<1>10. QED
  BY <1>4, <1>5, <1>6, <1>7, <1>8, <1>9 DEF OrderInv, IsPublish

(* The next function of the io context                                     *)
LEMMA OrderRunPosted ==
    ASSUME TypeOK, NEW T, Typed(T), OrderInv, runPosted, UNCHANGED <<client, observed, calls>>
    PROVE  OrderInv'
<1>1. /\ UNCHANGED <<postponed, published, messages>>
      /\ Len(posts) \in Nat \ {0} /\ Len(posts') = Len(posts) - 1
      /\ \A i \in 1..(Len(posts) - 1) : posts'[i] = posts[i + 1]
      /\ Len(now') = 1 /\ now'[1] = posts[1]
  BY RunPostedTypes
<1>2. \A i \in 1..Len(posts') : i + 1 \in 1..Len(posts) /\ i + 1 > 1 /\ posts'[i] = posts[i + 1]
  BY <1>1
<1>3. \A i \in 1..Len(now') : i = 1 /\ now'[i] = posts[1] /\ 1 \in 1..Len(posts)
  BY <1>1
<1>4. \A i, j \in 1..Len(posts') :
         IsPublish(posts'[i]) /\ IsPublish(posts'[j]) /\ i < j => posts'[i].m < posts'[j].m
  <2>1. \A i, j \in 1..Len(posts') : i < j => i + 1 < j + 1
    BY <1>1
  <2>2. QED
    BY <1>2, <2>1 DEF OrderInv
<1>5. \A i \in 1..Len(posts') : IsPublish(posts'[i]) => posts'[i].m <= messages'
  BY <1>1, <1>2 DEF OrderInv
<1>6. \A i \in 1..Len(now') : IsPublish(now'[i]) =>
         /\ now'[i].m <= messages'
         /\ \A j \in 1..Len(posts') : IsPublish(posts'[j]) => now'[i].m < posts'[j].m
  BY <1>1, <1>2, <1>3 DEF OrderInv
<1>7. \A i \in 1..Len(postponed') :
         /\ postponed'[i] <= messages'
         /\ \A j \in 1..Len(posts') : IsPublish(posts'[j]) => postponed'[i] < posts'[j].m
         /\ \A j \in 1..Len(now') : IsPublish(now'[j]) => postponed'[i] < now'[j].m
  BY <1>1, <1>2, <1>3 DEF OrderInv
<1>8. \A i \in 1..Len(published') :
         /\ published'[i] <= messages'
         /\ \A j \in 1..Len(posts') : IsPublish(posts'[j]) => published'[i] < posts'[j].m
         /\ \A j \in 1..Len(now') : IsPublish(now'[j]) => published'[i] < now'[j].m
         /\ \A j \in 1..Len(postponed') : published'[i] < postponed'[j]
  BY <1>1, <1>2, <1>3 DEF OrderInv
<1>9. /\ \A i, j \in 1..Len(postponed') : i < j => postponed'[i] < postponed'[j]
      /\ PublishedInOrder'
  BY <1>1 DEF OrderInv, PublishedInOrder
<1>10. QED
  BY <1>4, <1>5, <1>6, <1>7, <1>8, <1>9 DEF OrderInv, IsPublish

(* asyncPublish() is called                                                *)
LEMMA OrderCallPublish ==
    ASSUME TypeOK, NEW T, Typed(T), OrderInv, callPublish
    PROVE  OrderInv'
<1>1. /\ UNCHANGED <<postponed, published, now>> /\ messages' = messages + 1
      /\ Len(posts) \in Nat /\ Len(posts') = Len(posts) + 1
      /\ \A i \in 1..Len(posts) : posts'[i] = posts[i]
      /\ posts'[Len(posts) + 1] = Publish(messages + 1)
  BY CallPublishTypes
<1>0. /\ messages \in Nat
      /\ \A i \in 1..Len(posts) : IsPublish(posts[i]) => posts[i].m \in Nat
      /\ \A i \in 1..Len(now) : IsPublish(now[i]) => now[i].m \in Nat
      /\ \A i \in 1..Len(postponed) : postponed[i] \in Nat
      /\ \A i \in 1..Len(published) : published[i] \in Nat
  BY Numbered
<1>2. \A i \in 1..Len(posts') :
         \/ i \in 1..Len(posts) /\ posts'[i] = posts[i]
         \/ i = Len(posts) + 1 /\ posts'[i].m = messages + 1
  BY <1>1 DEF Publish
<1>4. \A i, j \in 1..Len(posts') :
         IsPublish(posts'[i]) /\ IsPublish(posts'[j]) /\ i < j => posts'[i].m < posts'[j].m
  <2>1. SUFFICES ASSUME NEW i \in 1..Len(posts'), NEW j \in 1..Len(posts'),
                        IsPublish(posts'[i]), IsPublish(posts'[j]), i < j
                 PROVE  posts'[i].m < posts'[j].m
    OBVIOUS
  <2>2. i \in 1..Len(posts) /\ posts'[i] = posts[i]
    BY <1>1, <2>1
  <2>3. posts[i].m <= messages /\ posts[i].m \in Nat
    BY <1>0, <2>1, <2>2 DEF OrderInv
  <2>4. CASE j \in 1..Len(posts) /\ posts'[j] = posts[j]
    BY <2>1, <2>2, <2>4 DEF OrderInv
  <2>5. CASE posts'[j].m = messages + 1
    BY <1>0, <2>2, <2>3, <2>5
  <2>6. QED
    BY <1>2, <2>4, <2>5
<1>5. \A i \in 1..Len(posts') : IsPublish(posts'[i]) => posts'[i].m <= messages'
  <2>1. \A i \in 1..Len(posts) : IsPublish(posts[i]) => posts[i].m <= messages + 1
    BY <1>0 DEF OrderInv
  <2>2. QED
    BY <1>0, <1>1, <1>2, <2>1
<1>6. \A i \in 1..Len(now') : IsPublish(now'[i]) =>
         /\ now'[i].m <= messages'
         /\ \A j \in 1..Len(posts') : IsPublish(posts'[j]) => now'[i].m < posts'[j].m
  <2>1. \A i \in 1..Len(now) : IsPublish(now[i]) =>
           /\ now[i].m < messages + 1 /\ now[i].m <= messages + 1
           /\ \A j \in 1..Len(posts) : IsPublish(posts[j]) => now[i].m < posts[j].m
    BY <1>0 DEF OrderInv
  <2>2. QED
    BY <1>1, <1>2, <2>1
<1>7. \A i \in 1..Len(postponed') :
         /\ postponed'[i] <= messages'
         /\ \A j \in 1..Len(posts') : IsPublish(posts'[j]) => postponed'[i] < posts'[j].m
         /\ \A j \in 1..Len(now') : IsPublish(now'[j]) => postponed'[i] < now'[j].m
  <2>1. \A i \in 1..Len(postponed) :
           /\ postponed[i] < messages + 1 /\ postponed[i] <= messages + 1
           /\ \A j \in 1..Len(posts) : IsPublish(posts[j]) => postponed[i] < posts[j].m
           /\ \A j \in 1..Len(now) : IsPublish(now[j]) => postponed[i] < now[j].m
    BY <1>0 DEF OrderInv
  <2>2. QED
    BY <1>1, <1>2, <2>1
<1>8. \A i \in 1..Len(published') :
         /\ published'[i] <= messages'
         /\ \A j \in 1..Len(posts') : IsPublish(posts'[j]) => published'[i] < posts'[j].m
         /\ \A j \in 1..Len(now') : IsPublish(now'[j]) => published'[i] < now'[j].m
         /\ \A j \in 1..Len(postponed') : published'[i] < postponed'[j]
  <2>1. \A i \in 1..Len(published) :
           /\ published[i] < messages + 1 /\ published[i] <= messages + 1
           /\ \A j \in 1..Len(posts) : IsPublish(posts[j]) => published[i] < posts[j].m
           /\ \A j \in 1..Len(now) : IsPublish(now[j]) => published[i] < now[j].m
           /\ \A j \in 1..Len(postponed) : published[i] < postponed[j]
    BY <1>0 DEF OrderInv
  <2>2. QED
    BY <1>1, <1>2, <2>1
<1>9. /\ \A i, j \in 1..Len(postponed') : i < j => postponed'[i] < postponed'[j]
      /\ PublishedInOrder'
  BY <1>1 DEF OrderInv, PublishedInOrder
<1>10. QED
  BY <1>4, <1>5, <1>6, <1>7, <1>8, <1>9 DEF OrderInv, IsPublish


(* asyncPublish() publishes or postpones the message                       *)
LEMMA OrderPublish ==
    ASSUME TypeOK, NEW T, Typed(T), OrderInv, asyncPublish
    PROVE  OrderInv'
<1> DEFINE m == Answer.m
<1>1. /\ UNCHANGED <<posts, messages>>
      /\ Len(now) = 1 /\ now[1] = Answer /\ m \in 1..MaxMessages
      /\ \A i \in 1..Len(now') : ~IsPublish(now'[i])
      /\ \/ queueMessage(m) /\ UNCHANGED published
         \/ postponed = <<>> /\ published' = Append(published, m) /\ UNCHANGED postponed
  BY PublishTypes
<1>2. IsPublish(now[1]) /\ 1 \in 1..Len(now)
  BY <1>1 DEF asyncPublish, Runs, IsPublish, Answer
<1> HIDE DEF m
<1>3. /\ m <= messages /\ \A j \in 1..Len(posts) : IsPublish(posts[j]) => m < posts[j].m
      /\ \A i \in 1..Len(postponed) : postponed[i] < m
      /\ \A i \in 1..Len(published) : published[i] < m
  BY <1>1, <1>2 DEF OrderInv, m
<1>4. /\ \A i, j \in 1..Len(posts') :
            IsPublish(posts'[i]) /\ IsPublish(posts'[j]) /\ i < j => posts'[i].m < posts'[j].m
      /\ \A i \in 1..Len(posts') : IsPublish(posts'[i]) => posts'[i].m <= messages'
  BY <1>1 DEF OrderInv
<1>5. CASE queueMessage(m) /\ UNCHANGED published
  <2>1. PICK d \in {0, 1} :
            /\ Len(postponed') = Len(postponed) + 1 - d
            /\ \A i \in 1..(Len(postponed') - 1) : i + d \in 1..Len(postponed)
                                                     /\ postponed'[i] = postponed[i + d]
    BY <1>1, <1>5, QueueMessage
  <2>2. Len(postponed') \in Nat \ {0} /\ postponed'[Len(postponed')] = m
    BY <1>1, <1>5, QueueMessage
  <2>3. \A i \in 1..Len(postponed') :
           \/ i = Len(postponed') /\ postponed'[i] = m
           \/ /\ i \in 1..(Len(postponed') - 1) /\ i + d \in 1..Len(postponed)
              /\ postponed'[i] = postponed[i + d]
    BY <2>1, <2>2
  <2>4. \A i, j \in 1..Len(postponed') : i < j => postponed'[i] < postponed'[j]
    <3>1. SUFFICES ASSUME NEW i \in 1..Len(postponed'), NEW j \in 1..Len(postponed'), i < j
                   PROVE  postponed'[i] < postponed'[j]
      OBVIOUS
    <3>2. i # Len(postponed') /\ i + d < j + d
      BY <2>2, <3>1
    <3>3. i + d \in 1..Len(postponed) /\ postponed'[i] = postponed[i + d]
      BY <2>3, <3>1, <3>2
    <3>4. CASE postponed'[j] = m
      BY <1>3, <3>3, <3>4
    <3>5. CASE j + d \in 1..Len(postponed) /\ postponed'[j] = postponed[j + d]
      BY <3>2, <3>3, <3>5 DEF OrderInv
    <3>6. QED
      BY <2>3, <3>4, <3>5
  <2>5. \A i \in 1..Len(postponed') :
           /\ postponed'[i] <= messages'
           /\ \A j \in 1..Len(posts') : IsPublish(posts'[j]) => postponed'[i] < posts'[j].m
           /\ \A j \in 1..Len(now') : IsPublish(now'[j]) => postponed'[i] < now'[j].m
    BY <1>1, <1>3, <2>3 DEF OrderInv
  <2>6. \A i \in 1..Len(published') :
           /\ published'[i] <= messages'
           /\ \A j \in 1..Len(posts') : IsPublish(posts'[j]) => published'[i] < posts'[j].m
           /\ \A j \in 1..Len(now') : IsPublish(now'[j]) => published'[i] < now'[j].m
           /\ \A j \in 1..Len(postponed') : published'[i] < postponed'[j]
    BY <1>1, <1>3, <1>5, <2>3 DEF OrderInv
  <2>7. PublishedInOrder'
    BY <1>5 DEF OrderInv, PublishedInOrder
  <2>8. QED
    BY <1>1, <1>4, <2>4, <2>5, <2>6, <2>7 DEF OrderInv, IsPublish
<1>6. CASE postponed = <<>> /\ published' = Append(published, m) /\ UNCHANGED postponed
  <2>1. /\ Len(published) \in Nat /\ Len(published') = Len(published) + 1
        /\ \A i \in 1..Len(published) : published'[i] = published[i]
        /\ published'[Len(published) + 1] = m
    <3>1. published \in Seq(1..MaxMessages)
      BY DEF TypeOK
    <3>2. QED
      BY <1>1, <1>6, <3>1, Appended
  <2>2. \A i \in 1..Len(published') :
           \/ i = Len(published') /\ published'[i] = m
           \/ i \in 1..Len(published) /\ i < Len(published') /\ published'[i] = published[i]
    BY <2>1
  <2>3. Len(postponed') = 0 /\ 1..Len(postponed') = {}
    BY <1>6
  <2>4. PublishedInOrder'
    <3>1. SUFFICES ASSUME NEW i \in 1..Len(published'), NEW j \in 1..Len(published'), i < j
                   PROVE  published'[i] < published'[j]
      BY DEF PublishedInOrder
    <3>2. i \in 1..Len(published) /\ published'[i] = published[i]
      BY <2>1, <2>2, <3>1
    <3>3. QED
      BY <1>3, <2>2, <3>1, <3>2 DEF OrderInv, PublishedInOrder
  <2>5. \A i \in 1..Len(published') :
           /\ published'[i] <= messages'
           /\ \A j \in 1..Len(posts') : IsPublish(posts'[j]) => published'[i] < posts'[j].m
           /\ \A j \in 1..Len(now') : IsPublish(now'[j]) => published'[i] < now'[j].m
           /\ \A j \in 1..Len(postponed') : published'[i] < postponed'[j]
    BY <1>1, <1>3, <2>2, <2>3 DEF OrderInv
  <2>6. QED
    BY <1>1, <1>4, <2>3, <2>4, <2>5 DEF OrderInv, IsPublish
<1>7. QED
  BY <1>1, <1>5, <1>6

(* The oldest postponed message is published                               *)
LEMMA OrderPublishPostponed ==
    ASSUME TypeOK, NEW T, Typed(T), OrderInv, publishPostponed
    PROVE  OrderInv'
<1>1. /\ Quiet /\ UNCHANGED messages
      /\ \/ UNCHANGED <<published, postponed>>
         \/ /\ postponed # <<>> /\ published' = Append(published, Head(postponed))
            /\ postponed' = Tail(postponed)
  BY PublishPostponedTypes
<1>2. CASE UNCHANGED <<published, postponed>>
  BY <1>1, <1>2, OrderQuiet
<1>3. CASE /\ postponed # <<>> /\ published' = Append(published, Head(postponed))
           /\ postponed' = Tail(postponed)
  <2> DEFINE S == 1..MaxMessages
  <2>1. published \in Seq(S) /\ postponed \in Seq(S)
    BY DEF TypeOK
  <2> HIDE DEF S
  <2>2. /\ Len(postponed) \in Nat \ {0} /\ Len(postponed') = Len(postponed) - 1
        /\ \A i \in 1..(Len(postponed) - 1) : postponed'[i] = postponed[i + 1]
        /\ Head(postponed) = postponed[1] /\ Head(postponed) \in S
    BY <1>3, <2>1, EmptySeq
  <2>3. /\ Len(published) \in Nat /\ Len(published') = Len(published) + 1
        /\ \A i \in 1..Len(published) : published'[i] = published[i]
        /\ published'[Len(published) + 1] = postponed[1]
    BY <1>3, <2>1, <2>2, Appended
  <2>4. \A i \in 1..Len(published') :
           \/ i = Len(published') /\ published'[i] = postponed[1] /\ 1 \in 1..Len(postponed)
           \/ i \in 1..Len(published) /\ i < Len(published') /\ published'[i] = published[i]
    BY <2>2, <2>3
  <2>5. \A i \in 1..Len(postponed') :
           i + 1 \in 1..Len(postponed) /\ 1 < i + 1 /\ postponed'[i] = postponed[i + 1]
    BY <2>2
  <2>6. \A i \in 1..Len(posts') : IsPublish(posts'[i]) => i \in 1..Len(posts) /\ posts'[i] = posts[i]
    BY <1>1 DEF Quiet
  <2>7. \A i \in 1..Len(now') : IsPublish(now'[i]) => i \in 1..Len(now) /\ now'[i] = now[i]
    BY <1>1 DEF Quiet
  <2>8. \A i, j \in 1..Len(posts') :
           IsPublish(posts'[i]) /\ IsPublish(posts'[j]) /\ i < j => posts'[i].m < posts'[j].m
    BY <2>6 DEF OrderInv
  <2>9. \A i \in 1..Len(posts') : IsPublish(posts'[i]) => posts'[i].m <= messages'
    BY <1>1, <2>6 DEF OrderInv
  <2>10. \A i \in 1..Len(now') : IsPublish(now'[i]) =>
            /\ now'[i].m <= messages'
            /\ \A j \in 1..Len(posts') : IsPublish(posts'[j]) => now'[i].m < posts'[j].m
    BY <1>1, <2>6, <2>7 DEF OrderInv
  <2>11. \A i \in 1..Len(postponed') :
            /\ postponed'[i] <= messages'
            /\ \A j \in 1..Len(posts') : IsPublish(posts'[j]) => postponed'[i] < posts'[j].m
            /\ \A j \in 1..Len(now') : IsPublish(now'[j]) => postponed'[i] < now'[j].m
    BY <1>1, <2>5, <2>6, <2>7 DEF OrderInv
  <2>12. \A i \in 1..Len(published') :
            /\ published'[i] <= messages'
            /\ \A j \in 1..Len(posts') : IsPublish(posts'[j]) => published'[i] < posts'[j].m
            /\ \A j \in 1..Len(now') : IsPublish(now'[j]) => published'[i] < now'[j].m
            /\ \A j \in 1..Len(postponed') : published'[i] < postponed'[j]
    BY <1>1, <2>4, <2>5, <2>6, <2>7 DEF OrderInv
  <2>13. \A i, j \in 1..Len(postponed') : i < j => postponed'[i] < postponed'[j]
    <3>1. \A i, j \in 1..Len(postponed') : i < j => i + 1 < j + 1
      BY <2>2
    <3>2. QED
      BY <2>5, <3>1 DEF OrderInv
  <2>14. PublishedInOrder'
    <3>1. SUFFICES ASSUME NEW i \in 1..Len(published'), NEW j \in 1..Len(published'), i < j
                   PROVE  published'[i] < published'[j]
      BY DEF PublishedInOrder
    <3>2. i \in 1..Len(published) /\ published'[i] = published[i]
      BY <2>3, <2>4, <3>1
    <3>3. QED
      BY <2>4, <3>1, <3>2 DEF OrderInv, PublishedInOrder
  <2>15. QED
    BY <2>8, <2>9, <2>10, <2>11, <2>12, <2>13, <2>14 DEF OrderInv, IsPublish
<1>4. QED
  BY <1>1, <1>2, <1>3


-----------------------------------------------------------------------------
(* Types and order of messages, for every step                             *)

(* Steps that keep types and order in the same way                         *)
LEMMA KeepsOrder ==
    ASSUME OrderInv, KeepsTypes
    PROVE  Types' /\ OrderInv'
BY OrderQuiet, Zenon DEF KeepsTypes, Types

(* Steps of the connection, the library and the broker                     *)
LEMMA ConnectionOrder ==
    ASSUME Types, OrderInv, ConnectionStep \/ Disturbance
    PROVE  Types' /\ OrderInv'
<1>1. PICK T : TypeOK /\ Typed(T)
  BY DEF Types
<1>2. UNCHANGED <<client, observed, calls>>
  BY DEF ConnectionStep, Disturbance
<1>3. CASE runPosted
  BY <1>1, <1>2, <1>3, RunPostedTypes, OrderRunPosted, Zenon DEF Types
<1>4. CASE onReady \/ onLost \/ asyncConnect \/ informReconnection(registered)
              \/ doCreateChannel \/ loseNext \/ connectFails \/ connectionBreaks
  <2>1. KeepsTypes
    BY <1>1, <1>2, <1>4, OnReadyTypes, OnLostTypes, AsyncConnectTypes, InformTypes, CreateTypes,
       LoseNextTypes, ConnectFailsTypes, BreaksTypes, Zenon
  <2>2. QED
    BY <2>1, KeepsOrder
<1>5. ASSUME NEW i \in 1..Len(ops), replySuccess(i) \/ failNext(i)
      PROVE  Types' /\ OrderInv'
  <2>1. KeepsTypes
    BY <1>1, <1>2, <1>5, SuccessTypes, FailNextTypes, Zenon
  <2>2. QED
    BY <2>1, KeepsOrder
<1>6. ASSUME NEW i \in 1..Len(ops), NEW why \in {"retry", "other"}, replyError(i, why)
      PROVE  Types' /\ OrderInv'
  <2>1. KeepsTypes
    BY <1>1, <1>2, <1>6, ErrorTypes
  <2>2. QED
    BY <2>1, KeepsOrder
<1>7. QED
  BY <1>3, <1>4, <1>5, <1>6, Zenon DEF ConnectionStep, Disturbance

(* Steps of the client                                                     *)
LEMMA ClientOrder ==
    ASSUME Types, OrderInv, ClientStep
    PROVE  Types' /\ OrderInv'
<1>1. PICK T : TypeOK /\ Typed(T)
  BY DEF Types
<1>2. CASE asyncPublish
  BY <1>1, <1>2, PublishTypes, OrderPublish, Zenon DEF Types
<1>3. CASE publishPostponed
  BY <1>1, <1>3, PublishPostponedTypes, OrderPublishPostponed, Zenon DEF Types
<1>4. CASE channelCreated \/ channelFailed \/ preparationFails \/ queueDeclared
              \/ consumerCreated \/ channelErrorHandler
  <2>1. KeepsTypes
    BY <1>1, <1>4, ChannelCreatedTypes, ChannelFailedTypes, PreparationFailsTypes,
       QueueDeclaredTypes, ConsumerCreatedTypes, ChannelErrorTypes, Zenon
  <2>2. QED
    BY <2>1, KeepsOrder
<1>5. CASE asyncSubscribe \/ asyncUnsubscribe \/ asyncUnsubscribeAll
              \/ doSubscribePending \/ moveSubscriptionState
              \/ exchangeDeclared \/ queueBound \/ queueUnbound
  <2>1. KeepsTypes
    BY <1>1, <1>5, SubscribeTypes, UnsubscribeTypes, UnsubscribeAllTypes, SubscribePendingTypes,
       MoveTypes, ExchangeDeclaredTypes, QueueBoundTypes, QueueUnboundTypes, Zenon
  <2>2. QED
    BY <2>1, KeepsOrder
<1>6. CASE declaredToPublish \/ boundToPublish \/ reviveIfReconnected \/ handler \/ answerDropped
  <2>1. KeepsTypes
    BY <1>1, <1>6, DeclaredToPublishTypes, BoundToPublishTypes, ReviveTypes, HandlerTypes,
       DroppedTypes, Zenon
  <2>2. QED
    BY <2>1, KeepsOrder
<1>7. QED
  BY <1>2, <1>3, <1>4, <1>5, <1>6, Zenon DEF ClientStep

(* Every step                                                              *)
LEMMA OrderStep ==
    ASSUME Types, OrderInv, [Next]_vars
    PROVE  Types' /\ OrderInv'
<1>1. PICK T : TypeOK /\ Typed(T)
  BY DEF Types
<1>2. CASE ConnectionStep \/ Disturbance
  BY <1>2, ConnectionOrder
<1>3. CASE ClientStep
  BY <1>3, ClientOrder
<1>4. CASE Calling
  <2>1. CASE callPublish
    BY <1>1, <2>1, CallPublishTypes, OrderCallPublish, Zenon DEF Types
  <2>2. CASE (\E s \in Subscriptions : callSubscribe(s) \/ callUnsubscribe(s)) \/ callUnsubscribeAll
    <3>1. KeepsTypes
      BY <1>1, <2>2, CallTypes
    <3>2. QED
      BY <3>1, KeepsOrder
  <2>3. QED
    BY <1>4, <2>1, <2>2, Zenon DEF Calling
<1>5. CASE UNCHANGED vars
  <2>1. /\ UNCHANGED <<connection, created, usable, ops, faults, posts, now, channelStatus, channel,
                       guarded, preparation, registered, exchanges, subscriptions, handlers,
                       postponed, groups, bound, published, told, crashed, mishaps, called,
                       messages, wanted>>
    BY <1>5 DEF vars, connectionVars, library, context, client, observed, calls
  <2>2. TypeOK'
    <3>1. ClientTypes /\ ConnectionTypes
      BY <1>1, HasClientTypes
    <3>2. ClientTypes'
      BY <2>1, <3>1, Zenon DEF ClientTypes
    <3>3. QED
      BY <1>1, <2>1, <3>1, <3>2, StepTypes DEF ConnectionTypes
  <2>3. Typed(T)' /\ Quiet
    <3>1. handlers' \in [Subscriptions -> Seq(T)] /\ ops' \in Seq(Operations(created)) /\ now' = now
      BY <1>1, <2>1 DEF Typed
    <3>2. UNCHANGED <<created, groups, posts>>
      BY <2>1
    <3>3. QED
      BY <1>1, <3>1, <3>2, PlainFrame
  <2>4. KeepsTypes
    BY <2>1, <2>2, <2>3, Zenon DEF KeepsTypes
  <2>5. QED
    BY <2>4, KeepsOrder
<1>6. QED
  BY <1>2, <1>3, <1>4, <1>5, Zenon DEF Next

(* In the beginning there is nothing to do                                 *)
LEMMA InitOrder ==
    ASSUME Init
    PROVE  Types /\ OrderInv
<1>1. /\ state = "Ready" /\ urlIndex = 0 /\ onComplete = 0 /\ pending = 0 /\ timers = 0
      /\ broken = FALSE /\ created = 0 /\ usable = {} /\ ops = <<>> /\ faults = 0
      /\ posts = <<>> /\ now = <<>>
  BY DEF Init, ConnectionInit
<1>2. ConnectionTypes
  <2>1. urlIndex \in 0..(Urls - 1) /\ faults \in 0..MaxFaults
    BY <1>1, ConnectionAssumption
  <2>2. QED
    BY <1>1, <2>1 DEF ConnectionTypes
<1>3. ClientTypes
  <2>1. channel \in 0..created /\ guarded \in 0..created
    BY <1>1 DEF Init
  <2>2. messages \in 0..MaxMessages /\ called \in 0..MaxCalls /\ told \in [1..MaxCalls -> Nat]
    BY ClientAssumption DEF Init
  <2>3. /\ postponed \in Seq(1..MaxMessages) /\ Len(postponed) <= MaxPostponed
        /\ published \in Seq(1..MaxMessages)
    BY ClientAssumption DEF Init
  <2>4. /\ exchanges \in [Exchanges -> {"none", "DECLARING", "DECLARED", "BINDING", "PUBLISHABLE"}]
        /\ subscriptions \in [Subscriptions -> Unready \cup {"none", "READY", "UNBIND_QUEUE"}]
    BY DEF Init
  <2>5. QED
    BY <2>1, <2>2, <2>3, <2>4 DEF Init, ClientTypes
<1>4. Typed({})
  <2>1. handlers \in [Subscriptions -> Seq({})] /\ groups = <<>>
    BY DEF Init
  <2>2. QED
    BY <1>1, <2>1 DEF Typed
<1>5. OrderInv
  <2>1. postponed = <<>> /\ published = <<>>
    BY DEF Init
  <2>2. /\ 1..Len(posts) = {} /\ 1..Len(now) = {} /\ 1..Len(postponed) = {}
        /\ 1..Len(published) = {}
    BY <1>1, <2>1
  <2>3. QED
    BY <2>2, Zenon DEF OrderInv, PublishedInOrder
<1>6. QED
  BY <1>2, <1>3, <1>4, <1>5, HasClientTypes DEF Types

-----------------------------------------------------------------------------
(* Variables and what is executed have their types, and messages are       *)
(* ordered from the calls of asyncPublish() to the broker                  *)
THEOREM OrderInvariance == Spec => [](Types /\ OrderInv)
<1>1. Init => Types /\ OrderInv
  BY InitOrder
<1>2. Types /\ OrderInv /\ [Next]_vars => Types' /\ OrderInv'
  BY OrderStep
<1>3. QED
  BY <1>1, <1>2, PTL DEF Spec

(* Types of all variables                                                  *)
THEOREM TypeCorrect == Spec => []TypeOK
<1>1. Types => TypeOK
  BY DEF Types
<1>2. QED
  BY <1>1, OrderInvariance, PTL

(* Messages are published in the order of asyncPublish(), whatever channel *)
(* or connection they had to wait for                                      *)
THEOREM MessagesInOrder == Spec => []PublishedInOrder
<1>1. OrderInv => PublishedInOrder
  BY DEF OrderInv
<1>2. QED
  BY <1>1, OrderInvariance, PTL


-----------------------------------------------------------------------------
(* What is under way: frames                                               *)

(* All but the first n items of what is executed were there before, at     *)
(* positions from k on                                                     *)
Follows(d, n, k) ==
    \A j \in 1..Len(now') : j > n => j - d \in k..Len(now) /\ now'[j] = now[j - d]

(* Operations for preparations and subscriptions                           *)
Tracked == {"open", "queue", "consume", "declare", "bind", "unbind"}

OpsKeep == \A j \in 1..Len(ops') : ops'[j].op \in Tracked => j \in 1..Len(ops) /\ ops'[j] = ops[j]

PostsKeep == \A j \in 1..Len(posts') : IsToken(posts'[j]) => j \in 1..Len(posts) /\ posts'[j] = posts[j]

(* Lengths are numbers                                                     *)
Lengths ==
    /\ Len(now) \in Nat /\ Len(ops) \in Nat /\ Len(posts) \in Nat
    /\ Len(now') \in Nat /\ Len(ops') \in Nat /\ Len(posts') \in Nat

(* Types tell so                                                           *)
LEMMA HasLengths ==
    ASSUME Types, Types'
    PROVE  Lengths
<1>1. PICK T : TypeOK /\ Typed(T)
  BY DEF Types
<1>2. PICK U : Typed(U)'
  BY DEF Types
<1>3. /\ Len(ops) \in Nat /\ Len(posts) \in Nat /\ Len(now) \in Nat
  BY <1>1, Single DEF Typed
<1>4. /\ Len(ops') \in Nat /\ Len(posts') \in Nat
      /\ now' \in Seq(Items(U, created')) \/ now' \in [1..1 -> Publishes]
  BY <1>2 DEF Typed
<1>5. Len(now') \in Nat
  BY <1>4, Single
<1>6. QED
  BY <1>3, <1>4, <1>5 DEF Lengths

(* No token is added                                                       *)
LEMMA TokenKeep ==
    ASSUME TokenInv, Lengths, NEW d \in Int, NEW n \in Nat, Follows(d, n, 1),
           \A j \in 1..Len(now') : j <= n => ~IsToken(now'[j]),
           \A j \in 1..Len(ops') : Prepares(ops'[j]) => j \in 1..Len(ops) /\ ops'[j] = ops[j],
           PostsKeep, UNCHANGED <<pending, channelStatus, preparation>>
    PROVE  TokenInv'
<1>1. \A j \in 1..Len(now') : IsToken(now'[j]) => j - d \in 1..Len(now) /\ now'[j] = now[j - d]
  <2>1. \A j \in 1..Len(now') : j <= n \/ j > n
    BY DEF Lengths
  <2>2. QED
    BY <2>1 DEF Follows
<1>2. \A j \in 1..Len(ops') : Prepares(ops'[j]) => j \in 1..Len(ops) /\ ops'[j] = ops[j]
  OBVIOUS
<1>3. \A j \in 1..Len(posts') : IsToken(posts'[j]) => j \in 1..Len(posts) /\ posts'[j] = posts[j]
  BY DEF PostsKeep
<1>4. (TokenInNow' => TokenInNow) /\ (TokenInOps' => TokenInOps) /\ (TokenInPosts' => TokenInPosts)
  <2>1. TokenInNow' => TokenInNow
    BY <1>1 DEF TokenInNow, IsToken, Prepares
  <2>2. TokenInOps' => TokenInOps
    BY <1>2 DEF TokenInOps, Prepares
  <2>3. TokenInPosts' => TokenInPosts
    BY <1>3 DEF TokenInPosts, IsToken, Prepares
  <2>4. QED
    BY <2>1, <2>2, <2>3
<1>5. \A i, j \in 1..Len(now') : IsToken(now'[i]) /\ IsToken(now'[j]) => i = j
  <2>1. SUFFICES ASSUME NEW i \in 1..Len(now'), NEW j \in 1..Len(now'), IsToken(now'[i]), IsToken(now'[j])
                 PROVE  i = j
    OBVIOUS
  <2>2. i - d = j - d
    BY <1>1, <2>1 DEF TokenInv
  <2>3. QED
    BY <2>2 DEF Lengths
<1>6. /\ \A i, j \in 1..Len(ops') : Prepares(ops'[i]) /\ Prepares(ops'[j]) => i = j
      /\ \A i, j \in 1..Len(posts') : IsToken(posts'[i]) /\ IsToken(posts'[j]) => i = j
  BY <1>2, <1>3 DEF TokenInv
<1>7. /\ pending' <= 1
      /\ TokenInOps' => ~TokenInNow' /\ ~TokenInPosts' /\ pending' = 0
      /\ TokenInNow' => ~TokenInPosts' /\ pending' = 0
      /\ TokenInPosts' => pending' = 0
      /\ TokenInOps' \/ TokenInNow' \/ TokenInPosts' \/ pending' > 0 =>
            channelStatus' \notin {"REQUEST", "READY"} /\ preparation' # "none"
  BY <1>4 DEF TokenInv
<1>8. QED
  BY <1>5, <1>6, <1>7 DEF TokenInv, IsToken, Prepares

(* No operation that is tracked is added                                   *)
LEMMA TokenFrame ==
    ASSUME TokenInv, Lengths, NEW d \in Int, NEW n \in Nat, Follows(d, n, 1),
           \A j \in 1..Len(now') : j <= n => ~IsToken(now'[j]),
           OpsKeep, PostsKeep, UNCHANGED <<pending, channelStatus, preparation>>
    PROVE  TokenInv'
<1>1. \A j \in 1..Len(ops') : Prepares(ops'[j]) => j \in 1..Len(ops) /\ ops'[j] = ops[j]
  BY DEF OpsKeep, Prepares, Tracked
<1>2. QED
  BY <1>1, TokenKeep

(* A token is executed: there is no other                                  *)
LEMMA HeadIsToken ==
    ASSUME TokenInv, now # <<>>, Len(now) \in Nat \ {0}, IsToken(now[1])
    PROVE  /\ \A i \in 1..Len(ops) : ~Prepares(ops[i])
           /\ \A i \in 1..Len(posts) : ~IsToken(posts[i])
           /\ \A i \in 1..Len(now) : IsToken(now[i]) => i = 1
           /\ pending = 0
           /\ channelStatus \notin {"REQUEST", "READY"} /\ preparation # "none"
<1>1. 1 \in 1..Len(now)
  OBVIOUS
<1>2. TokenInNow
  BY <1>1 DEF TokenInNow
<1>3. QED
  BY <1>1, <1>2 DEF TokenInv, TokenInOps, TokenInPosts

(* No channel is being prepared                                            *)
LEMMA NoToken ==
    ASSUME TokenInv, channelStatus \in {"REQUEST", "READY"} \/ preparation = "none", pending \in Nat
    PROVE  /\ \A i \in 1..Len(ops) : ~Prepares(ops[i])
           /\ \A i \in 1..Len(posts) : ~IsToken(posts[i])
           /\ \A i \in 1..Len(now) : ~IsToken(now[i])
           /\ pending = 0
BY DEF TokenInv, TokenInOps, TokenInPosts, TokenInNow

(* After the step there is one token at most                               *)
LEMMA TokenPlaced ==
    ASSUME \A i, j \in 1..Len(ops') : Prepares(ops'[i]) /\ Prepares(ops'[j]) => i = j,
           \A i, j \in 1..Len(now') : IsToken(now'[i]) /\ IsToken(now'[j]) => i = j,
           \A i, j \in 1..Len(posts') : IsToken(posts'[i]) /\ IsToken(posts'[j]) => i = j,
           \A i \in 1..Len(ops'), j \in 1..Len(now') : ~(Prepares(ops'[i]) /\ IsToken(now'[j])),
           \A i \in 1..Len(ops'), j \in 1..Len(posts') : ~(Prepares(ops'[i]) /\ IsToken(posts'[j])),
           \A i \in 1..Len(now'), j \in 1..Len(posts') : ~(IsToken(now'[i]) /\ IsToken(posts'[j])),
           \/ pending' = 0
           \/ /\ pending' = 1 /\ \A i \in 1..Len(ops') : ~Prepares(ops'[i])
              /\ \A i \in 1..Len(now') : ~IsToken(now'[i])
              /\ \A i \in 1..Len(posts') : ~IsToken(posts'[i]),
           \/ channelStatus' \notin {"REQUEST", "READY"} /\ preparation' # "none"
           \/ /\ pending' = 0 /\ \A i \in 1..Len(ops') : ~Prepares(ops'[i])
              /\ \A i \in 1..Len(now') : ~IsToken(now'[i])
              /\ \A i \in 1..Len(posts') : ~IsToken(posts'[i])
    PROVE  TokenInv'
<1>1. TokenInOps' => \E i \in 1..Len(ops') : Prepares(ops'[i])
  BY DEF TokenInOps, Prepares
<1>2. TokenInNow' => \E i \in 1..Len(now') : IsToken(now'[i])
  BY DEF TokenInNow, IsToken, Prepares
<1>3. TokenInPosts' => \E i \in 1..Len(posts') : IsToken(posts'[i])
  BY DEF TokenInPosts, IsToken, Prepares
<1>4. /\ pending' <= 1
      /\ TokenInOps' => ~TokenInNow' /\ ~TokenInPosts' /\ pending' = 0
      /\ TokenInNow' => ~TokenInPosts' /\ pending' = 0
      /\ TokenInPosts' => pending' = 0
      /\ TokenInOps' \/ TokenInNow' \/ TokenInPosts' \/ pending' > 0 =>
            channelStatus' \notin {"REQUEST", "READY"} /\ preparation' # "none"
  BY <1>1, <1>2, <1>3
<1>5. QED
  BY <1>4 DEF TokenInv, IsToken, Prepares

(* No work is added for a subscription                                     *)
LEMMA WorkFrame ==
    ASSUME NEW s \in Subscriptions, WorkInv(s), Lengths,
           NEW d \in Int, NEW n \in Nat, Follows(d, n, 1),
           \A j \in 1..Len(now') : j <= n => ~IsWork(now'[j], s),
           \A j \in 1..Len(ops') : Works(ops'[j], s) => j \in 1..Len(ops) /\ ops'[j] = ops[j],
           UNCHANGED <<channelStatus, channel>>, subscriptions'[s] = subscriptions[s],
           usable' \subseteq usable
    PROVE  WorkInv(s)'
<1>1. \A j \in 1..Len(now') : IsWork(now'[j], s) => j - d \in 1..Len(now) /\ now'[j] = now[j - d]
  <2>1. \A j \in 1..Len(now') : j <= n \/ j > n
    BY DEF Lengths
  <2>2. QED
    BY <2>1 DEF Follows
<1>2. \A i, j \in 1..Len(ops') : Works(ops'[i], s) /\ Works(ops'[j], s) => i = j
  BY DEF WorkInv
<1>3. \A i, j \in 1..Len(now') : IsWork(now'[i], s) /\ IsWork(now'[j], s) => i = j
  <2>1. SUFFICES ASSUME NEW i \in 1..Len(now'), NEW j \in 1..Len(now'),
                        IsWork(now'[i], s), IsWork(now'[j], s)
                 PROVE  i = j
    OBVIOUS
  <2>2. i - d = j - d
    BY <1>1, <2>1 DEF WorkInv
  <2>3. QED
    BY <2>2 DEF Lengths
<1>4. \A i \in 1..Len(ops'), j \in 1..Len(now') : ~(Works(ops'[i], s) /\ IsWork(now'[j], s))
  BY <1>1 DEF WorkInv
<1>5. \A i \in 1..Len(ops') : Works(ops'[i], s) =>
         /\ channelStatus' = "READY" /\ ops'[i].ch = channel'
         /\ subscriptions'[s] = StatusOf(ops'[i].op)
  BY DEF WorkInv
<1>6. \A i \in 1..Len(now') : Answers(now'[i], s) =>
         /\ channelStatus' = "READY" /\ now'[i].op.ch = channel'
         /\ subscriptions'[s] = StatusOf(now'[i].op.op)
         /\ now'[i].why # "success" => channel' \notin usable'
  <2>1. \A i \in 1..Len(now') : Answers(now'[i], s) =>
           i - d \in 1..Len(now) /\ now'[i] = now[i - d] /\ Answers(now[i - d], s)
    BY <1>1 DEF IsWork
  <2>2. QED
    BY <2>1 DEF WorkInv
<1>7. \A i \in 1..Len(now') : Moves(now'[i], s) =>
         channelStatus' = "READY" /\ subscriptions'[s] \in {"CHECK_EXCHANGE", "BIND_QUEUE"}
  <2>1. \A i \in 1..Len(now') : Moves(now'[i], s) =>
           i - d \in 1..Len(now) /\ now'[i] = now[i - d] /\ Moves(now[i - d], s)
    BY <1>1 DEF IsWork
  <2>2. QED
    BY <2>1 DEF WorkInv
<1>8. channelStatus' # "READY" => subscriptions'[s] \in {"none", "PENDING"}
  BY DEF WorkInv
<1>9. QED
  BY <1>2, <1>3, <1>4, <1>5, <1>6, <1>7, <1>8 DEF WorkInv, IsWork, Moves, Answers, Works, StatusOf

(* Work for a subscription is executed: there is no other                  *)
LEMMA HeadIsWork ==
    ASSUME NEW s \in Subscriptions, WorkInv(s), now # <<>>, Len(now) \in Nat \ {0}, IsWork(now[1], s)
    PROVE  /\ \A i \in 1..Len(ops) : ~Works(ops[i], s)
           /\ \A i \in 1..Len(now) : IsWork(now[i], s) => i = 1
           /\ channelStatus = "READY"
           /\ Moves(now[1], s) => subscriptions[s] \in {"CHECK_EXCHANGE", "BIND_QUEUE"}
           /\ Answers(now[1], s) =>
                 /\ now[1].op.ch = channel /\ subscriptions[s] = StatusOf(now[1].op.op)
                 /\ now[1].why # "success" => channel \notin usable
<1>1. 1 \in 1..Len(now)
  OBVIOUS
<1>2. channelStatus = "READY"
  BY <1>1 DEF WorkInv, IsWork
<1>3. QED
  BY <1>1, <1>2 DEF WorkInv

(* A subscription for which nothing is under way                           *)
LEMMA NoWork ==
    ASSUME NEW s \in Subscriptions, WorkInv(s),
           channelStatus # "READY" \/ subscriptions[s] \in {"none", "PENDING", "READY"}
    PROVE  /\ \A i \in 1..Len(ops) : ~Works(ops[i], s)
           /\ \A i \in 1..Len(now) : ~IsWork(now[i], s)
<1>1. \A o : StatusOf(o) \notin {"none", "PENDING", "READY"}
  BY DEF StatusOf
<1>2. \A i \in 1..Len(ops) : ~Works(ops[i], s)
  BY <1>1 DEF WorkInv
<1>3. \A i \in 1..Len(now) : ~Answers(now[i], s) /\ ~Moves(now[i], s)
  BY <1>1 DEF WorkInv
<1>4. QED
  BY <1>2, <1>3 DEF IsWork

(* After the step nothing is under way for a subscription                  *)
LEMMA WorkNone ==
    ASSUME NEW s \in Subscriptions,
           \A i \in 1..Len(ops') : ~Works(ops'[i], s),
           \A i \in 1..Len(now') : ~IsWork(now'[i], s),
           channelStatus' # "READY" => subscriptions'[s] \in {"none", "PENDING"}
    PROVE  WorkInv(s)'
<1>1. \A i \in 1..Len(now') : ~Answers(now'[i], s) /\ ~Moves(now'[i], s)
  BY DEF IsWork
<1>2. QED
  BY <1>1 DEF WorkInv, IsWork, Moves, Answers, Works

(* After the step there is one operation, answer or next step for it       *)
LEMMA WorkPlaced ==
    ASSUME NEW s \in Subscriptions, NEW k, NEW l,
           \A i \in 1..Len(ops') : Works(ops'[i], s) =>
                 i = k /\ ops'[i].ch = channel' /\ subscriptions'[s] = StatusOf(ops'[i].op),
           \A i \in 1..Len(now') : Answers(now'[i], s) =>
                 /\ i = l /\ now'[i].op.ch = channel' /\ subscriptions'[s] = StatusOf(now'[i].op.op)
                 /\ now'[i].why # "success" => channel' \notin usable',
           \A i \in 1..Len(now') : Moves(now'[i], s) =>
                 i = l /\ subscriptions'[s] \in {"CHECK_EXCHANGE", "BIND_QUEUE"},
           ~(k \in 1..Len(ops') /\ Works(ops'[k], s) /\ l \in 1..Len(now') /\ IsWork(now'[l], s)),
           channelStatus' = "READY"
    PROVE  WorkInv(s)'
<1>1. \A i \in 1..Len(now') : IsWork(now'[i], s) => i = l
  BY DEF IsWork
<1>2. \A i \in 1..Len(ops') : Works(ops'[i], s) => i = k
  OBVIOUS
<1>3. \A i, j \in 1..Len(ops') : Works(ops'[i], s) /\ Works(ops'[j], s) => i = j
  BY <1>2
<1>4. \A i, j \in 1..Len(now') : IsWork(now'[i], s) /\ IsWork(now'[j], s) => i = j
  BY <1>1
<1>5. \A i \in 1..Len(ops'), j \in 1..Len(now') : ~(Works(ops'[i], s) /\ IsWork(now'[j], s))
  BY <1>1, <1>2
<1>6. QED
  BY <1>3, <1>4, <1>5 DEF WorkInv, IsWork, Moves, Answers, Works, StatusOf

(* The binding of a subscription is not touched                            *)
LEMMA BindingFrame ==
    ASSUME NEW s \in Subscriptions, BindingInv(s), UNCHANGED channel,
           usable' \subseteq usable, subscriptions'[s] = subscriptions[s],
           <<channel, s>> \in bound' <=> <<channel, s>> \in bound
    PROVE  BindingInv(s)'
<1>1. channel' \in usable' =>
         /\ subscriptions'[s] = "READY" => <<channel', s>> \in bound'
         /\ <<channel', s>> \in bound' => subscriptions'[s] \in {"READY", "UNBIND_QUEUE"}
  BY DEF BindingInv
<1>2. QED
  BY <1>1 DEF BindingInv

(* No channel is opened                                                    *)
LEMMA FreshFrame ==
    ASSUME NEW s \in Subscriptions, FreshInv(s), Lengths,
           NEW d \in Int, NEW n \in Nat, Follows(d, n, 1),
           \A j \in 1..Len(now') : j <= n => ~(now'[j].do = "reply" /\ now'[j].op.op = "open"),
           \A j \in 1..Len(ops') : ops'[j].op = "open" => j \in 1..Len(ops) /\ ops'[j] = ops[j],
           bound' \subseteq bound
    PROVE  FreshInv(s)'
<1>1. \A j \in 1..Len(now') : now'[j].do = "reply" /\ now'[j].op.op = "open" =>
         j - d \in 1..Len(now) /\ now'[j] = now[j - d]
  <2>1. \A j \in 1..Len(now') : j <= n \/ j > n
    BY DEF Lengths
  <2>2. QED
    BY <2>1 DEF Follows
<1>2. \A j \in 1..Len(now') : now'[j].do = "reply" /\ now'[j].op.op = "open" =>
         <<now'[j].op.ch, s>> \notin bound'
  BY <1>1 DEF FreshInv
<1>3. \A j \in 1..Len(ops') : ops'[j].op = "open" => <<ops'[j].ch, s>> \notin bound'
  BY DEF FreshInv
<1>4. QED
  BY <1>2, <1>3 DEF FreshInv

(* No channel is being opened                                              *)
LEMMA FreshNone ==
    ASSUME NEW s \in Subscriptions,
           \A j \in 1..Len(now') : ~(now'[j].do = "reply" /\ now'[j].op.op = "open"),
           \A j \in 1..Len(ops') : ops'[j].op # "open"
    PROVE  FreshInv(s)'
BY DEF FreshInv

(* What is added does not disturb the announcement of a reconnection       *)
LEMMA CalmFrame ==
    ASSUME CalmInv, Lengths, NEW d \in Int, NEW n \in Nat, Follows(d, n, 1),
           \A j \in 1..Len(now') : j <= n =>
                 /\ now'[j].do = "doSubscribePending" => channelStatus' = "READY"
                 /\ now'[j].do = "channelError" => now'[j].ch \notin usable'
                 /\ now'[j].do = "fail" => usable' = {},
           \/ n = 0
           \/ /\ \A j \in 1..Len(now) : now[j].do \in Announcing
              /\ \A j \in 1..Len(now') : j <= n => now'[j].do \in Announcing
           \/ /\ \A j \in 1..Len(now) : now[j].do \notin Informs
              /\ \A j \in 1..Len(now') : j <= n => now'[j].do \notin Informs,
           usable' \subseteq usable,
           \/ channelStatus = "READY" => channelStatus' = "READY"
           \/ \A j \in 1..Len(now) : now[j].do # "doSubscribePending",
           \A j \in 1..Len(posts') : posts'[j].do \in Posted
    PROVE  CalmInv'
<1>1. \A j \in 1..Len(now') : j <= n \/ (j - d \in 1..Len(now) /\ now'[j] = now[j - d])
  <2>1. \A j \in 1..Len(now') : j <= n \/ j > n
    BY DEF Lengths
  <2>2. QED
    BY <2>1 DEF Follows
<1>2. ASSUME NEW i \in 1..Len(now'), now'[i].do \in Informs, NEW j \in 1..Len(now')
      PROVE  now'[j].do \in Announcing
  <2>1. CASE n = 0
    <3>1. /\ i - d \in 1..Len(now) /\ now'[i] = now[i - d]
          /\ j - d \in 1..Len(now) /\ now'[j] = now[j - d]
      BY <1>1, <2>1 DEF Lengths
    <3>2. QED
      BY <1>2, <3>1 DEF CalmInv
  <2>2. CASE /\ \A m \in 1..Len(now) : now[m].do \in Announcing
             /\ \A m \in 1..Len(now') : m <= n => now'[m].do \in Announcing
    BY <1>1, <2>2
  <2>3. CASE /\ \A m \in 1..Len(now) : now[m].do \notin Informs
             /\ \A m \in 1..Len(now') : m <= n => now'[m].do \notin Informs
    BY <1>1, <1>2, <2>3
  <2>4. QED
    BY <2>1, <2>2, <2>3
<1>3. \A i \in 1..Len(now') : now'[i].do = "doSubscribePending" => channelStatus' = "READY"
  BY <1>1 DEF CalmInv
<1>4. \A i \in 1..Len(now') : now'[i].do = "channelError" => now'[i].ch \notin usable'
  BY <1>1 DEF CalmInv
<1>5. \A i \in 1..Len(now') : now'[i].do = "fail" => usable' = {}
  BY <1>1 DEF CalmInv
<1>6. QED
  BY <1>2, <1>3, <1>4, <1>5 DEF CalmInv


-----------------------------------------------------------------------------
(* What is under way: steps that have nothing to do with it                *)

(* What a function calls comes first, then what was to follow it           *)
LEMMA Spliced ==
    ASSUME Types, now # <<>>, NEW R, NEW items \in Seq(R), Then(items)
    PROVE  /\ Len(now) \in Nat \ {0} /\ now[1] = Head(now)
           /\ Len(items) \in Nat /\ Len(items) - 1 \in Int
           /\ Len(now') = Len(items) + Len(now) - 1
           /\ Follows(Len(items) - 1, Len(items), 2) /\ Follows(Len(items) - 1, Len(items), 1)
           /\ \A j \in 1..Len(now') : j <= Len(items) => j \in 1..Len(items) /\ now'[j] = items[j]
<1>1. PICK S : now \in Seq(S)
  BY Single DEF Types, Typed
<1>2. PICK B : B = S \cup R
  OBVIOUS
<1>3. now \in Seq(B) /\ items \in Seq(B)
  BY <1>1, <1>2, LargerSeq
<1>4. /\ Len(now) \in Nat \ {0} /\ now[1] = Head(now) /\ Len(items) \in Nat
  BY <1>3, EmptySeq
<1>5. /\ Len(now') = Len(items) + Len(now) - 1
      /\ \A j \in 1..Len(items) : now'[j] = items[j]
      /\ \A j \in (Len(items) + 1)..(Len(items) + Len(now) - 1) : now'[j] = now[j - Len(items) + 1]
  BY <1>3, Replaced DEF Then
<1>6. \A j \in 1..Len(now') : j > Len(items) =>
         /\ j \in (Len(items) + 1)..(Len(items) + Len(now) - 1)
         /\ j - Len(items) + 1 = j - (Len(items) - 1)
         /\ j - (Len(items) - 1) \in 2..Len(now)
         /\ j - (Len(items) - 1) \in 1..Len(now)
  BY <1>4, <1>5
<1>7. Follows(Len(items) - 1, Len(items), 2) /\ Follows(Len(items) - 1, Len(items), 1)
  BY <1>5, <1>6 DEF Follows
<1>8. QED
  BY <1>4, <1>5, <1>7

(* What is executed has its first item                                     *)
LEMMA First ==
    ASSUME Types, now # <<>>
    PROVE  Len(now) \in Nat \ {0} /\ now[1] = Head(now) /\ 1 \in 1..Len(now)
<1>1. PICK S : now \in Seq(S)
  BY Single DEF Types, Typed
<1>2. QED
  BY <1>1, EmptySeq

(* Nothing changes in what is executed                                     *)
LEMMA SameNow ==
    ASSUME Lengths, now' = now
    PROVE  Follows(0, 0, 1)
BY DEF Follows, Lengths

(* Items that are not about preparations, subscriptions and reconnections  *)
Neutral(x) ==
    /\ x.do \notin Announcing
    /\ x.do \notin {"moveSubscriptionState", "doSubscribePending", "channelError", "fail"}
    /\ x.do = "reply" => x.op.op \notin Tracked

(* They are neither a token, nor work, nor the answer of a new channel     *)
LEMMA NeutralFacts ==
    ASSUME NEW x, Neutral(x)
    PROVE  /\ ~IsToken(x) /\ \A s : ~IsWork(x, s)
           /\ ~(x.do = "reply" /\ x.op.op = "open")
           /\ x.do \notin Informs
           /\ x.do \notin {"doSubscribePending", "channelError", "fail"}
BY DEF Neutral, IsToken, IsWork, Moves, Answers, Works, Prepares, Tracked, Announcing, Informs

(* Steps that only add such items                                          *)
LEMMA PlainStep ==
    ASSUME TidyInv, Lengths, NEW d \in Int, NEW n \in Nat, Follows(d, n, 1),
           \A j \in 1..Len(now') : j <= n => Neutral(now'[j]),
           n = 0 \/ \A j \in 1..Len(now) : now[j].do \notin Informs,
           OpsKeep, PostsKeep, \A j \in 1..Len(posts') : posts'[j].do \in Posted,
           UNCHANGED <<channelStatus, channel, usable, subscriptions, bound, pending, preparation>>
    PROVE  TidyInv'
<1>1. \A j \in 1..Len(now') : j <= n =>
         /\ ~IsToken(now'[j]) /\ \A s : ~IsWork(now'[j], s)
         /\ ~(now'[j].do = "reply" /\ now'[j].op.op = "open")
         /\ now'[j].do \notin Informs
         /\ now'[j].do \notin {"doSubscribePending", "channelError", "fail"}
  BY NeutralFacts
<1>2. TokenInv'
  BY <1>1, TokenFrame DEF TidyInv
<1>3. CalmInv'
  BY <1>1, CalmFrame DEF TidyInv
<1>4. ASSUME NEW s \in Subscriptions
      PROVE  WorkInv(s)' /\ BindingInv(s)' /\ FreshInv(s)'
  <2>1. WorkInv(s) /\ BindingInv(s) /\ FreshInv(s)
    BY DEF TidyInv
  <2>2. WorkInv(s)'
    <3>1. \A j \in 1..Len(ops') : Works(ops'[j], s) => j \in 1..Len(ops) /\ ops'[j] = ops[j]
      BY DEF OpsKeep, Works, Tracked
    <3>2. QED
      BY <1>1, <2>1, <3>1, WorkFrame
  <2>3. BindingInv(s)'
    BY <2>1, BindingFrame
  <2>4. FreshInv(s)'
    <3>1. \A j \in 1..Len(ops') : ops'[j].op = "open" => j \in 1..Len(ops) /\ ops'[j] = ops[j]
      BY DEF OpsKeep, Tracked
    <3>2. QED
      BY <1>1, <2>1, <3>1, FreshFrame
  <2>5. QED
    BY <2>2, <2>3, <2>4
<1>5. QED
  BY <1>2, <1>3, <1>4 DEF TidyInv

(* A function that is neither of these, and what it calls neither          *)
LEMMA PlainFunction ==
    ASSUME Types, Types', TidyInv, now # <<>>, NEW R, NEW items \in Seq(R), Then(items),
           items = <<>> \/ Head(now).do \notin Announcing,
           \A j \in 1..Len(items) : Neutral(items[j]),
           OpsKeep, PostsKeep, \A j \in 1..Len(posts') : posts'[j].do \in Posted,
           UNCHANGED <<channelStatus, channel, usable, subscriptions, bound, pending, preparation>>
    PROVE  TidyInv'
<1>1. /\ Len(items) \in Nat /\ Len(items) - 1 \in Int
      /\ Follows(Len(items) - 1, Len(items), 1)
      /\ \A j \in 1..Len(now') : j <= Len(items) => j \in 1..Len(items) /\ now'[j] = items[j]
  BY Spliced
<1>2. Lengths
  BY HasLengths
<1>3. \A j \in 1..Len(now') : j <= Len(items) => Neutral(now'[j])
  BY <1>1
<1>4. Len(items) = 0 \/ \A j \in 1..Len(now) : now[j].do \notin Informs
  <2>1. CASE items = <<>>
    BY <2>1
  <2>2. CASE Head(now).do \notin Announcing
    <3>1. now[1] = Head(now) /\ 1 \in 1..Len(now)
      BY First
    <3>2. QED
      BY <2>2, <3>1 DEF TidyInv, CalmInv
  <2>3. QED
    BY <2>1, <2>2
<1>5. QED
  BY <1>1, <1>2, <1>3, <1>4, PlainStep

(* Calls of handlers, and postponed messages                               *)
LEMMA NeutralItems ==
    /\ \A hs, b : \A i \in 1..Len(hs) : Neutral([do |-> "handler", h |-> hs[i], ok |-> b])
    /\ Neutral(Do("publishPostponed"))
    /\ \A o, w : o.op \notin Tracked => Neutral(Reply(o, w))
BY DEF Neutral, Do, Reply, Announcing, Informs

(* Nothing is posted, or one more function                                 *)
LEMMA PostsAsBefore ==
    ASSUME TidyInv, UNCHANGED posts
    PROVE  PostsKeep /\ \A j \in 1..Len(posts') : posts'[j].do \in Posted
BY DEF TidyInv, CalmInv, PostsKeep

(* Functions that are posted                                               *)
LEMMA PostsMore ==
    ASSUME TidyInv, Lengths, Quiet,
           \A j \in (Len(posts) + 1)..Len(posts') : posts'[j].do \in Posted /\ ~IsToken(posts'[j])
    PROVE  PostsKeep /\ \A j \in 1..Len(posts') : posts'[j].do \in Posted
<1>1. \A j \in 1..Len(posts') : j \in 1..Len(posts) \/ j \in (Len(posts) + 1)..Len(posts')
  BY DEF Lengths
<1>2. \A j \in 1..Len(posts) : posts'[j] = posts[j]
  BY DEF Quiet
<1>3. \A j \in 1..Len(posts) : posts[j].do \in Posted
  BY DEF TidyInv, CalmInv
<1>4. QED
  BY <1>1, <1>2, <1>3 DEF PostsKeep

(* No operation is added                                                   *)
LEMMA OpsAsBefore ==
    ASSUME UNCHANGED ops
    PROVE  OpsKeep
BY DEF OpsKeep


(* Calling a handler is nothing of these                                   *)
LEMMA CallNeutral ==
    ASSUME NEW T, NEW hs \in Seq(T), NEW b \in BOOLEAN
    PROVE  Call(hs, b) \in Seq(Items(T, 0)) /\ \A j \in 1..Len(Call(hs, b)) : Neutral(Call(hs, b)[j])
<1>1. Call(hs, b) \in Seq(Items(T, 0)) /\ Len(Call(hs, b)) = Len(hs) /\ Len(hs) \in Nat
  BY CallTyped
<1>2. \A j \in 1..Len(hs) : Call(hs, b)[j] = [do |-> "handler", h |-> hs[j], ok |-> b]
  BY DEF Call
<1>3. QED
  BY <1>1, <1>2, NeutralItems

(* An operation waits for its answer, or is refused                        *)
LEMMA Operated ==
    ASSUME Types, now # <<>>, NEW o, Operation(o, <<>>)
    PROVE  \/ /\ channel \in usable /\ Then(<<>>)
              /\ Len(ops) \in Nat /\ Len(ops') = Len(ops) + 1 /\ ops'[Len(ops) + 1] = o
              /\ \A j \in 1..Len(ops) : ops'[j] = ops[j]
           \/ channel \notin usable /\ ops' = ops /\ Then(<<Reply(o, "not sent")>>)
<1>1. PICK S : ops \in Seq(S)
  BY DEF Types, Typed
<1>4. <<Reply(o, "not sent")>> \o <<>> = <<Reply(o, "not sent")>>
  OBVIOUS
<1>5. CASE channel \in usable
  <2>1. ops' = Append(ops, o) /\ Then(<<>>)
    BY <1>5 DEF Operation
  <2>2. QED
    BY <1>1, <1>5, <2>1, AppendedAny
<1>6. CASE channel \notin usable
  BY <1>4, <1>6 DEF Operation
<1>7. QED
  BY <1>5, <1>6

(* onLost()                                                                *)
LEMMA TidyLost ==
    ASSUME Types, Types', TidyInv, onLost, UNCHANGED <<client, observed, calls>>
    PROVE  TidyInv'
<1>1. UNCHANGED <<pending, usable, ops, posts, now, channelStatus, channel, preparation, subscriptions,
                  bound>>
  BY DEF onLost, library, context, client, observed
<1>2. Lengths
  BY HasLengths
<1>3. Follows(0, 0, 1)
  BY <1>1, <1>2, SameNow
<1>4. OpsKeep /\ PostsKeep /\ \A j \in 1..Len(posts') : posts'[j].do \in Posted
  BY <1>1, OpsAsBefore, PostsAsBefore
<1>5. \A j \in 1..Len(now') : j <= 0 => Neutral(now'[j])
  BY <1>2 DEF Lengths
<1>6. QED
  BY <1>1, <1>2, <1>3, <1>4, <1>5, PlainStep

(* asyncConnect()                                                          *)
LEMMA TidyConnect ==
    ASSUME Types, Types', TidyInv, asyncConnect, UNCHANGED <<client, observed, calls>>
    PROVE  TidyInv'
<1>1. UNCHANGED <<pending, usable, ops, now, channelStatus, channel, preparation, subscriptions, bound>>
  BY DEF asyncConnect, library, client, observed
<1>2. Lengths
  BY HasLengths
<1>3. Follows(0, 0, 1)
  BY <1>1, <1>2, SameNow
<1>4. PostsKeep /\ \A j \in 1..Len(posts') : posts'[j].do \in Posted
  <2>1. CASE posts' = posts
    BY <2>1, PostsAsBefore
  <2>2. CASE posts' = Append(posts, Inform(TRUE))
    <3>1. PICK S : posts \in Seq(S)
      BY DEF Types, Typed
    <3>2. Len(posts') = Len(posts) + 1 /\ posts'[Len(posts) + 1] = Inform(TRUE)
      BY <2>2, <3>1, AppendedAny
    <3>3. Quiet
      BY AsyncConnectTypes DEF Types, KeepsTypes
    <3>4. Inform(TRUE).do \in Posted /\ ~IsToken(Inform(TRUE))
      BY DEF Inform, Posted, IsToken
    <3>5. \A j \in (Len(posts) + 1)..Len(posts') : j = Len(posts) + 1
      BY <1>2, <3>2 DEF Lengths
    <3>6. QED
      BY <1>2, <3>2, <3>3, <3>4, <3>5, PostsMore
  <2>3. QED
    BY <2>1, <2>2 DEF asyncConnect
<1>5. OpsKeep
  BY <1>1, OpsAsBefore
<1>6. \A j \in 1..Len(now') : j <= 0 => Neutral(now'[j])
  BY <1>2 DEF Lengths
<1>7. QED
  BY <1>1, <1>2, <1>3, <1>4, <1>5, <1>6, PlainStep

(* channelErrorHandler()                                                   *)
LEMMA TidyChannelError ==
    ASSUME Types, Types', TidyInv, channelErrorHandler
    PROVE  TidyInv'
<1>1. UNCHANGED <<pending, usable, ops, channelStatus, channel, preparation, subscriptions, bound>>
  BY DEF channelErrorHandler, connection, library, client, observed
<1>2. Lengths
  BY HasLengths
<1>3. PostsKeep /\ \A j \in 1..Len(posts') : posts'[j].do \in Posted
  <2> DEFINE x == Do("reviveIfReconnected")
  <2>1. CASE posts' = posts
    BY <2>1, PostsAsBefore
  <2>2. CASE posts' = Append(posts, x)
    <3>1. PICK S : posts \in Seq(S)
      BY DEF Types, Typed
    <3>2. Len(posts') = Len(posts) + 1 /\ posts'[Len(posts) + 1] = x
      BY <2>2, <3>1
    <3>3. Quiet
      BY ChannelErrorTypes DEF Types, KeepsTypes
    <3>4. x.do \in Posted /\ ~IsToken(x)
      BY DEF Do, Posted, IsToken
    <3>5. \A j \in (Len(posts) + 1)..Len(posts') : j = Len(posts) + 1
      BY <1>2, <3>2 DEF Lengths
    <3> HIDE DEF x
    <3>6. QED
      BY <1>2, <3>2, <3>3, <3>4, <3>5, PostsMore
  <2>3. QED
    BY <2>1, <2>2 DEF channelErrorHandler
<1>4. now # <<>> /\ Then(<<>>) /\ <<>> \in Seq({}) /\ 1..Len(<<>>) = {}
  BY DEF channelErrorHandler, Runs
<1>5. OpsKeep
  BY <1>1, OpsAsBefore
<1>6. QED
  BY <1>1, <1>3, <1>4, <1>5, PlainFunction

(* The user calls                                                          *)
LEMMA TidyCall ==
    ASSUME Types, Types', TidyInv, Calling
    PROVE  TidyInv'
<1>1. UNCHANGED <<pending, usable, ops, now, channelStatus, channel, preparation, subscriptions, bound>>
  BY DEF Calling, callSubscribe, callUnsubscribe, callUnsubscribeAll, callPublish, connection,
         library, client, observed
<1>2. Lengths
  BY HasLengths
<1>3. Follows(0, 0, 1)
  BY <1>1, <1>2, SameNow
<1>4. PICK x : posts' = Append(posts, x) /\ x.do \in Posted /\ x.do # "channelCreated"
  <2>1. ASSUME NEW s \in Subscriptions, callSubscribe(s)
        PROVE  \E x : posts' = Append(posts, x) /\ x.do \in Posted /\ x.do # "channelCreated"
    <3>1. posts' = Append(posts, Subscribe(s, <<Tell(called')>>))
      BY <2>1 DEF callSubscribe
    <3>2. Subscribe(s, <<Tell(called')>>).do = "asyncSubscribe"
      BY DEF Subscribe
    <3>3. QED
      BY <3>1, <3>2 DEF Posted
  <2>2. ASSUME NEW s \in Subscriptions, callUnsubscribe(s)
        PROVE  \E x : posts' = Append(posts, x) /\ x.do \in Posted /\ x.do # "channelCreated"
    <3>1. posts' = Append(posts, Unsubscribe(s, <<Tell(called')>>))
      BY <2>2 DEF callUnsubscribe
    <3>2. Unsubscribe(s, <<Tell(called')>>).do = "asyncUnsubscribe"
      BY DEF Unsubscribe
    <3>3. QED
      BY <3>1, <3>2 DEF Posted
  <2>3. ASSUME callUnsubscribeAll
        PROVE  \E x : posts' = Append(posts, x) /\ x.do \in Posted /\ x.do # "channelCreated"
    <3>1. posts' = Append(posts, UnsubscribeAll(<<Tell(called')>>))
      BY <2>3 DEF callUnsubscribeAll
    <3>2. UnsubscribeAll(<<Tell(called')>>).do = "asyncUnsubscribeAll"
      BY DEF UnsubscribeAll
    <3>3. QED
      BY <3>1, <3>2 DEF Posted
  <2>4. ASSUME callPublish
        PROVE  \E x : posts' = Append(posts, x) /\ x.do \in Posted /\ x.do # "channelCreated"
    <3>1. posts' = Append(posts, Publish(messages'))
      BY <2>4 DEF callPublish
    <3>2. Publish(messages').do = "asyncPublish"
      BY DEF Publish
    <3>3. QED
      BY <3>1, <3>2 DEF Posted
  <2>5. QED
    BY <2>1, <2>2, <2>3, <2>4 DEF Calling
<1>5. PostsKeep /\ \A j \in 1..Len(posts') : posts'[j].do \in Posted
  <2>1. PICK S : posts \in Seq(S)
    BY DEF Types, Typed
  <2>2. /\ Len(posts') = Len(posts) + 1 /\ posts'[Len(posts) + 1] = x
        /\ \A j \in 1..Len(posts) : posts'[j] = posts[j]
    BY <1>4, <2>1
  <2>3. ~IsToken(x)
    BY <1>4 DEF Posted, IsToken
  <2>4. \A j \in 1..Len(posts') : j \in 1..Len(posts) \/ j = Len(posts) + 1
    BY <1>2, <2>2 DEF Lengths
  <2>5. \A j \in 1..Len(posts) : posts[j].do \in Posted
    BY DEF TidyInv, CalmInv
  <2>6. QED
    BY <1>4, <2>2, <2>3, <2>4, <2>5 DEF PostsKeep
<1>6. OpsKeep
  BY <1>1, OpsAsBefore
<1>7. \A j \in 1..Len(now') : j <= 0 => Neutral(now'[j])
  BY <1>2 DEF Lengths
<1>8. QED
  BY <1>1, <1>2, <1>3, <1>5, <1>6, <1>7, PlainStep


(* asyncUnsubscribeAll()                                                   *)
LEMMA TidyUnsubscribeAll ==
    ASSUME Types, Types', TidyInv, asyncUnsubscribeAll
    PROVE  TidyInv'
<1>1. UNCHANGED <<pending, usable, ops, channelStatus, channel, preparation, subscriptions, bound>>
  BY DEF asyncUnsubscribeAll, connection, library, observed
<1>2. Lengths /\ OpsKeep
  BY <1>1, HasLengths, OpsAsBefore
<1>3. now # <<>> /\ Head(now).do = "asyncUnsubscribeAll"
  BY DEF asyncUnsubscribeAll, Runs
<1>4. PICK T : TypeOK /\ Typed(T)
  BY DEF Types
<1> DEFINE known == {s \in Subscriptions : subscriptions[s] # "none"}
           order == SetToSeq(known)
           g == Len(groups) + 1
           extra == [i \in 1..Len(order) |-> Unsubscribe(order[i], <<OneDone(g, order[i])>>)]
<1>5. CASE known = {}
  <2>1. Then(Call(Answer.hs, TRUE)) /\ UNCHANGED posts
    BY <1>5 DEF asyncUnsubscribeAll
  <2>2. Answer.hs \in Seq(T)
    <3>1. Answer \in Items(T, created) /\ created \in Nat
      BY <1>3, <1>4, Running DEF Answer
    <3>2. QED
      BY <1>3, <3>1, ItemFacts DEF Answer
  <2>3. /\ Call(Answer.hs, TRUE) \in Seq(Items(T, 0))
        /\ \A j \in 1..Len(Call(Answer.hs, TRUE)) : Neutral(Call(Answer.hs, TRUE)[j])
    BY <2>2, CallNeutral
  <2>4. PostsKeep /\ \A j \in 1..Len(posts') : posts'[j].do \in Posted
    BY <2>1, PostsAsBefore
  <2>5. Head(now).do \notin Announcing
    BY <1>3 DEF Announcing, Informs
  <2>6. QED
    BY <1>1, <1>2, <1>3, <2>1, <2>3, <2>4, <2>5, PlainFunction
<1>6. CASE known # {}
  <2>1. Then(<<>>) /\ posts' = posts \o extra
    BY <1>6 DEF asyncUnsubscribeAll
  <2>2. Len(order) \in Nat
    BY Listed
  <2>3. \A i \in 1..Len(order) : extra[i].do = "asyncUnsubscribe"
    BY DEF Unsubscribe
  <2> HIDE DEF order, g
  <2>4. extra \in Seq({extra[i] : i \in 1..Len(order)}) /\ Len(extra) = Len(order)
    BY <2>2
  <2> HIDE DEF extra
  <2>5. PICK S, R : posts \in Seq(S) /\ extra \in Seq(R)
    BY <1>4, <2>4 DEF Typed
  <2>6. \A j \in (Len(posts) + 1)..Len(posts') : posts'[j].do = "asyncUnsubscribe"
    <3>1. \A j \in (Len(posts) + 1)..Len(posts') :
             j - Len(posts) \in 1..Len(extra) /\ posts'[j] = extra[j - Len(posts)]
      BY <2>1, <2>5, ConcatAny
    <3>2. QED
      BY <2>3, <2>4, <3>1
  <2>7. Quiet
    BY <1>4, UnsubscribeAllTypes DEF KeepsTypes
  <2>8. PostsKeep /\ \A j \in 1..Len(posts') : posts'[j].do \in Posted
    <3>1. \A j \in (Len(posts) + 1)..Len(posts') : posts'[j].do \in Posted /\ ~IsToken(posts'[j])
      BY <2>6 DEF Posted, IsToken
    <3>2. QED
      BY <1>2, <2>7, <3>1, PostsMore
  <2>9. <<>> \in Seq({}) /\ 1..Len(<<>>) = {}
    OBVIOUS
  <2>10. QED
    BY <1>1, <1>2, <1>3, <2>1, <2>8, <2>9, PlainFunction
<1>7. QED
  BY <1>5, <1>6

(* Operations that make an exchange ready for publishing                   *)
LEMMA OpsKeepPublishing ==
    ASSUME Types, Types', now # <<>>, NEW o, o.op \notin Tracked, Operation(o, <<>>)
    PROVE  OpsKeep /\ \E items \in Seq({Reply(o, "not sent")}) :
              Then(items) /\ \A j \in 1..Len(items) : Neutral(items[j])
<1>0. Lengths
  BY HasLengths
<1>1. CASE /\ channel \in usable /\ Then(<<>>)
           /\ Len(ops) \in Nat /\ Len(ops') = Len(ops) + 1 /\ ops'[Len(ops) + 1] = o
           /\ \A j \in 1..Len(ops) : ops'[j] = ops[j]
  <2>1. \A j \in 1..Len(ops') : j \in 1..Len(ops) \/ j = Len(ops) + 1
    BY <1>1
  <2>2. OpsKeep
    BY <1>1, <2>1 DEF OpsKeep
  <2>3. <<>> \in Seq({Reply(o, "not sent")}) /\ 1..Len(<<>>) = {}
    OBVIOUS
  <2>4. QED
    BY <1>1, <2>2, <2>3
<1>2. CASE ops' = ops /\ Then(<<Reply(o, "not sent")>>)
  <2>1. Neutral(Reply(o, "not sent"))
    BY NeutralItems
  <2>2. PICK x : x = Reply(o, "not sent")
    OBVIOUS
  <2>3. <<x>> \in Seq({x}) /\ \A j \in 1..Len(<<x>>) : <<x>>[j] = x
    OBVIOUS
  <2>4. QED
    BY <1>2, <2>1, <2>2, <2>3, OpsAsBefore
<1>3. QED
  BY <1>1, <1>2, Operated

(* asyncPrepareExchangeThenPublish(), in a step that is nothing else       *)
LEMMA TidyPrepareExchange ==
    ASSUME Types, Types', TidyInv, now # <<>>, Head(now).do \notin Announcing,
           NEW o, o.op \notin Tracked, Operation(o, <<>>),
           UNCHANGED <<posts, channelStatus, channel, usable, subscriptions, bound, pending, preparation>>
    PROVE  TidyInv'
<1>1. PICK items \in Seq({Reply(o, "not sent")}) :
         Then(items) /\ \A j \in 1..Len(items) : Neutral(items[j])
  BY OpsKeepPublishing
<1>2. OpsKeep
  BY OpsKeepPublishing
<1>3. PostsKeep /\ \A j \in 1..Len(posts') : posts'[j].do \in Posted
  BY PostsAsBefore
<1>4. QED
  BY <1>1, <1>2, <1>3, PlainFunction

(* A function that calls nothing or publishPostponed()                     *)
LEMMA TidyPublishing ==
    ASSUME Types, Types', TidyInv, now # <<>>, Head(now).do \notin Announcing,
           Then(<<>>) \/ Then(<<Do("publishPostponed")>>),
           UNCHANGED <<ops, posts, channelStatus, channel, usable, subscriptions, bound, pending, preparation>>
    PROVE  TidyInv'
<1>1. PostsKeep /\ (\A j \in 1..Len(posts') : posts'[j].do \in Posted) /\ OpsKeep
  BY PostsAsBefore, OpsAsBefore
<1>2. CASE Then(<<>>)
  <2>1. <<>> \in Seq({}) /\ 1..Len(<<>>) = {}
    OBVIOUS
  <2>2. QED
    BY <1>1, <1>2, <2>1, PlainFunction
<1>3. CASE Then(<<Do("publishPostponed")>>)
  <2>1. PICK x : x = Do("publishPostponed")
    OBVIOUS
  <2>2. <<x>> \in Seq({x}) /\ (\A j \in 1..Len(<<x>>) : <<x>>[j] = x) /\ Neutral(x)
    BY <2>1, NeutralItems
  <2>3. QED
    BY <1>1, <1>3, <2>1, <2>2, PlainFunction
<1>4. QED
  BY <1>2, <1>3


(* Nothing of it changes                                                   *)
LEMMA TidySame ==
    ASSUME Types, Types', TidyInv,
           UNCHANGED <<now, ops, posts, channelStatus, channel, usable, subscriptions, bound, pending,
                       preparation>>
    PROVE  TidyInv'
<1>1. Lengths
  BY HasLengths
<1>2. Follows(0, 0, 1)
  BY <1>1, SameNow
<1>3. OpsKeep /\ PostsKeep /\ \A j \in 1..Len(posts') : posts'[j].do \in Posted
  BY OpsAsBefore, PostsAsBefore
<1>4. \A j \in 1..Len(now') : j <= 0 => Neutral(now'[j])
  BY <1>1 DEF Lengths
<1>5. QED
  BY <1>1, <1>2, <1>3, <1>4, PlainStep

(* publishPostponed()                                                      *)
LEMMA TidyPublishPostponed ==
    ASSUME Types, Types', TidyInv, publishPostponed
    PROVE  TidyInv'
<1>1. UNCHANGED <<posts, channelStatus, channel, usable, subscriptions, bound, pending, preparation>>
  BY DEF publishPostponed, connection
<1>2. now # <<>> /\ Head(now).do \notin Announcing
  BY DEF publishPostponed, Runs, Announcing, Informs
<1> DEFINE e == ExchangeOf[Head(postponed)]
<1>3. CASE UNCHANGED <<now, ops>>
  BY <1>1, <1>3, TidySame
<1>4. CASE asyncPrepareExchangeThenPublish(e)
  <2>1. PICK o : o.op \notin Tracked /\ Operation(o, <<>>)
    <3>1. Op("bind to publish", e).op \notin Tracked /\ Op("declare to publish", e).op \notin Tracked
      BY DEF Op, Tracked
    <3>2. Operation(Op("bind to publish", e), <<>>) \/ Operation(Op("declare to publish", e), <<>>)
      BY <1>4 DEF asyncPrepareExchangeThenPublish
    <3>3. QED
      BY <3>1, <3>2
  <2>2. QED
    BY <1>1, <1>2, <2>1, TidyPrepareExchange
<1>5. CASE Then(<<>>) /\ UNCHANGED ops
  BY <1>1, <1>2, <1>5, TidyPublishing
<1>6. QED
  BY <1>3, <1>4, <1>5 DEF publishPostponed

(* The exchange is declared in order to publish                            *)
LEMMA TidyDeclaredToPublish ==
    ASSUME Types, Types', TidyInv, declaredToPublish
    PROVE  TidyInv'
<1>1. UNCHANGED <<posts, channelStatus, channel, usable, subscriptions, bound, pending, preparation>>
  BY DEF declaredToPublish, connection
<1>2. now # <<>> /\ Head(now).do \notin Announcing
  BY DEF declaredToPublish, Answered, Runs, Announcing, Informs
<1> DEFINE o == Op("bind to publish", Answer.op.x)
<1>3. CASE Success
  <2>1. o.op \notin Tracked
    BY DEF Op, Tracked
  <2>2. Operation(o, <<>>)
    BY <1>3 DEF declaredToPublish
  <2> HIDE DEF o
  <2>3. QED
    BY <1>1, <1>2, <2>1, <2>2, TidyPrepareExchange
<1>4. CASE ~Success
  <2>1. (Then(<<>>) \/ Then(<<Do("publishPostponed")>>)) /\ UNCHANGED ops
    BY <1>4 DEF declaredToPublish
  <2>2. QED
    BY <1>1, <1>2, <2>1, TidyPublishing
<1>5. QED
  BY <1>3, <1>4

(* The exchange is bound in order to publish                               *)
LEMMA TidyBoundToPublish ==
    ASSUME Types, Types', TidyInv, boundToPublish
    PROVE  TidyInv'
<1>1. UNCHANGED <<ops, posts, channelStatus, channel, usable, subscriptions, bound, pending, preparation>>
  BY DEF boundToPublish, connection, library, observed
<1>2. now # <<>> /\ Head(now).do \notin Announcing
  BY DEF boundToPublish, Answered, Runs, Announcing, Informs
<1>3. Then(<<>>) \/ Then(<<Do("publishPostponed")>>)
  BY DEF boundToPublish
<1>4. QED
  BY <1>1, <1>2, <1>3, TidyPublishing

(* An answer is dropped                                                    *)
LEMMA TidyDropped ==
    ASSUME Types, Types', TidyInv, answerDropped
    PROVE  TidyInv'
<1>1. UNCHANGED <<ops, posts, channelStatus, channel, usable, subscriptions, bound, pending, preparation>>
  BY DEF answerDropped, connection, library, client, observed
<1>2. now # <<>> /\ Head(now).do \notin Announcing /\ Then(<<>>)
  BY DEF answerDropped, Runs, Announcing, Informs
<1>3. QED
  BY <1>1, <1>2, TidyPublishing

(* A function that calls a handler                                         *)
LEMMA TidyCalling ==
    ASSUME Types, Types', TidyInv, now # <<>>, Head(now).do \notin Announcing,
           NEW T, NEW hs \in Seq(T), NEW b \in BOOLEAN, Then(Call(hs, b)),
           UNCHANGED <<ops, posts, channelStatus, channel, usable, subscriptions, bound, pending, preparation>>
    PROVE  TidyInv'
<1>1. /\ Call(hs, b) \in Seq(Items(T, 0))
      /\ \A j \in 1..Len(Call(hs, b)) : Neutral(Call(hs, b)[j])
  BY CallNeutral
<1>2. PostsKeep /\ (\A j \in 1..Len(posts') : posts'[j].do \in Posted) /\ OpsKeep
  BY PostsAsBefore, OpsAsBefore
<1>3. QED
  BY <1>1, <1>2, PlainFunction

(* A part of a handler is executed                                         *)
LEMMA TidyHandler ==
    ASSUME Types, Types', TidyInv, handler
    PROVE  TidyInv'
<1>1. UNCHANGED <<ops, channelStatus, channel, usable, subscriptions, bound, pending, preparation>>
  BY DEF handler, connection, library
<1>2. now # <<>> /\ Head(now).do \notin Announcing
  BY DEF handler, Runs, Announcing, Informs
<1> DEFINE h == Answer.h
           group == groups'[h.g]
<1>3. CASE h.do = "tell" /\ Then(<<>>) /\ UNCHANGED posts
  BY <1>1, <1>2, <1>3, TidyPublishing
<1>4. CASE /\ h.do = "one done"
           /\ groups' = [groups EXCEPT ![h.g].left = @ \ {h.s}, ![h.g].ok = @ /\ Answer.ok]
           /\ Then(CASE group.left # {} -> <<>>
                     [] group.left = {} /\ group.hs # <<>> -> Call(group.hs, group.ok)
                     [] group.left = {} /\ group.hs = <<>> ->
                           IF group.ok THEN <<Do("publishPostponed")>> ELSE <<>>)
           /\ UNCHANGED posts
  <2>1. Then(<<>>) \/ Then(Call(group.hs, group.ok)) \/ Then(<<Do("publishPostponed")>>)
    BY <1>4
  <2>2. CASE Then(<<>>) \/ Then(<<Do("publishPostponed")>>)
    BY <1>1, <1>2, <1>4, <2>2, TidyPublishing
  <2>3. CASE Then(Call(group.hs, group.ok))
    <3>1. PICK T : TypeOK /\ Typed(T)
      BY DEF Types
    <3>2. \E U : group.hs \in Seq(U) /\ group.ok \in BOOLEAN
      <4>1. PICK U : Typed(U)'
        BY DEF Types
      <4>2. groups' \in Seq([left : SUBSET Subscriptions, ok : BOOLEAN, hs : Seq(U)])
        BY <4>1 DEF Typed
      <4>3. h.g \in 1..Len(groups)
        <5>1. Answer \in Items(T, created) /\ created \in Nat /\ Answer.do = "handler"
          BY <1>2, <3>1, Running DEF handler, Runs, Answer
        <5>2. h \in T
          BY <5>1, ItemFacts
        <5>3. h \in Parts(T, Len(groups))
          BY <3>1, <5>2 DEF Typed
        <5> HIDE DEF h
        <5>4. QED
          BY <1>4, <5>3 DEF Parts, Repeated
      <4>4. Len(groups') = Len(groups)
        <5>1. PICK S : groups \in Seq(S)
          BY <3>1 DEF Typed
        <5>2. DOMAIN groups' = DOMAIN groups
          <6> HIDE DEF h
          <6>1. QED
            BY <1>4, Zenon
        <5>3. DOMAIN groups = 1..Len(groups) /\ Len(groups) \in Nat
              /\ DOMAIN groups' = 1..Len(groups') /\ Len(groups') \in Nat
          BY <4>2, <5>1
        <5>4. QED
          BY <5>2, <5>3
      <4> HIDE DEF h
      <4>5. groups'[h.g] \in [left : SUBSET Subscriptions, ok : BOOLEAN, hs : Seq(U)]
        <5> DEFINE G == [left : SUBSET Subscriptions, ok : BOOLEAN, hs : Seq(U)]
        <5>1. groups' \in Seq(G) /\ h.g \in 1..Len(groups')
          BY <4>2, <4>3, <4>4
        <5> HIDE DEF G
        <5>2. groups'[h.g] \in G
          BY <5>1
        <5>3. QED
          BY <5>2 DEF G
      <4>6. QED
        BY <4>5
    <3>3. PICK U : group.hs \in Seq(U) /\ group.ok \in BOOLEAN
      BY <3>2
    <3> HIDE DEF group
    <3>4. UNCHANGED posts
      BY <1>4
    <3>5. QED
      BY <1>1, <1>2, <2>3, <3>3, <3>4, TidyCalling
  <2>4. QED
    BY <2>1, <2>2, <2>3
<1>5. CASE /\ h.do \in {"asyncSubscribe", "asyncUnsubscribe"}
           /\ posts' = Append(posts, h) /\ Then(<<>>)
  <2> HIDE DEF h
  <2>1. PICK S : posts \in Seq(S)
    BY DEF Types, Typed
  <2>2. Len(posts') = Len(posts) + 1 /\ posts'[Len(posts) + 1] = h
    BY <1>5, <2>1, AppendedAny
  <2>3. Quiet
    BY HandlerTypes DEF Types, KeepsTypes
  <2>4. h.do \in Posted /\ ~IsToken(h)
    BY <1>5 DEF Posted, IsToken
  <2>5. Lengths
    BY HasLengths
  <2>6. \A j \in (Len(posts) + 1)..Len(posts') : j = Len(posts) + 1
    BY <2>2, <2>5 DEF Lengths
  <2>7. PostsKeep /\ \A j \in 1..Len(posts') : posts'[j].do \in Posted
    BY <2>2, <2>3, <2>4, <2>5, <2>6, PostsMore
  <2>8. <<>> \in Seq({}) /\ 1..Len(<<>>) = {} /\ OpsKeep
    BY <1>1, OpsAsBefore
  <2>9. QED
    BY <1>1, <1>2, <1>5, <2>7, <2>8, PlainFunction
<1>6. QED
  BY <1>3, <1>4, <1>5 DEF handler


-----------------------------------------------------------------------------
(* What is under way: subscriptions                                        *)

(* A channel that is READY: no other is being opened                       *)
LEMMA FreshReady ==
    ASSUME NEW s \in Subscriptions, TokenInv', channelStatus' = "READY"
    PROVE  FreshInv(s)'
<1>1. ~TokenInOps' /\ ~TokenInNow'
  BY DEF TokenInv
<1>2. \A j \in 1..Len(ops') : ops'[j].op # "open"
  BY <1>1 DEF TokenInOps, Prepares
<1>3. \A j \in 1..Len(now') : ~(now'[j].do = "reply" /\ now'[j].op.op = "open")
  BY <1>1 DEF TokenInNow, IsToken, Prepares
<1>4. QED
  BY <1>2, <1>3, FreshNone

(* A step of one subscription: the others, tokens and announcements        *)
LEMMA OneSubscription ==
    ASSUME Types, Types', TidyInv, now # <<>>, Head(now).do \notin Announcing,
           NEW s \in Subscriptions, NEW R, NEW items \in Seq(R), Then(items),
           \A j \in 1..Len(items) :
                 /\ ~IsToken(items[j]) /\ \A r \in Subscriptions \ {s} : ~IsWork(items[j], r)
                 /\ items[j].do \notin Informs /\ items[j].do \notin {"channelError", "fail"}
                 /\ items[j].do = "doSubscribePending" => channelStatus = "READY",
           \A j \in 1..Len(ops') : ~(j \in 1..Len(ops) /\ ops'[j] = ops[j]) =>
                 ops'[j].op \in {"declare", "bind", "unbind"} /\ ops'[j].x = s,
           \A r \in Subscriptions \ {s} : subscriptions'[r] = subscriptions[r],
           UNCHANGED <<posts, channelStatus, channel, usable, pending, preparation>>,
           \/ bound' = bound
           \/ /\ channelStatus = "READY"
              /\ \A r \in Subscriptions \ {s} : <<channel, r>> \in bound' <=> <<channel, r>> \in bound,
           WorkInv(s)' /\ BindingInv(s)'
    PROVE  TidyInv'
<1>1. /\ Len(items) \in Nat /\ Len(items) - 1 \in Int
      /\ Follows(Len(items) - 1, Len(items), 1)
      /\ \A j \in 1..Len(now') : j <= Len(items) => j \in 1..Len(items) /\ now'[j] = items[j]
  BY Spliced
<1>2. Lengths
  BY HasLengths
<1>3. \A j \in 1..Len(now) : now[j].do \notin Informs
  <2>1. now[1] = Head(now) /\ 1 \in 1..Len(now)
    BY First
  <2>2. QED
    BY <2>1 DEF TidyInv, CalmInv
<1>4. \A j \in 1..Len(ops') : Prepares(ops'[j]) \/ ops'[j].op = "open" =>
         j \in 1..Len(ops) /\ ops'[j] = ops[j]
  BY DEF Prepares
<1>5. \A j \in 1..Len(posts') : posts'[j].do \in Posted
  BY PostsAsBefore
<1>6. TokenInv'
  <2>1. TokenInv /\ \A j \in 1..Len(now') : j <= Len(items) => ~IsToken(now'[j])
    BY <1>1 DEF TidyInv
  <2>2. PostsKeep
    BY PostsAsBefore
  <2>3. QED
    BY <1>1, <1>2, <1>4, <2>1, <2>2, TokenKeep
<1>7. CalmInv'
  <2>1. \A j \in 1..Len(now') : j <= Len(items) =>
           /\ now'[j].do = "doSubscribePending" => channelStatus' = "READY"
           /\ now'[j].do # "channelError" /\ now'[j].do # "fail" /\ now'[j].do \notin Informs
    BY <1>1
  <2>2. QED
    BY <1>1, <1>2, <1>3, <1>5, <2>1, CalmFrame DEF TidyInv
<1>8. ASSUME NEW r \in Subscriptions, r # s
      PROVE  WorkInv(r)' /\ BindingInv(r)'
  <2>1. WorkInv(r) /\ BindingInv(r)
    BY DEF TidyInv
  <2>2. \A j \in 1..Len(now') : j <= Len(items) => ~IsWork(now'[j], r)
    BY <1>1, <1>8
  <2>3. \A j \in 1..Len(ops') : Works(ops'[j], r) => j \in 1..Len(ops) /\ ops'[j] = ops[j]
    BY <1>8 DEF Works
  <2>4. WorkInv(r)'
    BY <1>1, <1>2, <1>8, <2>1, <2>2, <2>3, WorkFrame
  <2>5. BindingInv(r)'
    BY <1>8, <2>1, BindingFrame
  <2>6. QED
    BY <2>4, <2>5
<1>9. ASSUME NEW r \in Subscriptions
      PROVE  FreshInv(r)'
  <2>1. CASE bound' = bound
    <3>1. FreshInv(r)
      BY DEF TidyInv
    <3>2. \A j \in 1..Len(now') : j <= Len(items) => ~(now'[j].do = "reply" /\ now'[j].op.op = "open")
      BY <1>1 DEF IsToken, Prepares
    <3>3. QED
      BY <1>1, <1>2, <1>4, <2>1, <3>1, <3>2, FreshFrame
  <2>2. CASE channelStatus = "READY"
    BY <1>6, <2>2, FreshReady
  <2>3. QED
    BY <2>1, <2>2
<1>10. QED
  BY <1>6, <1>7, <1>8, <1>9 DEF TidyInv

(* An answer for a subscription is executed                                *)
LEMMA AnswerIsWork ==
    ASSUME Types, TidyInv, Runs("reply"), Answer.op.op \in {"declare", "bind", "unbind"}
    PROVE  /\ now # <<>> /\ Head(now).do \notin Announcing /\ Len(now) \in Nat \ {0}
           /\ Answer.op.x \in Subscriptions
           /\ \A i \in 1..Len(ops) : ~Works(ops[i], Answer.op.x)
           /\ \A i \in 1..Len(now) : IsWork(now[i], Answer.op.x) => i = 1
           /\ channelStatus = "READY" /\ Answer.op.ch = channel
           /\ subscriptions[Answer.op.x] = StatusOf(Answer.op.op)
           /\ ~Success => channel \notin usable
           /\ BindingInv(Answer.op.x)
<1>1. now # <<>> /\ Head(now).do = "reply" /\ Head(now).do \notin Announcing
  BY DEF Runs, Announcing, Informs
<1>2. Len(now) \in Nat \ {0} /\ now[1] = Answer
  BY <1>1, First DEF Answer
<1>3. PICK s \in Subscriptions : s = Answer.op.x
  BY AnswerTypes DEF Types
<1>4. WorkInv(s) /\ BindingInv(s)
  BY DEF TidyInv
<1>5. Answers(now[1], s) /\ IsWork(now[1], s)
  BY <1>1, <1>2, <1>3 DEF Answers, Works, IsWork, Answer
<1>6. /\ \A i \in 1..Len(ops) : ~Works(ops[i], s)
      /\ \A i \in 1..Len(now) : IsWork(now[i], s) => i = 1
      /\ channelStatus = "READY" /\ now[1].op.ch = channel /\ subscriptions[s] = StatusOf(now[1].op.op)
      /\ now[1].why # "success" => channel \notin usable
  BY <1>1, <1>2, <1>4, <1>5, HeadIsWork
<1>7. QED
  BY <1>1, <1>2, <1>3, <1>4, <1>6 DEF Success

(* The rest of what is executed has no work for it                         *)
LEMMA RestHasNoWork ==
    ASSUME NEW s, NEW d, NEW n, Follows(d, n, 2), Len(now) \in Nat,
           \A i \in 1..Len(now) : IsWork(now[i], s) => i = 1
    PROVE  \A j \in 1..Len(now') : j > n => ~IsWork(now'[j], s)
<1>1. \A j \in 1..Len(now') : j > n =>
         j - d \in 1..Len(now) /\ j - d # 1 /\ now'[j] = now[j - d]
  <2>1. \A i \in 2..Len(now) : i \in 1..Len(now) /\ i # 1
    OBVIOUS
  <2>2. QED
    BY <2>1 DEF Follows
<1>2. QED
  BY <1>1


(* The work for a subscription is done                                     *)
LEMMA WorkDone ==
    ASSUME Types, Types', now # <<>>, NEW s \in Subscriptions,
           NEW R, NEW items \in Seq(R), Then(items),
           \A j \in 1..Len(items) : ~IsWork(items[j], s),
           \A i \in 1..Len(now) : IsWork(now[i], s) => i = 1,
           \A i \in 1..Len(ops') : ~Works(ops'[i], s),
           channelStatus' = "READY" \/ subscriptions'[s] \in {"none", "PENDING"}
    PROVE  WorkInv(s)'
<1>1. /\ Len(items) \in Nat /\ Len(now) \in Nat
      /\ Follows(Len(items) - 1, Len(items), 2)
      /\ \A j \in 1..Len(now') : j <= Len(items) => j \in 1..Len(items) /\ now'[j] = items[j]
  BY Spliced
<1>2. \A j \in 1..Len(now') : j > Len(items) => ~IsWork(now'[j], s)
  BY <1>1, RestHasNoWork
<1>3. \A j \in 1..Len(now') : j <= Len(items) \/ j > Len(items)
  BY <1>1, HasLengths DEF Lengths
<1>4. \A j \in 1..Len(now') : ~IsWork(now'[j], s)
  BY <1>1, <1>2, <1>3
<1>5. QED
  BY <1>4, WorkNone

(* The first function called is the work for a subscription                *)
LEMMA WorkGoesOn ==
    ASSUME Types, Types', now # <<>>, NEW s \in Subscriptions,
           NEW R, NEW items \in Seq(R), Then(items), items # <<>>,
           \A j \in 1..Len(items) : IsWork(items[j], s) => j = 1,
           Moves(items[1], s) => subscriptions'[s] \in {"CHECK_EXCHANGE", "BIND_QUEUE"},
           Answers(items[1], s) =>
               /\ items[1].op.ch = channel' /\ subscriptions'[s] = StatusOf(items[1].op.op)
               /\ items[1].why # "success" => channel' \notin usable',
           \A i \in 1..Len(now) : IsWork(now[i], s) => i = 1,
           \A i \in 1..Len(ops') : ~Works(ops'[i], s),
           channelStatus' = "READY"
    PROVE  WorkInv(s)'
<1>1. /\ Len(items) \in Nat /\ Len(now) \in Nat
      /\ Follows(Len(items) - 1, Len(items), 2)
      /\ \A j \in 1..Len(now') : j <= Len(items) => j \in 1..Len(items) /\ now'[j] = items[j]
  BY Spliced
<1>2. \A j \in 1..Len(now') : j > Len(items) => ~IsWork(now'[j], s)
  BY <1>1, RestHasNoWork
<1>3. \A j \in 1..Len(now') : j <= Len(items) \/ j > Len(items)
  BY <1>1, HasLengths DEF Lengths
<1>4. \A j \in 1..Len(now') : IsWork(now'[j], s) => j = 1 /\ now'[j] = items[1]
  BY <1>1, <1>2, <1>3
<1>5. \A j \in 1..Len(now') : Answers(now'[j], s) => j = 1 /\ now'[j] = items[1]
  BY <1>4 DEF IsWork
<1>6. \A j \in 1..Len(now') : Moves(now'[j], s) => j = 1 /\ now'[j] = items[1]
  BY <1>4 DEF IsWork
<1>7. \A j \in 1..Len(now') : Answers(now'[j], s) =>
         /\ channelStatus' = "READY" /\ now'[j].op.ch = channel'
         /\ subscriptions'[s] = StatusOf(now'[j].op.op)
         /\ now'[j].why # "success" => channel' \notin usable'
  BY <1>5
<1>8. \A j \in 1..Len(now') : Moves(now'[j], s) =>
         channelStatus' = "READY" /\ subscriptions'[s] \in {"CHECK_EXCHANGE", "BIND_QUEUE"}
  BY <1>6
<1>9. \A i, j \in 1..Len(now') : IsWork(now'[i], s) /\ IsWork(now'[j], s) => i = j
  BY <1>4
<1>10. QED
  BY <1>7, <1>8, <1>9 DEF WorkInv, IsWork, Moves, Answers, Works, StatusOf

(* An operation for a subscription is begun                                *)
LEMMA WorkOperated ==
    ASSUME Types, Types', TidyInv, now # <<>>, Head(now).do \notin Announcing,
           NEW s \in Subscriptions, NEW o, Operation(o, <<>>),
           o.op \in {"declare", "bind", "unbind"}, o.x = s, o.ch = channel,
           subscriptions'[s] = StatusOf(o.op), channelStatus = "READY",
           \A i \in 1..Len(now) : IsWork(now[i], s) => i = 1,
           \A i \in 1..Len(ops) : ~Works(ops[i], s),
           \A r \in Subscriptions \ {s} : subscriptions'[r] = subscriptions[r],
           UNCHANGED <<posts, channelStatus, channel, usable, bound, pending, preparation>>,
           BindingInv(s)'
    PROVE  TidyInv'
<1>1. CASE /\ channel \in usable /\ Then(<<>>)
           /\ Len(ops) \in Nat /\ Len(ops') = Len(ops) + 1 /\ ops'[Len(ops) + 1] = o
           /\ \A j \in 1..Len(ops) : ops'[j] = ops[j]
  <2>1. \A j \in 1..Len(ops') : j \in 1..Len(ops) \/ j = Len(ops) + 1
    BY <1>1
  <2>2. <<>> \in Seq({}) /\ 1..Len(<<>>) = {} /\ Len(<<>>) = 0
    OBVIOUS
  <2>3. \A j \in 1..Len(now') : ~IsWork(now'[j], s)
    <3>1. Follows(Len(<<>>) - 1, Len(<<>>), 2) /\ Len(now) \in Nat
      BY <1>1, <2>2, Spliced
    <3>2. \A j \in 1..Len(now') : j > 0 => ~IsWork(now'[j], s)
      BY <2>2, <3>1, RestHasNoWork
    <3>3. QED
      BY <3>2
  <2>4. WorkInv(s)'
    <3>1. \A j \in 1..Len(now') : ~Answers(now'[j], s) /\ ~Moves(now'[j], s)
      BY <2>3 DEF IsWork
    <3>2. \A j \in 1..Len(ops') : Works(ops'[j], s) =>
             /\ j = Len(ops) + 1 /\ ops'[j].ch = channel'
             /\ subscriptions'[s] = StatusOf(ops'[j].op)
      BY <1>1, <2>1
    <3>3. QED
      BY <2>3, <3>1, <3>2, WorkPlaced, SMTT(30)
  <2>5. QED
    BY <1>1, <2>1, <2>2, <2>4, OneSubscription
<1>2. CASE channel \notin usable /\ ops' = ops /\ Then(<<Reply(o, "not sent")>>)
  <2>1. PICK x : x = Reply(o, "not sent")
    OBVIOUS
  <2>2. <<x>> \in Seq({x}) /\ <<x>> # <<>> /\ Len(<<x>>) = 1 /\ <<x>>[1] = x
        /\ \A j \in 1..Len(<<x>>) : j = 1
    OBVIOUS
  <2>3. /\ x.do = "reply" /\ x.op = o /\ x.why = "not sent"
    BY <2>1 DEF Reply
  <2>4. WorkInv(s)'
    <3>1. ~Moves(x, s)
      BY <2>3 DEF Moves
    <3>2. \A i \in 1..Len(ops') : ~Works(ops'[i], s)
      BY <1>2
    <3>3. /\ x.op.ch = channel' /\ subscriptions'[s] = StatusOf(x.op.op) /\ channel' \notin usable'
          /\ channelStatus' = "READY"
      BY <1>2, <2>3
    <3>4. QED
      BY <1>2, <2>1, <2>2, <3>1, <3>2, <3>3, WorkGoesOn
  <2>5. /\ ~IsToken(x) /\ \A r \in Subscriptions \ {s} : ~IsWork(x, r)
        /\ x.do \notin Informs /\ x.do \notin {"channelError", "fail", "doSubscribePending"}
    BY <2>3 DEF IsToken, Prepares, IsWork, Moves, Answers, Works, Informs
  <2>6. \A j \in 1..Len(<<x>>) :
           /\ ~IsToken(<<x>>[j]) /\ \A r \in Subscriptions \ {s} : ~IsWork(<<x>>[j], r)
           /\ <<x>>[j].do \notin Informs /\ <<x>>[j].do \notin {"channelError", "fail"}
           /\ <<x>>[j].do = "doSubscribePending" => channelStatus = "READY"
    BY <2>2, <2>5
  <2>7. \A j \in 1..Len(ops') : ~(j \in 1..Len(ops) /\ ops'[j] = ops[j]) =>
           ops'[j].op \in {"declare", "bind", "unbind"} /\ ops'[j].x = s
    BY <1>2
  <2>8. Then(<<x>>) /\ <<x>> \in Seq({x})
    BY <1>2, <2>1, <2>2
  <2>9. PICK items : items = <<x>>
    OBVIOUS
  <2>10. QED
    BY <2>4, <2>6, <2>7, <2>8, <2>9, OneSubscription
<1>3. QED
  BY <1>1, <1>2, Operated

(* moveSubscriptionState()                                                 *)
LEMMA TidyMove ==
    ASSUME Types, Types', TidyInv, moveSubscriptionState
    PROVE  TidyInv'
<1>1. now # <<>> /\ Head(now).do = "moveSubscriptionState" /\ Head(now).do \notin Announcing
  BY DEF moveSubscriptionState, Runs, Announcing, Informs
<1>2. UNCHANGED <<posts, channelStatus, channel, usable, bound, pending, preparation>>
  BY DEF moveSubscriptionState, connection
<1>3. PICK s \in Subscriptions : s = Answer.s
  <2>1. PICK T : TypeOK /\ Typed(T)
    BY DEF Types
  <2>2. Answer \in Items(T, created) /\ created \in Nat
    BY <1>1, <2>1, Running DEF Answer
  <2>3. QED
    BY <1>1, <2>2, ItemFacts DEF Answer
<1>4. Len(now) \in Nat \ {0} /\ now[1] = Answer
  BY <1>1, First DEF Answer
<1>5. WorkInv(s) /\ BindingInv(s)
  BY DEF TidyInv
<1>6. Moves(now[1], s) /\ IsWork(now[1], s)
  BY <1>1, <1>3, <1>4 DEF Moves, IsWork, Answer
<1>7. /\ \A i \in 1..Len(ops) : ~Works(ops[i], s)
      /\ \A i \in 1..Len(now) : IsWork(now[i], s) => i = 1
      /\ channelStatus = "READY" /\ subscriptions[s] \in {"CHECK_EXCHANGE", "BIND_QUEUE"}
  BY <1>1, <1>4, <1>5, <1>6, HeadIsWork
<1>8. PICK op \in {"bind", "declare"} :
         subscriptions' = [subscriptions EXCEPT ![s] = StatusOf(op)] /\ Operation(Op(op, s), <<>>)
  BY <1>3 DEF moveSubscriptionState, StatusOf
<1>9. /\ subscriptions'[s] = StatusOf(op)
      /\ \A r \in Subscriptions \ {s} : subscriptions'[r] = subscriptions[r]
  <2>1. subscriptions \in [Subscriptions -> Unready \cup {"none", "READY", "UNBIND_QUEUE"}]
    BY DEF Types, TypeOK
  <2>2. QED
    BY <1>8, <2>1
<1>10. BindingInv(s)'
  <2>1. subscriptions'[s] # "READY"
    BY <1>9 DEF StatusOf
  <2>2. channel \in usable => <<channel, s>> \notin bound
    BY <1>5, <1>7 DEF BindingInv
  <2>3. QED
    BY <1>2, <2>1, <2>2 DEF BindingInv
<1>11. PICK o : o = Op(op, s)
  OBVIOUS
<1>12. o.op = op /\ o.x = s /\ o.ch = channel
  BY <1>11 DEF Op
<1>13. o.op \in {"declare", "bind", "unbind"} /\ Operation(o, <<>>)
  BY <1>8, <1>11, <1>12
<1>14. QED
  BY <1>1, <1>2, <1>7, <1>9, <1>10, <1>12, <1>13, WorkOperated


(* A step of one subscription that begins no operation                     *)
LEMMA SubscriptionStep ==
    ASSUME Types, Types', TidyInv, now # <<>>, Head(now).do \notin Announcing,
           NEW s \in Subscriptions, NEW R, NEW items \in Seq(R), Then(items),
           \A j \in 1..Len(items) :
                 /\ ~IsToken(items[j]) /\ \A r \in Subscriptions : ~IsWork(items[j], r)
                 /\ items[j].do \notin Informs /\ items[j].do \notin {"channelError", "fail"}
                 /\ items[j].do = "doSubscribePending" => channelStatus = "READY",
           \A i \in 1..Len(now) : IsWork(now[i], s) => i = 1,
           \A i \in 1..Len(ops) : ~Works(ops[i], s),
           channelStatus = "READY" \/ subscriptions'[s] \in {"none", "PENDING"},
           \A r \in Subscriptions \ {s} : subscriptions'[r] = subscriptions[r],
           UNCHANGED <<ops, posts, channelStatus, channel, usable, pending, preparation>>,
           \/ bound' = bound
           \/ /\ channelStatus = "READY"
              /\ \A r \in Subscriptions \ {s} : <<channel, r>> \in bound' <=> <<channel, r>> \in bound,
           BindingInv(s)'
    PROVE  TidyInv'
<1>1. WorkInv(s)'
  <2>1. \A j \in 1..Len(items) : ~IsWork(items[j], s)
    OBVIOUS
  <2>2. \A i \in 1..Len(ops') : ~Works(ops'[i], s)
    OBVIOUS
  <2>3. channelStatus' = "READY" \/ subscriptions'[s] \in {"none", "PENDING"}
    OBVIOUS
  <2>4. QED
    BY <2>1, <2>2, <2>3, WorkDone
<1>2. \A j \in 1..Len(items) :
         /\ ~IsToken(items[j]) /\ \A r \in Subscriptions \ {s} : ~IsWork(items[j], r)
         /\ items[j].do \notin Informs /\ items[j].do \notin {"channelError", "fail"}
         /\ items[j].do = "doSubscribePending" => channelStatus = "READY"
  OBVIOUS
<1>3. \A j \in 1..Len(ops') : ~(j \in 1..Len(ops) /\ ops'[j] = ops[j]) =>
         ops'[j].op \in {"declare", "bind", "unbind"} /\ ops'[j].x = s
  OBVIOUS
<1>4. QED
  BY <1>1, <1>2, <1>3, OneSubscription

(* What may be called by such a step                                       *)
LEMMA QuietItems ==
    ASSUME NEW T, NEW hs \in Seq(T), NEW b \in BOOLEAN
    PROVE  /\ <<>> \in Seq(Items(T, 0)) /\ Len(<<>>) = 0 /\ 1..Len(<<>>) = {}
           /\ Call(hs, b) \in Seq(Items(T, 0))
           /\ \A j \in 1..Len(Call(hs, b)) :
                 /\ ~IsToken(Call(hs, b)[j]) /\ \A r : ~IsWork(Call(hs, b)[j], r)
                 /\ Call(hs, b)[j].do \notin Informs
                 /\ Call(hs, b)[j].do \notin {"channelError", "fail", "doSubscribePending"}
<1>1. /\ Call(hs, b) \in Seq(Items(T, 0))
      /\ \A j \in 1..Len(Call(hs, b)) : Neutral(Call(hs, b)[j])
  BY CallNeutral
<1>2. QED
  BY <1>1, NeutralFacts

(* The exchange of a subscription is declared, or cannot be declared       *)
LEMMA TidyExchangeDeclared ==
    ASSUME Types, Types', TidyInv, exchangeDeclared
    PROVE  TidyInv'
<1>1. Runs("reply") /\ Answer.op.op = "declare"
  BY DEF exchangeDeclared, Answered
<1>2. UNCHANGED <<ops, posts, channelStatus, channel, usable, bound, pending, preparation>>
  BY DEF exchangeDeclared, connection, library, observed
<1>3. PICK s \in Subscriptions : s = Answer.op.x
  BY <1>1, AnswerIsWork
<1>4. /\ now # <<>> /\ Head(now).do \notin Announcing
      /\ \A i \in 1..Len(ops) : ~Works(ops[i], s)
      /\ \A i \in 1..Len(now) : IsWork(now[i], s) => i = 1
      /\ channelStatus = "READY" /\ subscriptions[s] = "DECLARE_EXCHANGE"
      /\ ~Success => channel \notin usable
      /\ BindingInv(s)
  BY <1>1, <1>3, AnswerIsWork DEF StatusOf
<1>5. subscriptions \in [Subscriptions -> Unready \cup {"none", "READY", "UNBIND_QUEUE"}]
  BY DEF Types, TypeOK
<1>6. CASE Success
  <2>1. subscriptions' = [subscriptions EXCEPT ![s] = "BIND_QUEUE"]
        /\ Then(<<Move(s), Do("publishPostponed")>>)
    BY <1>3, <1>4, <1>6 DEF exchangeDeclared
  <2>2. PICK x, y : x = Move(s) /\ y = Do("publishPostponed")
    OBVIOUS
  <2>3. PICK items : items = <<x, y>>
    OBVIOUS
  <2>4. /\ items \in Seq({x, y}) /\ items # <<>> /\ Len(items) = 2 /\ items[1] = x /\ items[2] = y
        /\ \A j \in 1..Len(items) : j = 1 \/ j = 2
    BY <2>3
  <2>5. x.do = "moveSubscriptionState" /\ x.s = s /\ y.do = "publishPostponed"
    BY <2>2 DEF Move, Do
  <2>6. /\ ~IsToken(x) /\ ~IsToken(y) /\ \A r : ~IsWork(y, r)
        /\ \A r \in Subscriptions \ {s} : ~IsWork(x, r)
        /\ ~Answers(x, s) /\ x.do \notin Informs /\ y.do \notin Informs
    BY <2>5 DEF IsToken, IsWork, Moves, Answers, Informs
  <2>7. /\ subscriptions'[s] = "BIND_QUEUE"
        /\ \A r \in Subscriptions \ {s} : subscriptions'[r] = subscriptions[r]
    BY <1>5, <2>1
  <2>8. WorkInv(s)'
    <3>1. /\ \A i \in 1..Len(ops') : ~Works(ops'[i], s)
          /\ channelStatus' = "READY" /\ subscriptions'[s] \in {"CHECK_EXCHANGE", "BIND_QUEUE"}
      BY <1>2, <1>4, <2>7
    <3>2. \A j \in 1..Len(items) : IsWork(items[j], s) => j = 1
      BY <2>4, <2>6
    <3>3. Then(items) /\ ~Answers(items[1], s)
      BY <2>1, <2>2, <2>3, <2>4, <2>6
    <3>4. QED
      BY <1>4, <2>4, <3>1, <3>2, <3>3, WorkGoesOn
  <2>9. BindingInv(s)'
    BY <1>2, <1>4, <2>7 DEF BindingInv
  <2>10. \A j \in 1..Len(items) :
            /\ ~IsToken(items[j]) /\ \A r \in Subscriptions \ {s} : ~IsWork(items[j], r)
            /\ items[j].do \notin Informs /\ items[j].do \notin {"channelError", "fail"}
            /\ items[j].do = "doSubscribePending" => channelStatus = "READY"
    BY <1>4, <2>4, <2>5, <2>6
  <2>11. \A j \in 1..Len(ops') : ~(j \in 1..Len(ops) /\ ops'[j] = ops[j]) =>
            ops'[j].op \in {"declare", "bind", "unbind"} /\ ops'[j].x = s
    BY <1>2
  <2>12. Then(items)
    BY <2>1, <2>2, <2>3
  <2>13. QED
    BY <1>2, <1>4, <2>4, <2>7, <2>8, <2>9, <2>10, <2>11, <2>12, OneSubscription
<1>7. CASE ~Success
  <2>1. Then(Call(handlers[s], FALSE)) /\ UNCHANGED subscriptions
    BY <1>3, <1>7 DEF exchangeDeclared, Report
  <2>2. PICK T : handlers[s] \in Seq(T)
    BY DEF Types, Typed
  <2>3. BindingInv(s)'
    BY <1>2, <1>4, <1>7 DEF BindingInv
  <2>4. PICK items : items = Call(handlers[s], FALSE)
    OBVIOUS
  <2>5. /\ items \in Seq(Items(T, 0))
        /\ \A j \in 1..Len(items) :
              /\ ~IsToken(items[j]) /\ \A r \in Subscriptions : ~IsWork(items[j], r)
              /\ items[j].do \notin Informs /\ items[j].do \notin {"channelError", "fail"}
              /\ items[j].do = "doSubscribePending" => channelStatus = "READY"
    BY <2>2, <2>4, QuietItems
  <2>6. Then(items)
    BY <2>1, <2>4
  <2>7. QED
    BY <1>2, <1>4, <2>1, <2>3, <2>5, <2>6, SubscriptionStep
<1>8. QED
  BY <1>6, <1>7


(* The queue is bound for a subscription, or cannot be bound               *)
LEMMA TidyQueueBound ==
    ASSUME Types, Types', TidyInv, queueBound
    PROVE  TidyInv'
<1>1. Runs("reply") /\ Answer.op.op = "bind"
  BY DEF queueBound, Answered
<1>2. UNCHANGED <<ops, posts, channelStatus, channel, usable, pending, preparation>>
  BY DEF queueBound, connection, library
<1>3. PICK s \in Subscriptions : s = Answer.op.x
  BY <1>1, AnswerIsWork
<1>4. /\ now # <<>> /\ Head(now).do \notin Announcing
      /\ \A i \in 1..Len(ops) : ~Works(ops[i], s)
      /\ \A i \in 1..Len(now) : IsWork(now[i], s) => i = 1
      /\ channelStatus = "READY" /\ subscriptions[s] = "BIND_QUEUE" /\ Answer.op.ch = channel
      /\ ~Success => channel \notin usable
      /\ BindingInv(s)
  BY <1>1, <1>3, AnswerIsWork DEF StatusOf
<1>5. subscriptions \in [Subscriptions -> Unready \cup {"none", "READY", "UNBIND_QUEUE"}]
  BY DEF Types, TypeOK
<1>6. PICK T : handlers[s] \in Seq(T)
  BY DEF Types, Typed
<1>7. /\ \A r \in Subscriptions \ {s} : <<channel, r>> \in bound' <=> <<channel, r>> \in bound
      /\ Success => <<channel, s>> \in bound'
  BY <1>3, <1>4 DEF queueBound
<1>8. /\ \A r \in Subscriptions \ {s} : subscriptions'[r] = subscriptions[r]
      /\ Success => subscriptions'[s] = "READY"
  <2>1. CASE Success
    <3>1. subscriptions' = [subscriptions EXCEPT ![s] = "READY"]
      BY <1>3, <1>4, <2>1 DEF queueBound, Success
    <3>2. QED
      BY <1>5, <2>1, <3>1
  <2>2. CASE ~Success
    <3>1. subscriptions' = subscriptions
      BY <1>3, <1>4, <2>2 DEF queueBound
    <3>2. QED
      BY <2>2, <3>1
  <2>3. QED
    BY <2>1, <2>2
<1>9. BindingInv(s)'
  BY <1>2, <1>4, <1>7, <1>8 DEF BindingInv
<1>10. PICK items : Then(items) /\ (items = <<>> \/ \E b \in BOOLEAN : items = Call(handlers[s], b))
  BY <1>3 DEF queueBound, Report
<1>11. /\ items \in Seq(Items(T, 0))
       /\ \A j \in 1..Len(items) :
             /\ ~IsToken(items[j]) /\ \A r \in Subscriptions : ~IsWork(items[j], r)
             /\ items[j].do \notin Informs /\ items[j].do \notin {"channelError", "fail"}
             /\ items[j].do = "doSubscribePending" => channelStatus = "READY"
  BY <1>6, <1>10, QuietItems
<1>12. QED
  BY <1>2, <1>4, <1>7, <1>8, <1>9, <1>10, <1>11, SubscriptionStep

(* The queue is unbound for a subscription, or cannot be unbound           *)
LEMMA TidyQueueUnbound ==
    ASSUME Types, Types', TidyInv, queueUnbound
    PROVE  TidyInv'
<1>1. Runs("reply") /\ Answer.op.op = "unbind"
  BY DEF queueUnbound, Answered
<1>2. UNCHANGED <<ops, posts, channelStatus, channel, usable, pending, preparation>>
  BY DEF queueUnbound, connection, library
<1>3. PICK s \in Subscriptions : s = Answer.op.x
  BY <1>1, AnswerIsWork
<1>4. /\ now # <<>> /\ Head(now).do \notin Announcing
      /\ \A i \in 1..Len(ops) : ~Works(ops[i], s)
      /\ \A i \in 1..Len(now) : IsWork(now[i], s) => i = 1
      /\ channelStatus = "READY" /\ subscriptions[s] = "UNBIND_QUEUE" /\ Answer.op.ch = channel
      /\ ~Success => channel \notin usable
      /\ BindingInv(s)
  BY <1>1, <1>3, AnswerIsWork DEF StatusOf
<1>5. subscriptions \in [Subscriptions -> Unready \cup {"none", "READY", "UNBIND_QUEUE"}]
  BY DEF Types, TypeOK
<1>6. PICK T : handlers[s] \in Seq(T)
  BY DEF Types, Typed
<1>7. /\ \A r \in Subscriptions \ {s} : <<channel, r>> \in bound' <=> <<channel, r>> \in bound
      /\ Success => <<channel, s>> \notin bound'
  BY <1>3, <1>4 DEF queueUnbound
<1>8. /\ \A r \in Subscriptions \ {s} : subscriptions'[r] = subscriptions[r]
      /\ Success => subscriptions'[s] = "none"
  <2>1. subscriptions' = [subscriptions EXCEPT ![s] =
                              IF Answer.why \in {"success", "connection lost"} THEN "none" ELSE "READY"]
    BY <1>3, <1>4 DEF queueUnbound
  <2>2. QED
    BY <1>5, <2>1 DEF Success
<1>9. BindingInv(s)'
  BY <1>2, <1>4, <1>7, <1>8 DEF BindingInv
<1>10. PICK b \in BOOLEAN : b = Success
  BY DEF Success
<1>11. PICK items : Then(items) /\ items = Call(handlers[s], b)
  BY <1>3, <1>4, <1>10 DEF queueUnbound, Report
<1>12. /\ items \in Seq(Items(T, 0))
       /\ \A j \in 1..Len(items) :
             /\ ~IsToken(items[j]) /\ \A r \in Subscriptions : ~IsWork(items[j], r)
             /\ items[j].do \notin Informs /\ items[j].do \notin {"channelError", "fail"}
             /\ items[j].do = "doSubscribePending" => channelStatus = "READY"
  BY <1>6, <1>11, QuietItems, ZenonT(60)
<1>13. QED
  BY <1>2, <1>4, <1>7, <1>8, <1>9, <1>11, <1>12, SubscriptionStep

(* asyncUnsubscribe()                                                      *)
LEMMA TidyUnsubscribe ==
    ASSUME Types, Types', TidyInv, asyncUnsubscribe
    PROVE  TidyInv'
<1>1. now # <<>> /\ Head(now).do = "asyncUnsubscribe" /\ Head(now).do \notin Announcing
  BY DEF asyncUnsubscribe, Runs, Announcing, Informs
<1>2. UNCHANGED <<posts, channelStatus, channel, usable, bound, pending, preparation>>
  BY DEF asyncUnsubscribe, connection
<1>3. PICK T : TypeOK /\ Typed(T)
  BY DEF Types
<1>4. Answer.s \in Subscriptions /\ Answer.hs \in Seq(T)
  <2>1. Answer \in Items(T, created) /\ created \in Nat /\ Answer.do \in Repeated
    BY <1>1, <1>3, Running DEF Answer, Repeated
  <2>2. QED
    BY <2>1, ItemFacts
<1>5. PICK s \in Subscriptions, hs \in Seq(T) : s = Answer.s /\ hs = Answer.hs
  BY <1>4
<1>6. CASE subscriptions[s] = "none" /\ Then(Call(hs, TRUE)) /\ UNCHANGED <<ops, subscriptions>>
  BY <1>1, <1>2, <1>6, TidyCalling
<1>7. CASE subscriptions[s] \in Unready \cup {"UNBIND_QUEUE"} /\ Then(<<>>) /\ UNCHANGED <<ops, subscriptions>>
  BY <1>1, <1>2, <1>7, TidyPublishing
<1>8. CASE /\ subscriptions[s] = "READY"
           /\ subscriptions' = [subscriptions EXCEPT ![s] = "UNBIND_QUEUE"]
           /\ Operation(Op("unbind", s), <<>>)
  <2>1. WorkInv(s) /\ BindingInv(s)
    BY DEF TidyInv
  <2>2. channelStatus = "READY"
    BY <1>8, <2>1 DEF WorkInv
  <2>3. /\ \A i \in 1..Len(ops) : ~Works(ops[i], s)
        /\ \A i \in 1..Len(now) : IsWork(now[i], s) => i = 1
    BY <1>8, <2>1, NoWork
  <2>4. /\ subscriptions'[s] = "UNBIND_QUEUE"
        /\ \A r \in Subscriptions \ {s} : subscriptions'[r] = subscriptions[r]
    <3>1. subscriptions \in [Subscriptions -> Unready \cup {"none", "READY", "UNBIND_QUEUE"}]
      BY <1>3 DEF TypeOK
    <3>2. QED
      BY <1>8, <3>1
  <2>5. BindingInv(s)'
    BY <1>2, <2>1, <2>4 DEF BindingInv
  <2>6. PICK o : o = Op("unbind", s)
    OBVIOUS
  <2>7. o.op = "unbind" /\ o.x = s /\ o.ch = channel /\ Operation(o, <<>>)
    BY <1>8, <2>6 DEF Op
  <2>8. subscriptions'[s] = StatusOf(o.op)
    BY <2>4, <2>7 DEF StatusOf
  <2>9. o.op \in {"declare", "bind", "unbind"}
    BY <2>7
  <2>10. QED
    BY <1>1, <1>2, <2>2, <2>3, <2>4, <2>5, <2>7, <2>8, <2>9, WorkOperated
<1>9. QED
  BY <1>5, <1>6, <1>7, <1>8 DEF asyncUnsubscribe


(* No subscription has work under way unless the channel is READY          *)
LEMMA Unprepared ==
    ASSUME TidyInv, channelStatus # "READY"
    PROVE  \A s \in Subscriptions :
              /\ subscriptions[s] \in {"none", "PENDING"}
              /\ \A i \in 1..Len(ops) : ~Works(ops[i], s)
              /\ \A i \in 1..Len(now) : ~IsWork(now[i], s)
<1>1. SUFFICES ASSUME NEW s \in Subscriptions
               PROVE  /\ subscriptions[s] \in {"none", "PENDING"}
                      /\ \A i \in 1..Len(ops) : ~Works(ops[i], s)
                      /\ \A i \in 1..Len(now) : ~IsWork(now[i], s)
  OBVIOUS
<1>2. WorkInv(s)
  BY DEF TidyInv
<1>3. subscriptions[s] \in {"none", "PENDING"}
  BY <1>2 DEF WorkInv
<1>4. QED
  BY <1>2, <1>3, NoWork

(* No binding and no work for subscriptions while a channel is prepared    *)
LEMMA PreparingBinding ==
    ASSUME TidyInv, channelStatus # "READY",
           channel' = channel \/ channel' \notin usable', usable' \subseteq usable, UNCHANGED bound,
           \A s \in Subscriptions : subscriptions'[s] \in {"none", "PENDING"}
    PROVE  \A s \in Subscriptions : BindingInv(s)'
<1>1. SUFFICES ASSUME NEW s \in Subscriptions, channel' \in usable'
               PROVE  <<channel', s>> \notin bound'
  BY DEF BindingInv
<1>2. BindingInv(s) /\ subscriptions[s] \in {"none", "PENDING"}
  BY Unprepared DEF TidyInv
<1>3. QED
  BY <1>1, <1>2 DEF BindingInv

(* asyncPrepareChannel()                                                   *)
LEMMA TidyPrepare ==
    ASSUME Types, Types', TidyInv, now # <<>>, Head(now).do \notin Announcing,
           channelStatus # "READY",
           \A i \in 1..Len(ops) : ~Prepares(ops[i]),
           \A i \in 1..Len(posts) : ~IsToken(posts[i]),
           \A i \in 1..Len(now) : IsToken(now[i]) => i = 1, pending = 0,
           Then(<<Do("createChannel")>>), channelStatus' = "CREATE", preparation' # "none",
           channel' = channel \/ channel' \notin usable',
           \A s \in Subscriptions : subscriptions'[s] \in {"none", "PENDING"},
           UNCHANGED <<ops, posts, usable, bound, pending>>
    PROVE  TidyInv'
<1>1. PICK x : x = Do("createChannel")
  OBVIOUS
<1>2. x.do = "createChannel" /\ <<x>> \in Seq({x}) /\ Len(<<x>>) = 1 /\ <<x>>[1] = x /\ Then(<<x>>)
  BY <1>1 DEF Do
<1>3. /\ Len(now) \in Nat \ {0} /\ 0 \in Int /\ 1 \in Nat
      /\ Follows(0, 1, 2) /\ Follows(0, 1, 1)
      /\ \A j \in 1..Len(now') : j <= 1 => j = 1 /\ now'[j] = x
  <2>1. /\ Len(now) \in Nat \ {0}
        /\ Follows(Len(<<x>>) - 1, Len(<<x>>), 2) /\ Follows(Len(<<x>>) - 1, Len(<<x>>), 1)
        /\ \A j \in 1..Len(now') : j <= Len(<<x>>) => j \in 1..Len(<<x>>) /\ now'[j] = <<x>>[j]
    BY <1>2, Spliced
  <2>2. Len(<<x>>) - 1 = 0
    BY <1>2
  <2>3. QED
    BY <1>2, <2>1, <2>2
<1>4. Lengths
  BY HasLengths
<1>5. \A j \in 1..Len(now') : j = 1 \/ (j - 0 \in 1..Len(now) /\ j - 0 # 1 /\ now'[j] = now[j - 0])
  <2>1. \A j \in 1..Len(now') : j <= 1 \/ j > 1
    BY <1>4 DEF Lengths
  <2>2. \A i \in 2..Len(now) : i \in 1..Len(now) /\ i # 1
    BY <1>3
  <2>3. QED
    BY <1>3, <2>1, <2>2 DEF Follows
<1>6. TokenInv'
  <2>1. \A j \in 1..Len(now') : IsToken(now'[j]) => j = 1
    BY <1>5
  <2>2. channelStatus' \notin {"REQUEST", "READY"}
    OBVIOUS
  <2>3. /\ \A i \in 1..Len(ops') : ~Prepares(ops'[i])
        /\ \A i \in 1..Len(posts') : ~IsToken(posts'[i])
        /\ pending' = 0
    OBVIOUS
  <2>4. QED
    BY <2>1, <2>2, <2>3 DEF TokenInv, TokenInOps, TokenInNow, TokenInPosts, IsToken, Prepares
<1>7. CalmInv'
  <2>1. \A j \in 1..Len(now') : j <= 1 => now'[j].do = "createChannel"
    BY <1>2, <1>3
  <2>2. \A j \in 1..Len(now) : now[j].do \notin Informs /\ now[j].do # "doSubscribePending"
    <3>1. now[1] = Head(now) /\ 1 \in 1..Len(now)
      BY First
    <3>2. QED
      BY <3>1 DEF TidyInv, CalmInv
  <2>3. "createChannel" \notin Informs
    BY DEF Informs
  <2>4. \A j \in 1..Len(posts') : posts'[j].do \in Posted
    BY PostsAsBefore
  <2>5. QED
    BY <1>3, <1>4, <2>1, <2>2, <2>3, <2>4, CalmFrame DEF TidyInv
<1>8. \A s \in Subscriptions : BindingInv(s)'
  BY PreparingBinding
<1>9. ASSUME NEW s \in Subscriptions
      PROVE  WorkInv(s)' /\ FreshInv(s)'
  <2>1. ~IsWork(x, s) /\ ~(x.do = "reply" /\ x.op.op = "open")
    BY <1>2 DEF IsWork, Moves, Answers
  <2>2. /\ \A i \in 1..Len(ops) : ~Works(ops[i], s)
        /\ \A i \in 1..Len(now) : ~IsWork(now[i], s)
    BY Unprepared
  <2>3. \A j \in 1..Len(now') : ~IsWork(now'[j], s)
    BY <1>3, <1>5, <2>1, <2>2
  <2>4. WorkInv(s)'
    BY <2>2, <2>3, WorkNone
  <2>5. FreshInv(s)'
    <3>1. FreshInv(s)
      BY DEF TidyInv
    <3>2. \A j \in 1..Len(now') : j <= 1 => ~(now'[j].do = "reply" /\ now'[j].op.op = "open")
      BY <1>3, <2>1
    <3>3. QED
      BY <1>3, <1>4, <3>1, <3>2, FreshFrame
  <2>6. QED
    BY <2>4, <2>5
<1>10. QED
  BY <1>6, <1>7, <1>8, <1>9 DEF TidyInv

(* asyncSubscribe()                                                        *)
LEMMA TidySubscribe ==
    ASSUME Types, Types', TidyInv, asyncSubscribe
    PROVE  TidyInv'
<1>1. now # <<>> /\ Head(now).do = "asyncSubscribe" /\ Head(now).do \notin Announcing
  BY DEF asyncSubscribe, Runs, Announcing, Informs
<1>2. UNCHANGED <<ops, posts, channel, usable, bound, pending>>
  BY DEF asyncSubscribe, connection, library
<1>3. PICK T : TypeOK /\ Typed(T)
  BY DEF Types
<1>4. Answer.s \in Subscriptions /\ Answer.hs \in Seq(T)
  <2>1. Answer \in Items(T, created) /\ created \in Nat /\ Answer.do \in Repeated
    BY <1>1, <1>3, Running DEF Answer, Repeated
  <2>2. QED
    BY <2>1, ItemFacts
<1>5. PICK s \in Subscriptions, hs \in Seq(T) : s = Answer.s /\ hs = Answer.hs
  BY <1>4
<1>6. CASE Then(<<>>) /\ UNCHANGED <<channelStatus, preparation, subscriptions>>
  BY <1>1, <1>2, <1>6, TidyPublishing
<1>7. CASE Then(Call(hs, TRUE)) /\ UNCHANGED <<channelStatus, preparation, subscriptions>>
  BY <1>1, <1>2, <1>7, TidyCalling
<1>8. CASE /\ subscriptions[s] = "none"
           /\ subscriptions' = [subscriptions EXCEPT ![s] = "PENDING"]
           /\ IF channelStatus = "REQUEST" THEN asyncPrepareChannel("subscribe")
              ELSE /\ Then(IF channelStatus = "READY" THEN <<Do("doSubscribePending")>> ELSE <<>>)
                   /\ UNCHANGED <<channelStatus, preparation, registered>>
  <2>0. WorkInv(s) /\ BindingInv(s)
    BY DEF TidyInv
  <2>1. /\ subscriptions'[s] = "PENDING"
        /\ \A r \in Subscriptions \ {s} : subscriptions'[r] = subscriptions[r]
    <3>1. subscriptions \in [Subscriptions -> Unready \cup {"none", "READY", "UNBIND_QUEUE"}]
      BY <1>3 DEF TypeOK
    <3>2. QED
      BY <1>8, <3>1
  <2>2. CASE channelStatus = "REQUEST"
    <3>1. /\ Then(<<Do("createChannel")>>) /\ channelStatus' = "CREATE" /\ preparation' # "none"
      BY <1>8, <2>2 DEF asyncPrepareChannel
    <3>2. /\ \A i \in 1..Len(ops) : ~Prepares(ops[i])
          /\ \A i \in 1..Len(posts) : ~IsToken(posts[i])
          /\ \A i \in 1..Len(now) : ~IsToken(now[i])
          /\ pending = 0
      BY <1>3, <2>2, NoToken DEF TidyInv, TypeOK
    <3>3. \A r \in Subscriptions : subscriptions'[r] \in {"none", "PENDING"}
      BY <2>1, <2>2, Unprepared
    <3>4. channelStatus # "READY"
      BY <2>2
    <3>5. QED
      BY <1>1, <1>2, <3>1, <3>2, <3>3, <3>4, TidyPrepare
  <2>3. CASE channelStatus # "REQUEST"
    <3>1. PICK x : x = Do("doSubscribePending")
      OBVIOUS
    <3>2. PICK items : /\ Then(items) /\ UNCHANGED <<channelStatus, preparation>>
                       /\ (channelStatus = "READY" /\ items = <<x>>) \/ items = <<>>
      BY <1>8, <2>3, <3>1
    <3>3. x.do = "doSubscribePending" /\ ~IsToken(x) /\ \A r : ~IsWork(x, r)
      BY <3>1 DEF Do, IsToken, IsWork, Moves, Answers
    <3>4. items \in Seq({x})
      <4>1. <<x>> \in Seq({x}) /\ <<>> \in Seq({x})
        OBVIOUS
      <4>2. QED
        BY <3>2, <4>1
    <3>5. \A j \in 1..Len(items) : channelStatus = "READY" /\ items[j] = x
      BY <3>2
    <3>6. \A j \in 1..Len(items) :
             /\ ~IsToken(items[j]) /\ \A r \in Subscriptions : ~IsWork(items[j], r)
             /\ items[j].do \notin Informs /\ items[j].do \notin {"channelError", "fail"}
             /\ items[j].do = "doSubscribePending" => channelStatus = "READY"
      BY <3>3, <3>5 DEF Informs
    <3>7. /\ \A i \in 1..Len(ops) : ~Works(ops[i], s)
          /\ \A i \in 1..Len(now) : IsWork(now[i], s) => i = 1
      BY <1>8, <2>0, NoWork
    <3>8. BindingInv(s)'
      BY <1>2, <1>8, <2>0, <2>1 DEF BindingInv
    <3>9. QED
      BY <1>1, <1>2, <2>1, <3>2, <3>4, <3>6, <3>7, <3>8, SubscriptionStep
  <2>4. QED
    BY <2>2, <2>3
<1>9. QED
  BY <1>5, <1>6, <1>7, <1>8 DEF asyncSubscribe


(* asyncPublish()                                                          *)
LEMMA TidyPublish ==
    ASSUME Types, Types', TidyInv, asyncPublish
    PROVE  TidyInv'
<1>1. now # <<>> /\ Head(now).do \notin Announcing
  BY DEF asyncPublish, Runs, Announcing, Informs
<1>2. UNCHANGED <<posts, channel, usable, subscriptions, bound, pending>>
  BY DEF asyncPublish, connection
<1> DEFINE e == ExchangeOf[Answer.m]
<1>3. CASE channelStatus = "REQUEST" /\ asyncPrepareChannel("publish") /\ UNCHANGED ops
  <2>1. Then(<<Do("createChannel")>>) /\ channelStatus' = "CREATE" /\ preparation' # "none"
    BY <1>3 DEF asyncPrepareChannel
  <2>2. pending \in Nat
    BY DEF Types, TypeOK
  <2>3. /\ \A i \in 1..Len(ops) : ~Prepares(ops[i])
        /\ \A i \in 1..Len(posts) : ~IsToken(posts[i])
        /\ \A i \in 1..Len(now) : ~IsToken(now[i])
        /\ pending = 0
    BY <1>3, <2>2, NoToken DEF TidyInv
  <2>4. channelStatus # "READY"
    BY <1>3
  <2>5. \A s \in Subscriptions : subscriptions'[s] \in {"none", "PENDING"}
    BY <1>2, <2>4, Unprepared
  <2>6. QED
    BY <1>1, <1>2, <1>3, <2>1, <2>3, <2>4, <2>5, TidyPrepare
<1>4. CASE asyncPrepareExchangeThenPublish(e) /\ UNCHANGED <<channelStatus, preparation>>
  <2>1. PICK o : o.op \notin Tracked /\ Operation(o, <<>>)
    <3>1. Op("bind to publish", e).op \notin Tracked /\ Op("declare to publish", e).op \notin Tracked
      BY DEF Op, Tracked
    <3>2. Operation(Op("bind to publish", e), <<>>) \/ Operation(Op("declare to publish", e), <<>>)
      BY <1>4 DEF asyncPrepareExchangeThenPublish
    <3>3. QED
      BY <3>1, <3>2
  <2>2. QED
    BY <1>1, <1>2, <1>4, <2>1, TidyPrepareExchange
<1>5. CASE Then(<<>>) /\ UNCHANGED <<ops, channelStatus, preparation>>
  BY <1>1, <1>2, <1>5, TidyPublishing
<1>6. QED
  BY <1>3, <1>4, <1>5 DEF asyncPublish

(* doSubscribePending()                                                    *)
LEMMA TidySubscribePending ==
    ASSUME Types, Types', TidyInv, doSubscribePending
    PROVE  TidyInv'
<1>1. now # <<>> /\ Head(now).do = "doSubscribePending" /\ Head(now).do \notin Announcing
  BY DEF doSubscribePending, Runs, Announcing, Informs
<1>2. UNCHANGED <<ops, posts, channelStatus, channel, usable, bound, pending, preparation>>
  BY DEF doSubscribePending, connection, library, observed
<1>3. PICK todo \in SUBSET Subscriptions : todo = {s \in Subscriptions : subscriptions[s] = "PENDING"}
  OBVIOUS
<1>4. PICK order : order = SetToSeq(todo)
  OBVIOUS
<1>5. /\ order \in Seq(Subscriptions) /\ Len(order) \in Nat
      /\ \A i \in 1..Len(order) : order[i] \in todo
      /\ \A i, j \in 1..Len(order) : order[i] = order[j] => i = j
  BY <1>4, Listed
<1>6. PICK items : items = [i \in 1..Len(order) |-> Move(order[i])]
  OBVIOUS
<1>7. /\ Then(items)
      /\ subscriptions' = [s \in Subscriptions |->
                              IF s \in todo THEN "CHECK_EXCHANGE" ELSE subscriptions[s]]
  BY <1>3, <1>4, <1>6 DEF doSubscribePending
<1>8. PICK R : R = {Move(s) : s \in Subscriptions}
  OBVIOUS
<1>9. items \in Seq(R) /\ Len(items) = Len(order) /\ \A i \in 1..Len(items) : items[i] = Move(order[i])
  <2>1. \A i \in 1..Len(order) : Move(order[i]) \in R
    BY <1>5, <1>8
  <2>2. QED
    BY <1>5, <1>6, <2>1
<1>10. \A i \in 1..Len(items) : \A s :
          /\ items[i].do = "moveSubscriptionState"
          /\ Moves(items[i], s) => s = order[i] /\ s \in todo
          /\ ~Answers(items[i], s) /\ ~IsToken(items[i])
  <2>0. \A s : Move(s).do = "moveSubscriptionState" /\ Move(s).s = s
    BY DEF Move
  <2>1. \A i \in 1..Len(items) : items[i].do = "moveSubscriptionState" /\ items[i].s = order[i]
    BY <1>9, <2>0
  <2>2. QED
    BY <1>5, <1>9, <2>1 DEF Moves, Answers, IsToken
<1>11. /\ Len(now) \in Nat \ {0} /\ now[1] = Head(now)
       /\ Len(items) \in Nat /\ Len(items) - 1 \in Int
       /\ Follows(Len(items) - 1, Len(items), 2) /\ Follows(Len(items) - 1, Len(items), 1)
       /\ \A j \in 1..Len(now') : j <= Len(items) => j \in 1..Len(items) /\ now'[j] = items[j]
  BY <1>1, <1>7, <1>9, Spliced
<1>12. Lengths
  BY HasLengths
<1>13. channelStatus = "READY"
  <2>1. 1 \in 1..Len(now)
    BY <1>11
  <2>2. QED
    BY <1>1, <1>11, <2>1 DEF TidyInv, CalmInv
<1>14. OpsKeep /\ PostsKeep /\ \A j \in 1..Len(posts') : posts'[j].do \in Posted
  BY <1>2, OpsAsBefore, PostsAsBefore
<1>15. TokenInv'
  <2>1. TokenInv /\ \A j \in 1..Len(now') : j <= Len(items) => ~IsToken(now'[j])
    BY <1>10, <1>11 DEF TidyInv
  <2>2. QED
    BY <1>2, <1>11, <1>12, <1>14, <2>1, TokenFrame
<1>16. CalmInv'
  <2>1. \A j \in 1..Len(now) : now[j].do \notin Informs
    <3>1. 1 \in 1..Len(now)
      BY <1>11
    <3>2. QED
      BY <1>1, <1>11, <3>1 DEF TidyInv, CalmInv
  <2>2. \A j \in 1..Len(now') : j <= Len(items) =>
           /\ now'[j].do # "doSubscribePending" /\ now'[j].do \notin Informs
           /\ now'[j].do # "channelError" /\ now'[j].do # "fail"
    BY <1>10, <1>11 DEF Informs
  <2>3. QED
    BY <1>2, <1>11, <1>12, <1>14, <2>1, <2>2, CalmFrame DEF TidyInv
<1>17. ASSUME NEW s \in Subscriptions
       PROVE  WorkInv(s)' /\ BindingInv(s)' /\ FreshInv(s)'
  <2>1. WorkInv(s) /\ BindingInv(s)
    BY DEF TidyInv
  <2>2. FreshInv(s)'
    BY <1>2, <1>13, <1>15, FreshReady
  <2>3. CASE s \in todo
    <3>1. subscriptions[s] = "PENDING" /\ subscriptions'[s] = "CHECK_EXCHANGE"
      BY <1>3, <1>7, <2>3
    <3>2. /\ \A i \in 1..Len(ops) : ~Works(ops[i], s)
          /\ \A i \in 1..Len(now) : ~IsWork(now[i], s)
      BY <2>1, <3>1, NoWork
    <3>3. BindingInv(s)'
      BY <1>2, <2>1, <3>1 DEF BindingInv
    <3>4. \A j \in 1..Len(now') : IsWork(now'[j], s) =>
             j \in 1..Len(items) /\ order[j] = s /\ Moves(now'[j], s) /\ ~Answers(now'[j], s)
      <4>1. \A j \in 1..Len(now') : j <= Len(items) \/ j > Len(items)
        BY <1>11, <1>12 DEF Lengths
      <4>2. \A j \in 1..Len(now') : j > Len(items) => ~IsWork(now'[j], s)
        BY <1>11, <3>2, RestHasNoWork
      <4>3. QED
        BY <1>10, <1>11, <4>1, <4>2 DEF IsWork
    <3>5. PICK l : \A j \in 1..Len(items) : order[j] = s => j = l
      BY <1>5, <1>9
    <3>6. PICK k : k = 0
      OBVIOUS
    <3>7. \A i \in 1..Len(now') : Answers(now'[i], s) => FALSE
      BY <3>4 DEF IsWork
    <3>8. \A i \in 1..Len(now') : Moves(now'[i], s) => i = l
      BY <3>4, <3>5 DEF IsWork
    <3>9. WorkInv(s)'
      BY <1>2, <1>13, <3>1, <3>2, <3>7, <3>8, WorkPlaced
    <3>10. QED
      BY <2>2, <3>3, <3>9
  <2>4. CASE s \notin todo
    <3>1. subscriptions'[s] = subscriptions[s]
      BY <1>7, <2>4
    <3>2. \A j \in 1..Len(now') : j <= Len(items) => ~IsWork(now'[j], s)
      BY <1>10, <1>11, <2>4 DEF IsWork
    <3>3. WorkInv(s)'
      BY <1>2, <1>11, <1>12, <2>1, <3>1, <3>2, WorkFrame
    <3>4. BindingInv(s)'
      BY <1>2, <2>1, <3>1, BindingFrame
    <3>5. QED
      BY <2>2, <3>3, <3>4
  <2>5. QED
    BY <2>3, <2>4
<1>18. QED
  BY <1>15, <1>16, <1>17 DEF TidyInv

-----------------------------------------------------------------------------
(* What is under way: preparation of the channel                           *)

(* A step of the preparation: the next step of it may be an operation or   *)
(* the first function called, or there is none                             *)
LEMMA TidyPreparing ==
    ASSUME Types, Types', TidyInv, now # <<>>, IsToken(Head(now)),
           NEW R, NEW items \in Seq(R), Then(items),
           items = <<>> \/ Head(now).do = "reply",
           \A j \in 1..Len(items) :
                 /\ \A s \in Subscriptions : ~IsWork(items[j], s)
                 /\ ~(items[j].do = "reply" /\ items[j].op.op = "open")
                 /\ items[j].do \notin Informs /\ items[j].do \notin {"channelError", "fail"}
                 /\ items[j].do = "doSubscribePending" => channelStatus' = "READY"
                 /\ IsToken(items[j]) => j = 1,
           \A j \in 1..Len(ops') :
                 \/ j \in 1..Len(ops) /\ ops'[j] = ops[j]
                 \/ j = Len(ops) + 1 /\ ops'[j].op \in {"queue", "consume"} /\ items = <<>>,
           \/ channelStatus' \notin {"REQUEST", "READY"} /\ preparation' # "none"
           \/ ops' = ops /\ \A j \in 1..Len(items) : ~IsToken(items[j]),
           UNCHANGED <<posts, subscriptions, bound, pending>>, usable' \subseteq usable,
           \/ channel' = channel \/ channel' \notin usable'
           \/ \A s \in Subscriptions : <<channel', s>> \notin bound
    PROVE  TidyInv'
<1>1. /\ Len(now) \in Nat \ {0} /\ now[1] = Head(now) /\ 1 \in 1..Len(now)
      /\ Len(items) \in Nat /\ Len(items) - 1 \in Int
      /\ Follows(Len(items) - 1, Len(items), 2) /\ Follows(Len(items) - 1, Len(items), 1)
      /\ \A j \in 1..Len(now') : j <= Len(items) => j \in 1..Len(items) /\ now'[j] = items[j]
  BY Spliced, First
<1>2. Lengths
  BY HasLengths
<1>3. /\ \A i \in 1..Len(ops) : ~Prepares(ops[i])
      /\ \A i \in 1..Len(posts) : ~IsToken(posts[i])
      /\ \A i \in 1..Len(now) : IsToken(now[i]) => i = 1
      /\ pending = 0
      /\ channelStatus \notin {"REQUEST", "READY"} /\ preparation # "none"
  BY <1>1, HeadIsToken DEF TidyInv
<1>4. \A s \in Subscriptions :
         /\ subscriptions[s] \in {"none", "PENDING"}
         /\ \A i \in 1..Len(ops) : ~Works(ops[i], s)
         /\ \A i \in 1..Len(now) : ~IsWork(now[i], s)
  BY <1>3, Unprepared
<1>5. \A j \in 1..Len(now') : j <= Len(items) \/ j > Len(items)
  BY <1>1, <1>2 DEF Lengths
<1>6. \A j \in 1..Len(now') :
         \/ j \in 1..Len(items) /\ now'[j] = items[j]
         \/ \E i \in 1..Len(now) : i # 1 /\ now'[j] = now[i]
  <2>1. \A i \in 2..Len(now) : i \in 1..Len(now) /\ i # 1
    BY <1>1
  <2>2. \A j \in 1..Len(now') : j > Len(items) => \E i \in 1..Len(now) : i # 1 /\ now'[j] = now[i]
    BY <1>1, <2>1 DEF Follows
  <2>3. QED
    BY <1>1, <1>5, <2>2
<1>7. TokenInv'
  <2>1. \A j \in 1..Len(now') : IsToken(now'[j]) => j \in 1..Len(items) /\ IsToken(items[j]) /\ j = 1
    BY <1>3, <1>6
  <2>2. \A j \in 1..Len(ops') : Prepares(ops'[j]) => j = Len(ops) + 1 /\ items = <<>>
    BY <1>3
  <2>3. \A j \in 1..Len(posts') : ~IsToken(posts'[j])
    BY <1>3
  <2>4. items = <<>> => 1..Len(items) = {}
    BY <1>1
  <2>5. pending' = 0
    BY <1>3
  <2>6. \/ channelStatus' \notin {"REQUEST", "READY"} /\ preparation' # "none"
        \/ (\A j \in 1..Len(ops') : ~Prepares(ops'[j])) /\ (\A j \in 1..Len(now') : ~IsToken(now'[j]))
    BY <1>3, <2>1
  <2>7. \A i, j \in 1..Len(ops') : Prepares(ops'[i]) /\ Prepares(ops'[j]) => i = j
    BY <2>2
  <2>8. \A i \in 1..Len(ops'), j \in 1..Len(now') : ~(Prepares(ops'[i]) /\ IsToken(now'[j]))
    BY <2>1, <2>2, <2>4
  <2>9. \A i, j \in 1..Len(now') : IsToken(now'[i]) /\ IsToken(now'[j]) => i = j
    BY <2>1
  <2>10. QED
    BY <2>3, <2>5, <2>6, <2>7, <2>8, <2>9, TokenPlaced
<1>8. CalmInv'
  <2>1. \A j \in 1..Len(posts') : posts'[j].do \in Posted
    BY PostsAsBefore
  <2>2. \A j \in 1..Len(now') : j <= Len(items) =>
           /\ now'[j].do = "doSubscribePending" => channelStatus' = "READY"
           /\ now'[j].do # "channelError" /\ now'[j].do # "fail" /\ now'[j].do \notin Informs
    BY <1>1
  <2>3. CASE items = <<>>
    <3>1. Len(items) = 0
      BY <2>3
    <3>2. QED
      BY <1>1, <1>2, <1>3, <2>1, <2>2, <3>1, CalmFrame DEF TidyInv
  <2>4. CASE Head(now).do = "reply"
    <3>1. \A j \in 1..Len(now) : now[j].do \notin Informs
      BY <1>1, <2>4 DEF TidyInv, CalmInv, Announcing, Informs
    <3>2. QED
      BY <1>1, <1>2, <1>3, <2>1, <2>2, <3>1, CalmFrame DEF TidyInv
  <2>5. QED
    BY <2>3, <2>4
<1>9. ASSUME NEW s \in Subscriptions
      PROVE  WorkInv(s)' /\ BindingInv(s)' /\ FreshInv(s)'
  <2>1. BindingInv(s) /\ FreshInv(s)
    BY DEF TidyInv
  <2>2. WorkInv(s)'
    <3>1. \A i \in 1..Len(ops') : ~Works(ops'[i], s)
      BY <1>4 DEF Works
    <3>2. \A i \in 1..Len(now') : ~IsWork(now'[i], s)
      BY <1>4, <1>6
    <3>3. QED
      BY <1>4, <3>1, <3>2, WorkNone
  <2>3. BindingInv(s)'
    BY <1>4, <2>1 DEF BindingInv
  <2>4. FreshInv(s)'
    <3>1. \A j \in 1..Len(now') : j <= Len(items) => ~(now'[j].do = "reply" /\ now'[j].op.op = "open")
      BY <1>1
    <3>2. \A j \in 1..Len(ops') : ops'[j].op = "open" => j \in 1..Len(ops) /\ ops'[j] = ops[j]
      OBVIOUS
    <3>3. QED
      BY <1>1, <1>2, <2>1, <3>1, <3>2, FreshFrame
  <2>5. QED
    BY <2>2, <2>3, <2>4
<1>10. QED
  BY <1>7, <1>8, <1>9 DEF TidyInv

(* A channel is created                                                    *)
LEMMA TidyChannelCreated ==
    ASSUME Types, Types', TidyInv, channelCreated
    PROVE  TidyInv'
<1>1. now # <<>> /\ Head(now).do = "reply" /\ Head(now).op.op = "open"
  BY DEF channelCreated, Answered, Runs, Answer
<1>2. IsToken(Head(now))
  BY <1>1 DEF IsToken, Prepares
<1>3. /\ UNCHANGED <<posts, subscriptions, bound, pending, preparation>>
      /\ usable' \subseteq usable /\ Then(<<>>)
      /\ channelStatus' = "CREATE_QUEUE" /\ channel' = Head(now).op.ch
  BY DEF channelCreated, connection, observed, Answer
<1>4. Len(now) \in Nat \ {0} /\ now[1] = Head(now) /\ 1 \in 1..Len(now)
  BY <1>1, First
<1>5. preparation # "none"
  BY <1>2, <1>4, HeadIsToken, <1>1 DEF TidyInv
<1>6. PICK o : o = [op |-> "queue", ch |-> Answer.op.ch, x |-> 0]
  OBVIOUS
<1>7. ops' = Append(ops, o) /\ o.op = "queue"
  BY <1>6 DEF channelCreated
<1>8. \A j \in 1..Len(ops') :
         \/ j \in 1..Len(ops) /\ ops'[j] = ops[j]
         \/ j = Len(ops) + 1 /\ ops'[j].op \in {"queue", "consume"}
  <2>1. PICK T : Typed(T)
    BY DEF Types
  <2>2. ops \in Seq(Operations(created))
    BY <2>1 DEF Typed
  <2>3. /\ Len(ops) \in Nat /\ Len(ops') = Len(ops) + 1
        /\ \A i \in 1..Len(ops) : ops'[i] = ops[i]
        /\ ops'[Len(ops) + 1] = o
    BY <1>7, <2>2, AppendedAny
  <2>4. \A j \in 1..Len(ops') : j \in 1..Len(ops) \/ j = Len(ops) + 1
    BY <2>3
  <2>5. QED
    BY <1>7, <2>3, <2>4
<1>9. \A s \in Subscriptions : <<channel', s>> \notin bound
  BY <1>1, <1>3, <1>4 DEF TidyInv, FreshInv
<1>10. PICK items : items = <<>>
  OBVIOUS
<1>11. items \in Seq({}) /\ Then(items) /\ 1..Len(items) = {}
  BY <1>3, <1>10
<1>12. channelStatus' \notin {"REQUEST", "READY"} /\ preparation' # "none"
  BY <1>3, <1>5
<1>13. QED
  BY <1>1, <1>2, <1>3, <1>8, <1>9, <1>10, <1>11, <1>12, TidyPreparing

(* A channel cannot be created                                             *)
LEMMA TidyChannelFailed ==
    ASSUME Types, Types', TidyInv, channelFailed
    PROVE  TidyInv'
<1>1. now # <<>> /\ IsToken(Head(now))
  BY DEF channelFailed, Answered, Runs, Answer, IsToken, Prepares
<1>2. UNCHANGED <<ops, posts, subscriptions, bound, pending, channel, usable>> /\ Then(<<>>)
  BY DEF channelFailed, connection, library, callPreparation
<1>3. PICK items : items = <<>>
  OBVIOUS
<1>4. items \in Seq({}) /\ Then(items) /\ 1..Len(items) = {}
  BY <1>2, <1>3
<1>5. QED
  BY <1>1, <1>2, <1>3, <1>4, TidyPreparing

(* The queue cannot be declared, or there is no consumer                   *)
LEMMA TidyPreparationFails ==
    ASSUME Types, Types', TidyInv, preparationFails
    PROVE  TidyInv'
<1>1. now # <<>> /\ IsToken(Head(now)) /\ Head(now).do = "reply"
  BY DEF preparationFails, Answered, Runs, Answer, IsToken, Prepares
<1>2. UNCHANGED <<ops, posts, subscriptions, bound, pending, usable>>
  BY DEF preparationFails, connection, library
<1>3. channel' = channel \/ channel' \notin usable'
  <2>1. usable' \subseteq 1..created'
    BY DEF Types, TypeOK
  <2>2. created' \in Nat
    BY DEF Types, TypeOK
  <2>3. 0 \notin usable'
    BY <2>1, <2>2
  <2>4. QED
    BY <2>3 DEF preparationFails
<1>4. preparation # "none"
  <2>1. Len(now) \in Nat \ {0} /\ now[1] = Head(now)
    BY <1>1, First
  <2>2. QED
    BY <1>1, <2>1, HeadIsToken DEF TidyInv
<1>5. CASE Answer.why = "retry"
  <2>1. PICK x : x = Do("createChannel")
    OBVIOUS
  <2>2. x.do = "createChannel" /\ \A s : ~IsWork(x, s)
    BY <2>1 DEF Do, IsWork, Moves, Answers
  <2>3. Then(<<x>>) /\ channelStatus' = "CREATE" /\ preparation' = preparation
    BY <1>5, <2>1 DEF preparationFails, asyncPrepareChannel
  <2>4. PICK items : items = <<x>>
    OBVIOUS
  <2>5. items \in Seq({x}) /\ Then(items) /\ \A j \in 1..Len(items) : j = 1 /\ items[j] = x
    BY <2>3, <2>4
  <2>6. \A j \in 1..Len(items) :
           /\ \A s \in Subscriptions : ~IsWork(items[j], s)
           /\ ~(items[j].do = "reply" /\ items[j].op.op = "open")
           /\ items[j].do \notin Informs /\ items[j].do \notin {"channelError", "fail"}
           /\ items[j].do = "doSubscribePending" => channelStatus' = "READY"
           /\ IsToken(items[j]) => j = 1
    BY <2>2, <2>5 DEF Informs
  <2>7. channelStatus' \notin {"REQUEST", "READY"} /\ preparation' # "none"
    BY <1>4, <2>3
  <2>8. QED
    BY <1>1, <1>2, <1>3, <2>5, <2>6, <2>7, TidyPreparing
<1>6. CASE Answer.why # "retry"
  <2>1. Then(<<>>)
    BY <1>6 DEF preparationFails, callPreparation
  <2>2. PICK items : items = <<>>
    OBVIOUS
  <2>3. items \in Seq({}) /\ Then(items) /\ 1..Len(items) = {}
    BY <2>1, <2>2
  <2>4. QED
    BY <1>1, <1>2, <1>3, <2>2, <2>3, TidyPreparing
<1>7. QED
  BY <1>5, <1>6

(* The queue is declared                                                   *)
LEMMA TidyQueueDeclared ==
    ASSUME Types, Types', TidyInv, queueDeclared
    PROVE  TidyInv'
<1>1. now # <<>> /\ IsToken(Head(now)) /\ Head(now).do = "reply"
  BY DEF queueDeclared, Answered, Runs, Answer, IsToken, Prepares
<1>2. UNCHANGED <<posts, subscriptions, bound, pending, usable, channel, preparation>>
  BY DEF queueDeclared, connection
<1>3. PICK o : /\ o.op \in {"queue", "consume"} /\ Operation(o, <<>>)
               /\ channelStatus' = "CREATE_CONSUMER" \/ channelStatus' = channelStatus
  <2>1. Op("consume", 0).op = "consume" /\ Op("queue", 0).op = "queue"
    BY DEF Op
  <2>2. QED
    BY <2>1 DEF queueDeclared
<1>4. channelStatus' \notin {"REQUEST", "READY"} /\ preparation' # "none"
  <2>1. Len(now) \in Nat \ {0} /\ now[1] = Head(now)
    BY <1>1, First
  <2>2. channelStatus \notin {"REQUEST", "READY"} /\ preparation # "none"
    BY <1>1, <2>1, HeadIsToken DEF TidyInv
  <2>3. QED
    BY <1>2, <1>3, <2>2
<1>5. CASE /\ Then(<<>>)
           /\ Len(ops) \in Nat /\ Len(ops') = Len(ops) + 1 /\ ops'[Len(ops) + 1] = o
           /\ \A j \in 1..Len(ops) : ops'[j] = ops[j]
  <2>1. PICK items : items = <<>>
    OBVIOUS
  <2>2. items \in Seq({}) /\ Then(items) /\ 1..Len(items) = {}
    BY <1>5, <2>1
  <2>3. \A j \in 1..Len(ops') : j \in 1..Len(ops) \/ j = Len(ops) + 1
    BY <1>5
  <2>4. \A j \in 1..Len(ops') :
           \/ j \in 1..Len(ops) /\ ops'[j] = ops[j]
           \/ j = Len(ops) + 1 /\ ops'[j].op \in {"queue", "consume"} /\ items = <<>>
    BY <1>3, <1>5, <2>1, <2>3
  <2>5. QED
    BY <1>1, <1>2, <1>4, <2>1, <2>2, <2>4, TidyPreparing
<1>6. CASE ops' = ops /\ Then(<<Reply(o, "not sent")>>)
  <2>1. PICK x : x = Reply(o, "not sent")
    OBVIOUS
  <2>2. x.do = "reply" /\ x.op.op \in {"queue", "consume"} /\ \A s : ~IsWork(x, s)
    <3>1. x.do = "reply" /\ x.op = o
      BY <2>1 DEF Reply
    <3>2. QED
      BY <1>3, <3>1 DEF IsWork, Moves, Answers, Works
  <2>3. PICK items : items = <<x>>
    OBVIOUS
  <2>0. Then(<<x>>)
    BY <1>6, <2>1
  <2>4. items \in Seq({x}) /\ Then(items) /\ \A j \in 1..Len(items) : j = 1 /\ items[j] = x
    BY <2>0, <2>3
  <2>5. \A j \in 1..Len(items) :
           /\ \A s \in Subscriptions : ~IsWork(items[j], s)
           /\ ~(items[j].do = "reply" /\ items[j].op.op = "open")
           /\ items[j].do \notin Informs /\ items[j].do \notin {"channelError", "fail"}
           /\ items[j].do = "doSubscribePending" => channelStatus' = "READY"
           /\ IsToken(items[j]) => j = 1
    BY <2>2, <2>4 DEF Informs
  <2>6. QED
    BY <1>1, <1>2, <1>4, <1>6, <2>4, <2>5, TidyPreparing
<1>7. QED
  BY <1>1, <1>3, <1>5, <1>6, Operated

(* The channel is prepared                                                 *)
LEMMA TidyConsumerCreated ==
    ASSUME Types, Types', TidyInv, consumerCreated
    PROVE  TidyInv'
<1>1. now # <<>> /\ IsToken(Head(now)) /\ Head(now).do = "reply"
  BY DEF consumerCreated, Answered, Runs, Answer, IsToken, Prepares
<1>2. UNCHANGED <<ops, posts, subscriptions, bound, pending, usable, channel>> /\ channelStatus' = "READY"
  BY DEF consumerCreated, connection, library
<1>3. PICK x : Then(<<x>>) /\ x.do \in {"doSubscribePending", "publishPostponed"}
  <2>1. /\ Do("doSubscribePending").do = "doSubscribePending"
        /\ Do("publishPostponed").do = "publishPostponed"
    BY DEF Do
  <2>2. Then(<<Do("doSubscribePending")>>) \/ Then(<<Do("publishPostponed")>>)
    BY DEF consumerCreated, callPreparation
  <2>3. QED
    BY <2>1, <2>2
<1>4. PICK items : items = <<x>>
  OBVIOUS
<1>5. items \in Seq({x}) /\ Then(items) /\ \A j \in 1..Len(items) : j = 1 /\ items[j] = x
  BY <1>3, <1>4
<1>6. ~IsToken(x) /\ \A s : ~IsWork(x, s)
  BY <1>3 DEF IsToken, IsWork, Moves, Answers
<1>7. \A j \in 1..Len(items) :
         /\ \A s \in Subscriptions : ~IsWork(items[j], s)
         /\ ~(items[j].do = "reply" /\ items[j].op.op = "open")
         /\ items[j].do \notin Informs /\ items[j].do \notin {"channelError", "fail"}
         /\ items[j].do = "doSubscribePending" => channelStatus' = "READY"
         /\ IsToken(items[j]) => j = 1
  BY <1>2, <1>3, <1>5, <1>6 DEF Informs
<1>8. ops' = ops /\ \A j \in 1..Len(items) : ~IsToken(items[j])
  BY <1>2, <1>5, <1>6
<1>9. QED
  BY <1>1, <1>2, <1>5, <1>7, <1>8, TidyPreparing

-----------------------------------------------------------------------------
(* What is under way: reconnection                                         *)

(* Subscriptions are not concerned                                         *)
LEMMA SubscriptionsRest ==
    ASSUME TidyInv, Lengths, NEW d \in Int, NEW n \in Nat, Follows(d, n, 1),
           \A j \in 1..Len(now') : j <= n => now'[j].do \notin {"reply", "moveSubscriptionState"},
           UNCHANGED <<ops, channelStatus, channel, subscriptions, bound>>, usable' \subseteq usable
    PROVE  \A s \in Subscriptions : WorkInv(s)' /\ BindingInv(s)' /\ FreshInv(s)'
<1> SUFFICES ASSUME NEW s \in Subscriptions
             PROVE  WorkInv(s)' /\ BindingInv(s)' /\ FreshInv(s)'
  OBVIOUS
<1>1. WorkInv(s) /\ BindingInv(s) /\ FreshInv(s)
  BY DEF TidyInv
<1>2. \A j \in 1..Len(now') : j <= n => ~IsWork(now'[j], s)
  BY DEF IsWork, Moves, Answers
<1>3. WorkInv(s)'
  BY <1>1, <1>2, WorkFrame
<1>4. BindingInv(s)'
  BY <1>1, BindingFrame
<1>5. FreshInv(s)'
  BY <1>1, FreshFrame
<1>6. QED
  BY <1>3, <1>4, <1>5

(* Functions that are only about reconnection                              *)
LEMMA AnnouncingFacts ==
    ASSUME NEW x, x.do \in Announcing
    PROVE  /\ x.do \notin {"reply", "moveSubscriptionState", "doSubscribePending", "channelError", "fail"}
           /\ \A s : ~IsWork(x, s)
           /\ x.do \in Informs => ~IsToken(x)
BY DEF Announcing, Informs, IsToken, IsWork, Moves, Answers

(* Such a function is executed: all that follows are as well               *)
LEMMA HeadInforms ==
    ASSUME Types, TidyInv, now # <<>>, Head(now).do \in Informs
    PROVE  \A j \in 1..Len(now) : now[j].do \in Announcing
<1>1. now[1] = Head(now) /\ 1 \in 1..Len(now)
  BY First
<1>2. QED
  BY <1>1 DEF TidyInv, CalmInv

(* The end of the attempts to connect                                      *)
LEMMA TidyComplete ==
    ASSUME Types, Types', TidyInv, now = <<>>, NEW b \in BOOLEAN, callOnComplete(b),
           UNCHANGED <<ops, posts, channelStatus, channel, usable, subscriptions, bound, preparation>>
    PROVE  TidyInv'
<1>1. PICK x : x = IF b THEN Do("createChannel") ELSE ChannelResult(0)
  OBVIOUS
<1>2. x.do \in {"createChannel", "channelCreated"}
  <2>1. Do("createChannel").do = "createChannel" /\ ChannelResult(0).do = "channelCreated"
    BY DEF Do, ChannelResult
  <2>2. QED
    BY <1>1, <2>1
<1>3. PICK y : y = Inform(b)
  OBVIOUS
<1>4. y.do = "informReconnection"
  BY <1>3 DEF Inform
<1>5. now' = Repeat(onComplete, y) \o Repeat(pending, x) /\ pending' = 0
  BY <1>1, <1>3 DEF callOnComplete
<1>6. onComplete \in Nat /\ pending \in Nat /\ pending <= 1
  BY DEF Types, TypeOK, TidyInv, TokenInv
<1>7. /\ Len(now') = onComplete + pending
      /\ \A j \in 1..Len(now') : j <= onComplete => now'[j] = y
      /\ \A j \in 1..Len(now') : j > onComplete => now'[j] = x /\ pending = 1 /\ j = onComplete + 1
  <2>1. PICK p, q : p = Repeat(onComplete, y) /\ q = Repeat(pending, x)
    OBVIOUS
  <2>2. PICK S : S = {x, y}
    OBVIOUS
  <2>3. /\ p \in Seq(S) /\ q \in Seq(S) /\ Len(p) = onComplete /\ Len(q) = pending
        /\ \A j \in 1..onComplete : p[j] = y
        /\ \A j \in 1..pending : q[j] = x
    BY <1>6, <2>1, <2>2 DEF Repeat
  <2>4. now' = p \o q
    BY <1>5, <2>1
  <2>5. Len(now') = onComplete + pending
    BY <1>6, <2>3, <2>4
  <2>6. \A j \in 1..Len(now') : j <= onComplete => now'[j] = y
    BY <1>6, <2>3, <2>4, <2>5
  <2>7. \A j \in 1..Len(now') : j > onComplete => now'[j] = x /\ pending = 1 /\ j = onComplete + 1
    BY <1>6, <2>3, <2>4, <2>5
  <2>8. QED
    BY <2>5, <2>6, <2>7
<1>8. Lengths
  BY HasLengths
<1>9. \A j \in 1..Len(now') : j <= onComplete \/ j > onComplete
  BY <1>6, <1>7
<1>10. /\ ~IsToken(y) /\ x.do \in Announcing /\ y.do \in Announcing
  BY <1>2, <1>4 DEF IsToken, Announcing, Informs
<1>11. \A j \in 1..Len(now') :
          /\ now'[j].do \in Announcing
          /\ IsToken(now'[j]) => pending = 1 /\ j = onComplete + 1
  BY <1>7, <1>9, <1>10
<1>12. /\ Follows(0, Len(now'), 1) /\ Len(now') \in Nat /\ 0 \in Int
       /\ \A j \in 1..Len(now') : j <= Len(now')
  BY <1>8 DEF Follows, Lengths
<1>13. TokenInv'
  <2>1. /\ \A i, j \in 1..Len(ops') : Prepares(ops'[i]) /\ Prepares(ops'[j]) => i = j
        /\ \A i, j \in 1..Len(posts') : IsToken(posts'[i]) /\ IsToken(posts'[j]) => i = j
        /\ \A i \in 1..Len(ops'), j \in 1..Len(posts') : ~(Prepares(ops'[i]) /\ IsToken(posts'[j]))
    BY DEF TidyInv, TokenInv, TokenInOps, TokenInPosts
  <2>2. pending = 1 =>
           /\ \A i \in 1..Len(ops') : ~Prepares(ops'[i])
           /\ \A i \in 1..Len(posts') : ~IsToken(posts'[i])
           /\ channelStatus' \notin {"REQUEST", "READY"} /\ preparation' # "none"
    BY DEF TidyInv, TokenInv, TokenInOps, TokenInPosts
  <2>3. \/ channelStatus' \notin {"REQUEST", "READY"} /\ preparation' # "none"
        \/ /\ \A i \in 1..Len(ops') : ~Prepares(ops'[i])
           /\ \A i \in 1..Len(posts') : ~IsToken(posts'[i])
           /\ pending # 1
    BY <2>2 DEF TidyInv, TokenInv, TokenInOps, TokenInPosts
  <2>4. /\ \A i, j \in 1..Len(now') : IsToken(now'[i]) /\ IsToken(now'[j]) => i = j
        /\ \A i \in 1..Len(ops'), j \in 1..Len(now') : ~(Prepares(ops'[i]) /\ IsToken(now'[j]))
        /\ \A i \in 1..Len(now'), j \in 1..Len(posts') : ~(IsToken(now'[i]) /\ IsToken(posts'[j]))
        /\ pending # 1 => \A j \in 1..Len(now') : ~IsToken(now'[j])
    BY <1>11, <2>2
  <2>5. pending' = 0
    BY <1>5
  <2>6. QED
    BY <2>1, <2>3, <2>4, <2>5, TokenPlaced
<1>14. CalmInv'
  <2>1. \A j \in 1..Len(posts') : posts'[j].do \in Posted
    BY PostsAsBefore
  <2>2. \A j \in 1..Len(now') : j <= Len(now') =>
           /\ now'[j].do = "doSubscribePending" => channelStatus' = "READY"
           /\ now'[j].do = "channelError" => now'[j].ch \notin usable'
           /\ now'[j].do = "fail" => usable' = {}
    BY <1>11, AnnouncingFacts
  <2>3. 1..Len(now) = {}
    OBVIOUS
  <2>4. CalmInv
    BY DEF TidyInv
  <2>5. \A j \in 1..Len(now) : now[j].do \in Announcing
    BY <2>3
  <2>6. QED
    BY <1>8, <1>11, <1>12, <2>1, <2>2, <2>4, <2>5, CalmFrame
<1>15. \A s \in Subscriptions : WorkInv(s)' /\ BindingInv(s)' /\ FreshInv(s)'
  <2>1. \A j \in 1..Len(now') : j <= Len(now') => now'[j].do \notin {"reply", "moveSubscriptionState"}
    BY <1>11, AnnouncingFacts
  <2>2. QED
    BY <1>8, <1>12, <2>1, SubscriptionsRest
<1>16. QED
  BY <1>13, <1>14, <1>15 DEF TidyInv

(* onReady()                                                               *)
LEMMA TidyOnReady ==
    ASSUME Types, Types', TidyInv, onReady, UNCHANGED <<client, observed, calls>>
    PROVE  TidyInv'
<1>1. /\ now = <<>> /\ callOnComplete(TRUE) /\ TRUE \in BOOLEAN
      /\ UNCHANGED <<ops, posts, channelStatus, channel, usable, subscriptions, bound, preparation>>
  BY DEF onReady, library, client, observed
<1>2. QED
  BY <1>1, TidyComplete

(* connectFails()                                                          *)
LEMMA TidyConnectFails ==
    ASSUME Types, Types', TidyInv, connectFails, UNCHANGED <<client, observed, calls>>
    PROVE  TidyInv'
<1>1. /\ now = <<>> /\ FALSE \in BOOLEAN
      /\ UNCHANGED <<ops, posts, channelStatus, channel, usable, subscriptions, bound, preparation>>
  BY DEF connectFails, client, observed
<1>2. CASE callOnComplete(FALSE)
  BY <1>1, <1>2, TidyComplete
<1>3. CASE UNCHANGED <<now, pending>>
  BY <1>1, <1>3, TidySame
<1>4. QED
  BY <1>2, <1>3 DEF connectFails

(* informReconnection()                                                    *)
LEMMA TidyInform ==
    ASSUME Types, Types', TidyInv, informReconnection(registered), UNCHANGED <<client, observed, calls>>
    PROVE  TidyInv'
<1>1. /\ now # <<>> /\ Head(now).do = "informReconnection" /\ Head(now).do \in Informs
      /\ UNCHANGED <<ops, posts, channelStatus, channel, usable, subscriptions, bound, preparation, pending>>
  BY DEF informReconnection, Runs, Informs, library, client, observed
<1>2. PICK x : x = Do("reviveIfReconnected")
  OBVIOUS
<1>3. x.do = "reviveIfReconnected"
  BY <1>2 DEF Do
<1>4. PICK items \in Seq({x}) : Then(items)
  <2>1. <<x>> \in Seq({x}) /\ <<>> \in Seq({x})
    OBVIOUS
  <2>2. <<>> \o Tail(now) = Tail(now)
    <3>1. PICK T : Typed(T)
      BY DEF Types
    <3>2. \E S : now \in Seq(S)
      BY <3>1, Single DEF Typed
    <3>3. QED
      BY <1>1, <3>2
  <2>3. now' = <<x>> \o Tail(now) \/ now' = <<>> \o Tail(now)
    BY <1>2, <2>2 DEF informReconnection
  <2>4. QED
    BY <2>1, <2>3 DEF Then
<1>5. /\ Len(items) \in Nat /\ Len(items) - 1 \in Int
      /\ Follows(Len(items) - 1, Len(items), 1)
      /\ \A j \in 1..Len(now') : j <= Len(items) => j \in 1..Len(items) /\ now'[j] = items[j]
  BY <1>1, <1>4, Spliced
<1>6. Lengths
  BY HasLengths
<1>7. \A j \in 1..Len(now') : j <= Len(items) => now'[j].do = "reviveIfReconnected"
  BY <1>3, <1>4, <1>5
<1>8. \A j \in 1..Len(now) : now[j].do \in Announcing
  BY <1>1, HeadInforms
<1>9. OpsKeep /\ PostsKeep /\ \A j \in 1..Len(posts') : posts'[j].do \in Posted
  BY <1>1, OpsAsBefore, PostsAsBefore
<1>10. TokenInv'
  <2>1. TokenInv /\ \A j \in 1..Len(now') : j <= Len(items) => ~IsToken(now'[j])
    BY <1>7 DEF TidyInv, IsToken
  <2>2. QED
    BY <1>1, <1>5, <1>6, <1>9, <2>1, TokenFrame
<1>11. CalmInv'
  <2>1. \A j \in 1..Len(now') : j <= Len(items) =>
           /\ now'[j].do \in Announcing
           /\ now'[j].do # "doSubscribePending" /\ now'[j].do # "channelError" /\ now'[j].do # "fail"
    BY <1>7 DEF Announcing, Informs
  <2>2. QED
    BY <1>1, <1>5, <1>6, <1>8, <1>9, <2>1, CalmFrame DEF TidyInv
<1>12. \A s \in Subscriptions : WorkInv(s)' /\ BindingInv(s)' /\ FreshInv(s)'
  BY <1>1, <1>5, <1>6, <1>7, SubscriptionsRest
<1>13. QED
  BY <1>10, <1>11, <1>12 DEF TidyInv

(* connectionBreaks()                                                      *)
LEMMA TidyBreaks ==
    ASSUME Types, Types', TidyInv, connectionBreaks, UNCHANGED <<client, observed, calls>>
    PROVE  TidyInv'
<1>1. /\ now = <<>> /\ usable' = {}
      /\ UNCHANGED <<ops, posts, channelStatus, channel, subscriptions, bound, preparation, pending>>
  BY DEF connectionBreaks, client, observed
<1>2. Len(now') = 1 /\ now'[1].do = "fail"
  <2>1. PICK x : x = Do("fail")
    OBVIOUS
  <2>2. now' = <<x>> /\ x.do = "fail"
    BY <2>1 DEF connectionBreaks, Do
  <2>3. QED
    BY <2>2
<1>3. Lengths
  BY HasLengths
<1>4. /\ Follows(0, 1, 1) /\ 0 \in Int /\ 1 \in Nat
      /\ \A j \in 1..Len(now') : j <= 1 => now'[j].do = "fail"
  BY <1>2 DEF Follows
<1>5. OpsKeep /\ PostsKeep /\ \A j \in 1..Len(posts') : posts'[j].do \in Posted
  BY <1>1, OpsAsBefore, PostsAsBefore
<1>6. TokenInv'
  <2>1. TokenInv /\ \A j \in 1..Len(now') : j <= 1 => ~IsToken(now'[j])
    BY <1>4 DEF TidyInv, IsToken
  <2>2. QED
    BY <1>1, <1>3, <1>4, <1>5, <2>1, TokenFrame
<1>7. CalmInv'
  <2>1. \A j \in 1..Len(now) : now[j].do \notin Informs
    <3>1. 1..Len(now) = {}
      BY <1>1
    <3>2. QED
      BY <3>1
  <2>2. \A j \in 1..Len(now') : j <= 1 =>
           /\ now'[j].do # "doSubscribePending" /\ now'[j].do # "channelError"
           /\ now'[j].do \notin Informs /\ usable' = {}
    BY <1>1, <1>4 DEF Informs
  <2>3. usable' \subseteq usable /\ channelStatus' = channelStatus
    BY <1>1
  <2>4. QED
    BY <1>3, <1>4, <1>5, <2>1, <2>2, <2>3, CalmFrame DEF TidyInv
<1>8. \A s \in Subscriptions : WorkInv(s)' /\ BindingInv(s)' /\ FreshInv(s)'
  <2>1. usable' \subseteq usable
    BY <1>1
  <2>2. QED
    BY <1>1, <1>3, <1>4, <2>1, SubscriptionsRest
<1>9. QED
  BY <1>6, <1>7, <1>8 DEF TidyInv

(* reviveIfReconnected(), unless it overlaps with something else           *)
LEMMA TidyRevive ==
    ASSUME Types, Types', TidyInv, reviveIfReconnected, ~Overlaps
    PROVE  TidyInv'
<1>1. now # <<>> /\ Head(now).do = "reviveIfReconnected" /\ Head(now).do \in Informs
  BY DEF reviveIfReconnected, Runs, Informs
<1>2. /\ UNCHANGED <<ops, bound, pending>> /\ channel' = 0 /\ usable' \subseteq usable
      /\ \A s \in Subscriptions : subscriptions'[s] = "none"
  BY DEF reviveIfReconnected, ClearedSubscriptions, connection
<1>3. PICK T : TypeOK /\ Typed(T)
  BY DEF Types
<1>4. preparation = "none" /\ pending = 0 /\ ops = <<>>
  <2>1. pending \in Nat
    BY <1>3 DEF TypeOK
  <2>2. QED
    BY <2>1 DEF Overlaps
<1>5. /\ \A i \in 1..Len(posts) : ~IsToken(posts[i])
      /\ \A i \in 1..Len(now) : ~IsToken(now[i])
  BY <1>4, NoToken DEF TidyInv
<1>6. \A j \in 1..Len(now) : now[j].do \in Announcing
  BY <1>1, HeadInforms
<1>7. PICK x : x = Do("createChannel")
  OBVIOUS
<1>8. x.do = "createChannel"
  BY <1>7 DEF Do
<1>9. PICK items \in Seq({x}) :
         /\ Then(items)
         /\ \A j \in 1..Len(items) : j = 1 /\ channelStatus' = "CREATE" /\ preparation' = "publish"
  <2>1. <<x>> \in Seq({x}) /\ <<>> \in Seq({x}) /\ 1..Len(<<>>) = {} /\ 1..Len(<<x>>) = {1}
    OBVIOUS
  <2>2. Then(<<>>) \/ (Then(<<x>>) /\ channelStatus' = "CREATE" /\ preparation' = "publish")
    BY <1>7 DEF reviveIfReconnected, asyncPrepareChannel
  <2>3. QED
    BY <2>1, <2>2
<1>10. /\ Len(items) \in Nat /\ Len(items) - 1 \in Int
       /\ Follows(Len(items) - 1, Len(items), 1)
       /\ \A j \in 1..Len(now') : j <= Len(items) => j \in 1..Len(items) /\ now'[j] = items[j]
  BY <1>1, <1>9, Spliced
<1>11. Lengths
  BY HasLengths
<1>12. \A j \in 1..Len(now') :
          \/ /\ j = 1 /\ now'[j] = x /\ j <= Len(items)
             /\ channelStatus' = "CREATE" /\ preparation' = "publish"
          \/ \E i \in 1..Len(now) : now'[j] = now[i]
  <2>1. \A j \in 1..Len(now') : j <= Len(items) \/ j > Len(items)
    BY <1>10, <1>11 DEF Lengths
  <2>2. \A j \in 1..Len(items) : items[j] = x
    BY <1>9
  <2>3. \A j \in 1..Len(now') : j > Len(items) => \E i \in 1..Len(now) : now'[j] = now[i]
    BY <1>10 DEF Follows
  <2>4. QED
    BY <1>9, <1>10, <2>1, <2>2, <2>3
<1>13. x.do \in Announcing
  BY <1>8 DEF Announcing
<1>14. \A j \in 1..Len(now') : now'[j].do \in Announcing
  BY <1>6, <1>12, <1>13
<1>15. /\ \A j \in (Len(posts) + 1)..Len(posts') : posts'[j].do = "asyncSubscribe"
       /\ Quiet
  <2> DEFINE known == {s \in Subscriptions : subscriptions[s] # "none"}
             order == SetToSeq(known)
             g == Len(groups) + 1
             extra == [i \in 1..Len(order) |->
                          Subscribe(order[i], Append(handlers[order[i]], OneDone(g, order[i])))]
  <2>1. posts' = posts \o extra
    BY DEF reviveIfReconnected
  <2>2. Len(order) \in Nat
    BY Listed
  <2>3. \A i \in 1..Len(order) : extra[i].do = "asyncSubscribe"
    BY DEF Subscribe
  <2> HIDE DEF order, g
  <2>4. extra \in Seq({extra[i] : i \in 1..Len(order)}) /\ Len(extra) = Len(order)
    BY <2>2
  <2> HIDE DEF extra
  <2>5. PICK S, R : posts \in Seq(S) /\ extra \in Seq(R)
    BY <1>3, <2>4 DEF Typed
  <2>6. \A j \in (Len(posts) + 1)..Len(posts') :
           j - Len(posts) \in 1..Len(extra) /\ posts'[j] = extra[j - Len(posts)]
    BY <2>1, <2>5, ConcatAny
  <2>7. Quiet
    BY <1>3, ReviveTypes DEF KeepsTypes
  <2>8. QED
    BY <2>3, <2>4, <2>6, <2>7
<1>16. PostsKeep /\ \A j \in 1..Len(posts') : posts'[j].do \in Posted
  <2>1. \A j \in (Len(posts) + 1)..Len(posts') : posts'[j].do \in Posted /\ ~IsToken(posts'[j])
    BY <1>15 DEF Posted, IsToken
  <2>2. QED
    BY <1>11, <1>15, <2>1, PostsMore
<1>17. 1..Len(ops') = {}
  BY <1>2, <1>4
<1>18. TokenInv'
  <2>1. \A j \in 1..Len(posts') : ~IsToken(posts'[j])
    BY <1>5, <1>16 DEF PostsKeep
  <2>2. \A j \in 1..Len(now') : IsToken(now'[j]) =>
           j = 1 /\ channelStatus' = "CREATE" /\ preparation' = "publish"
    BY <1>5, <1>12
  <2>3. pending' = 0
    BY <1>2, <1>4
  <2>4. \/ channelStatus' \notin {"REQUEST", "READY"} /\ preparation' # "none"
        \/ \A j \in 1..Len(now') : ~IsToken(now'[j])
    BY <2>2
  <2>5. /\ \A i, j \in 1..Len(now') : IsToken(now'[i]) /\ IsToken(now'[j]) => i = j
        /\ \A i \in 1..Len(ops') : ~Prepares(ops'[i])
    BY <1>17, <2>2
  <2>6. QED
    BY <1>17, <2>1, <2>3, <2>4, <2>5, TokenPlaced
<1>19. CalmInv'
  <2>1. \A j \in 1..Len(now') : j <= Len(items) =>
           /\ now'[j].do = "doSubscribePending" => channelStatus' = "READY"
           /\ now'[j].do = "channelError" => now'[j].ch \notin usable'
           /\ now'[j].do = "fail" => usable' = {}
    BY <1>14, AnnouncingFacts
  <2>2. \A j \in 1..Len(now) : now[j].do # "doSubscribePending"
    BY <1>6, AnnouncingFacts
  <2>3. QED
    BY <1>2, <1>6, <1>10, <1>11, <1>14, <1>16, <2>1, <2>2, CalmFrame DEF TidyInv
<1>20. ASSUME NEW s \in Subscriptions
       PROVE  WorkInv(s)' /\ BindingInv(s)' /\ FreshInv(s)'
  <2>1. WorkInv(s)'
    <3>1. \A j \in 1..Len(now') : ~IsWork(now'[j], s)
      BY <1>14, AnnouncingFacts
    <3>2. QED
      BY <1>2, <1>17, <3>1, WorkNone
  <2>2. BindingInv(s)'
    <3>1. usable' \subseteq 1..created' /\ created' \in Nat
      BY DEF Types, TypeOK
    <3>2. channel' \notin usable'
      BY <1>2, <3>1
    <3>3. QED
      BY <3>2 DEF BindingInv
  <2>3. FreshInv(s)'
    <3>1. \A j \in 1..Len(now') : now'[j].do # "reply"
      BY <1>14, AnnouncingFacts
    <3>2. QED
      BY <1>17, <3>1, FreshNone
  <2>4. QED
    BY <2>1, <2>2, <2>3
<1>21. QED
  BY <1>18, <1>19, <1>20 DEF TidyInv

(* A function is taken from the io context                                 *)
LEMMA TidyRunPosted ==
    ASSUME Types, Types', TidyInv, runPosted, UNCHANGED <<client, observed, calls>>
    PROVE  TidyInv'
<1>1. /\ now = <<>>
      /\ UNCHANGED <<ops, pending, usable, channelStatus, channel, subscriptions, bound, preparation>>
  BY DEF runPosted, connection, library, client, observed
<1>2. /\ Len(posts) \in Nat \ {0} /\ Len(posts') = Len(posts) - 1
      /\ \A i \in 1..(Len(posts) - 1) : posts'[i] = posts[i + 1]
      /\ Len(now') = 1 /\ now'[1] = posts[1]
  <2>1. PICK T : TypeOK /\ Typed(T)
    BY DEF Types
  <2>2. QED
    BY <2>1, RunPostedTypes
<1>3. /\ \A j \in 1..Len(posts') : j + 1 \in 1..Len(posts) /\ j + 1 # 1 /\ posts'[j] = posts[j + 1]
      /\ \A j \in 1..Len(now') : j = 1 /\ now'[j] = posts[1]
      /\ 1 \in 1..Len(posts)
  BY <1>2
<1>4. Lengths
  BY HasLengths
<1>5. \A i \in 1..Len(posts) : posts[i].do \in Posted
  BY DEF TidyInv, CalmInv
<1>6. TokenInv'
  <2>1. \A j \in 1..Len(posts') : IsToken(posts'[j]) => IsToken(posts[j + 1]) /\ j + 1 \in 1..Len(posts)
    BY <1>3
  <2>2. \A j \in 1..Len(now') : IsToken(now'[j]) => IsToken(posts[1])
    BY <1>3
  <2>3. /\ \A i, j \in 1..Len(posts) : IsToken(posts[i]) /\ IsToken(posts[j]) => i = j
        /\ \A i, j \in 1..Len(ops) : Prepares(ops[i]) /\ Prepares(ops[j]) => i = j
        /\ \A i \in 1..Len(ops), j \in 1..Len(posts) : ~(Prepares(ops[i]) /\ IsToken(posts[j]))
    BY DEF TidyInv, TokenInv, TokenInOps, TokenInPosts
  <2>4. \A i, j \in 1..Len(posts') : IsToken(posts'[i]) /\ IsToken(posts'[j]) => i = j
    <3>1. \A i, j \in 1..Len(posts') : i + 1 = j + 1 => i = j
      BY <1>4 DEF Lengths
    <3>2. QED
      BY <2>1, <2>3, <3>1
  <2>5. /\ \A i, j \in 1..Len(now') : IsToken(now'[i]) /\ IsToken(now'[j]) => i = j
        /\ \A i \in 1..Len(ops'), j \in 1..Len(now') : ~(Prepares(ops'[i]) /\ IsToken(now'[j]))
        /\ \A i \in 1..Len(ops'), j \in 1..Len(posts') : ~(Prepares(ops'[i]) /\ IsToken(posts'[j]))
        /\ \A i, j \in 1..Len(ops') : Prepares(ops'[i]) /\ Prepares(ops'[j]) => i = j
    BY <1>1, <1>3, <2>1, <2>2, <2>3
  <2>6. \A i \in 1..Len(now'), j \in 1..Len(posts') : ~(IsToken(now'[i]) /\ IsToken(posts'[j]))
    BY <1>3, <2>1, <2>2, <2>3
  <2>7. pending' = 0 \/ /\ pending' = 1 /\ \A i \in 1..Len(ops) : ~Prepares(ops[i])
                        /\ \A i \in 1..Len(posts) : ~IsToken(posts[i])
    <3>1. pending \in Nat /\ pending <= 1
      BY DEF TidyInv, TokenInv, Types, TypeOK
    <3>2. pending = 0 \/ pending = 1
      BY <3>1
    <3>3. QED
      BY <1>1, <3>2 DEF TidyInv, TokenInv, TokenInOps, TokenInPosts
  <2>8. \/ channelStatus' \notin {"REQUEST", "READY"} /\ preparation' # "none"
        \/ /\ pending' = 0 /\ \A i \in 1..Len(ops) : ~Prepares(ops[i])
           /\ \A i \in 1..Len(posts) : ~IsToken(posts[i])
    <3>1. pending \in Nat
      BY DEF Types, TypeOK
    <3>2. QED
      BY <1>1, <3>1, NoToken DEF TidyInv
  <2>9. /\ (\A i \in 1..Len(ops) : ~Prepares(ops[i])) => \A i \in 1..Len(ops') : ~Prepares(ops'[i])
        /\ (\A i \in 1..Len(posts) : ~IsToken(posts[i])) =>
              /\ \A i \in 1..Len(now') : ~IsToken(now'[i])
              /\ \A i \in 1..Len(posts') : ~IsToken(posts'[i])
    BY <1>1, <1>3, <2>1, <2>2
  <2>10. QED
    BY <2>4, <2>5, <2>6, <2>7, <2>8, <2>9, TokenPlaced
<1>7. CalmInv'
  <2>1. \A j \in 1..Len(now') :
           /\ now'[j].do \in Posted
           /\ now'[j].do \in Informs => \A i \in 1..Len(now') : now'[i].do \in Informs
    BY <1>3, <1>5
  <2>2. Informs \subseteq Announcing
    BY DEF Announcing
  <2>3. "doSubscribePending" \notin Posted /\ "channelError" \notin Posted /\ "fail" \notin Posted
    BY DEF Posted
  <2>4. \A j \in 1..Len(posts') : posts'[j].do \in Posted
    BY <1>3, <1>5
  <2>5. QED
    BY <2>1, <2>2, <2>3, <2>4 DEF CalmInv
<1>8. \A s \in Subscriptions : WorkInv(s)' /\ BindingInv(s)' /\ FreshInv(s)'
  <2>1. Follows(0, 1, 1) /\ 0 \in Int /\ 1 \in Nat
    BY <1>2 DEF Follows
  <2>2. \A j \in 1..Len(now') : j <= 1 => now'[j].do \notin {"reply", "moveSubscriptionState"}
    BY <1>3, <1>5 DEF Posted
  <2>3. QED
    BY <1>1, <1>4, <2>1, <2>2, SubscriptionsRest
<1>9. QED
  BY <1>6, <1>7, <1>8 DEF TidyInv

(* doCreateChannel()                                                       *)
LEMMA TidyCreateChannel ==
    ASSUME Types, Types', TidyInv, doCreateChannel, UNCHANGED <<client, observed, calls>>
    PROVE  TidyInv'
<1>1. /\ now # <<>> /\ Head(now).do = "createChannel" /\ now' = Tail(now)
      /\ UNCHANGED <<usable, channelStatus, channel, subscriptions, bound, preparation>>
  BY DEF doCreateChannel, Runs, client, observed
<1>2. PICK T : TypeOK /\ Typed(T)
  BY DEF Types
<1>3. PICK S : now \in Seq(S)
  BY <1>2, Single DEF Typed
<1>4. /\ Len(now) \in Nat \ {0} /\ now[1] = Head(now) /\ Len(now') = Len(now) - 1
      /\ \A j \in 1..Len(now') : now'[j] = now[j + 1]
  <2>1. Len(now) \in Nat \ {0}
    BY <1>1, <1>3, EmptySeq
  <2>2. QED
    BY <1>1, <1>3, <2>1
<1>5. /\ -1 \in Int /\ 0 \in Nat
      /\ \A j \in 1..Len(now') : j - (-1) \in 1..Len(now) /\ j - (-1) # 1 /\ now'[j] = now[j - (-1)]
      /\ \A j \in 1..Len(now') : ~(j <= 0)
  <2>1. \A j \in 1..Len(now') : j - (-1) = j + 1 /\ j + 1 \in 1..Len(now) /\ j + 1 # 1 /\ ~(j <= 0)
    BY <1>4
  <2>2. QED
    BY <1>4, <2>1
<1>6. Follows(-1, 0, 1)
  BY <1>5 DEF Follows
<1>7. Lengths
  BY HasLengths
<1>8. /\ \A i \in 1..Len(ops) : ~Prepares(ops[i])
      /\ \A i \in 1..Len(posts) : ~IsToken(posts[i])
      /\ \A i \in 1..Len(now) : IsToken(now[i]) => i = 1
      /\ pending = 0
      /\ channelStatus' \notin {"REQUEST", "READY"} /\ preparation' # "none"
  <2>1. IsToken(now[1])
    BY <1>1, <1>4 DEF IsToken
  <2>2. QED
    BY <1>1, <1>4, <2>1, HeadIsToken DEF TidyInv
<1>9. \A j \in 1..Len(now') : ~IsToken(now'[j])
  BY <1>5, <1>8
<1>10. ASSUME \A j \in 1..Len(posts') : posts'[j].do \in Posted
       PROVE  CalmInv'
  BY <1>1, <1>5, <1>6, <1>7, <1>10, CalmFrame DEF TidyInv
<1>11. CASE state = "Ready" /\ ~broken
  <2>1. PICK o : o = [op |-> "open", ch |-> created + 1, x |-> 0]
    OBVIOUS
  <2>2. UNCHANGED <<pending, posts>> /\ ops' = Append(ops, o)
    BY <1>11, <2>1 DEF doCreateChannel
  <2>3. o.op = "open" /\ o.ch = created + 1
    BY <2>1
  <2>4. \A j \in 1..Len(ops') :
           \/ j \in 1..Len(ops) /\ ops'[j] = ops[j]
           \/ j = Len(ops) + 1 /\ ops'[j] = o
    <3>1. ops \in Seq(Operations(created))
      BY <1>2 DEF Typed
    <3>2. /\ Len(ops) \in Nat /\ Len(ops') = Len(ops) + 1
          /\ \A i \in 1..Len(ops) : ops'[i] = ops[i]
          /\ ops'[Len(ops) + 1] = o
      BY <2>2, <3>1, AppendedAny
    <3>3. \A j \in 1..Len(ops') : j \in 1..Len(ops) \/ j = Len(ops) + 1
      BY <3>2
    <3>4. QED
      BY <3>2, <3>3
  <2>5. TokenInv'
    <3>1. \A j \in 1..Len(ops') : Prepares(ops'[j]) => j = Len(ops) + 1
      BY <1>8, <2>4
    <3>2. \A i, j \in 1..Len(ops') : Prepares(ops'[i]) /\ Prepares(ops'[j]) => i = j
      BY <3>1
    <3>3. pending' = 0 /\ \A j \in 1..Len(posts') : ~IsToken(posts'[j])
      BY <1>8, <2>2
    <3>4. QED
      BY <1>8, <1>9, <3>2, <3>3, TokenPlaced
  <2>6. CalmInv'
    BY <1>10, <2>2, PostsAsBefore
  <2>7. ASSUME NEW s \in Subscriptions
        PROVE  WorkInv(s)' /\ BindingInv(s)' /\ FreshInv(s)'
    <3>1. WorkInv(s) /\ BindingInv(s) /\ FreshInv(s)
      BY DEF TidyInv
    <3>2. \A j \in 1..Len(ops') : Works(ops'[j], s) => j \in 1..Len(ops) /\ ops'[j] = ops[j]
      BY <2>3, <2>4 DEF Works
    <3>3. WorkInv(s)'
      BY <1>1, <1>5, <1>6, <1>7, <3>1, <3>2, WorkFrame
    <3>4. BindingInv(s)'
      BY <1>1, <3>1, BindingFrame
    <3>5. FreshInv(s)'
      <4>1. <<created + 1, s>> \notin bound
        <5>1. bound \subseteq (0..created) \X Subscriptions /\ created \in Nat
          BY <1>2 DEF TypeOK
        <5>2. created + 1 \notin 0..created
          BY <5>1
        <5>3. QED
          BY <5>1, <5>2
      <4>2. \A j \in 1..Len(ops') : ops'[j].op = "open" => <<ops'[j].ch, s>> \notin bound'
        BY <1>1, <2>3, <2>4, <3>1, <4>1 DEF FreshInv
      <4>3. \A j \in 1..Len(now') : now'[j].do = "reply" /\ now'[j].op.op = "open" =>
               <<now'[j].op.ch, s>> \notin bound'
        BY <1>1, <1>5, <3>1 DEF FreshInv
      <4>4. QED
        BY <4>2, <4>3 DEF FreshInv
    <3>6. QED
      BY <3>3, <3>4, <3>5
  <2>8. QED
    BY <2>5, <2>6, <2>7 DEF TidyInv
<1>12. ASSUME UNCHANGED ops
       PROVE  \A s \in Subscriptions : WorkInv(s)' /\ BindingInv(s)' /\ FreshInv(s)'
  BY <1>1, <1>5, <1>6, <1>7, <1>12, SubscriptionsRest
<1>13. CASE ~(state = "Ready" /\ ~broken) /\ state \in {"Unknown", "Started"}
  <2>1. UNCHANGED <<ops, posts>> /\ pending' = pending + 1
    BY <1>13 DEF doCreateChannel
  <2>2. TokenInv'
    <3>1. pending' = 1
      BY <1>8, <2>1
    <3>2. /\ \A i \in 1..Len(ops') : ~Prepares(ops'[i])
          /\ \A i \in 1..Len(posts') : ~IsToken(posts'[i])
      BY <1>8, <2>1
    <3>3. QED
      BY <1>8, <1>9, <3>1, <3>2, TokenPlaced
  <2>3. CalmInv'
    BY <1>10, <2>1, PostsAsBefore
  <2>4. QED
    BY <1>12, <2>1, <2>2, <2>3 DEF TidyInv
<1>14. CASE ~(state = "Ready" /\ ~broken) /\ state \notin {"Unknown", "Started"}
  <2>1. PICK x : x = ChannelResult(0)
    OBVIOUS
  <2>2. UNCHANGED <<ops, pending>> /\ posts' = Append(posts, x)
    BY <1>14, <2>1 DEF doCreateChannel
  <2>3. x.do = "channelCreated"
    BY <2>1 DEF ChannelResult
  <2>4. \A j \in 1..Len(posts') :
           \/ j \in 1..Len(posts) /\ posts'[j] = posts[j]
           \/ j = Len(posts) + 1 /\ posts'[j] = x
    <3>1. posts \in Seq(Items(T, created) \cup Publishes)
      BY <1>2 DEF Typed
    <3>2. /\ Len(posts) \in Nat /\ Len(posts') = Len(posts) + 1
          /\ \A i \in 1..Len(posts) : posts'[i] = posts[i]
          /\ posts'[Len(posts) + 1] = x
      BY <2>2, <3>1, AppendedAny
    <3>3. \A j \in 1..Len(posts') : j \in 1..Len(posts) \/ j = Len(posts) + 1
      BY <3>2
    <3>4. QED
      BY <3>2, <3>3
  <2>5. TokenInv'
    <3>1. \A j \in 1..Len(posts') : IsToken(posts'[j]) => j = Len(posts) + 1
      BY <1>8, <2>4
    <3>2. \A i, j \in 1..Len(posts') : IsToken(posts'[i]) /\ IsToken(posts'[j]) => i = j
      BY <3>1
    <3>3. pending' = 0 /\ \A j \in 1..Len(ops') : ~Prepares(ops'[j])
      BY <1>8, <2>2
    <3>4. QED
      BY <1>8, <1>9, <3>2, <3>3, TokenPlaced
  <2>6. CalmInv'
    <3>1. \A j \in 1..Len(posts) : posts[j].do \in Posted
      BY DEF TidyInv, CalmInv
    <3>2. \A j \in 1..Len(posts') : posts'[j].do \in Posted
      BY <2>3, <2>4, <3>1 DEF Posted
    <3>3. QED
      BY <1>10, <3>2
  <2>7. QED
    BY <1>12, <2>2, <2>5, <2>6 DEF TidyInv
<1>15. QED
  BY <1>11, <1>13, <1>14

-----------------------------------------------------------------------------
(* What is under way: answers                                              *)

(* The operation i is answered: the others stay in their order             *)
Others(K, i) ==
    /\ \A j \in 1..Len(ops') : K[j] \in 1..Len(ops) /\ K[j] # i /\ ops'[j] = ops[K[j]]
    /\ \A j, k \in 1..Len(ops') : K[j] = K[k] => j = k

(* The answer comes first, then maybe the error of the channel, then what  *)
(* was executed                                                            *)
Answering(i, why) ==
    /\ now'[1] = Reply(ops[i], why)
    /\ \A j \in 1..Len(now') :
          \/ j = 1
          \/ j # 1 /\ now'[j].do = "channelError" /\ now'[j].ch \notin usable'
          \/ j # 1 /\ j - 1 \in 1..Len(now) /\ now'[j] = now[j - 1]

(* An operation is answered                                                *)
LEMMA TidyAnswered ==
    ASSUME Types, Types', TidyInv, NEW i \in 1..Len(ops), NEW why, NEW K, Others(K, i), Answering(i, why),
           \A j \in 1..Len(now) : now[j].do \notin Informs,
           \/ usable' \subseteq usable
           \/ now = <<>> /\ ops[i].op = "open" /\ usable' \subseteq usable \cup {ops[i].ch},
           why # "success" => ops[i].ch \notin usable',
           UNCHANGED <<posts, pending, channelStatus, preparation, channel, subscriptions, bound>>
    PROVE  TidyInv'
<1>1. PICK x : x = Reply(ops[i], why)
  OBVIOUS
<1>2. x.do = "reply" /\ x.op = ops[i] /\ x.why = why
  BY <1>1 DEF Reply
<1>3. \A j \in 1..Len(now') :
         \/ j = 1 /\ now'[j] = x
         \/ j # 1 /\ now'[j].do = "channelError" /\ now'[j].ch \notin usable'
         \/ j # 1 /\ j - 1 \in 1..Len(now) /\ now'[j] = now[j - 1]
  BY <1>1 DEF Answering
<1>4. Lengths
  BY HasLengths
<1>5. \A j, k \in 1..Len(now') : j - 1 = k - 1 => j = k
  BY <1>4 DEF Lengths
<1>6. /\ \A j \in 1..Len(ops') : K[j] \in 1..Len(ops) /\ K[j] # i /\ ops'[j] = ops[K[j]]
      /\ \A j, k \in 1..Len(ops') : K[j] = K[k] => j = k
  BY DEF Others
<1>7. TokenInv'
  <2>1. \A j \in 1..Len(now') : IsToken(now'[j]) =>
           \/ j = 1 /\ Prepares(ops[i])
           \/ j # 1 /\ j - 1 \in 1..Len(now) /\ IsToken(now[j - 1])
    BY <1>2, <1>3 DEF IsToken
  <2>2. \A j \in 1..Len(ops') : Prepares(ops'[j]) => Prepares(ops[K[j]])
    BY <1>6
  <2>3. /\ \A j, k \in 1..Len(ops) : Prepares(ops[j]) /\ Prepares(ops[k]) => j = k
        /\ \A j, k \in 1..Len(now) : IsToken(now[j]) /\ IsToken(now[k]) => j = k
        /\ \A j, k \in 1..Len(posts) : IsToken(posts[j]) /\ IsToken(posts[k]) => j = k
        /\ \A j \in 1..Len(ops), k \in 1..Len(now) : ~(Prepares(ops[j]) /\ IsToken(now[k]))
        /\ \A j \in 1..Len(ops), k \in 1..Len(posts) : ~(Prepares(ops[j]) /\ IsToken(posts[k]))
        /\ \A j \in 1..Len(now), k \in 1..Len(posts) : ~(IsToken(now[j]) /\ IsToken(posts[k]))
    BY DEF TidyInv, TokenInv, TokenInOps, TokenInNow, TokenInPosts
  <2>4. \A j, k \in 1..Len(ops') : Prepares(ops'[j]) /\ Prepares(ops'[k]) => j = k
    <3>1. SUFFICES ASSUME NEW j \in 1..Len(ops'), NEW k \in 1..Len(ops'), Prepares(ops'[j]), Prepares(ops'[k])
                   PROVE  j = k
      OBVIOUS
    <3>2. Prepares(ops[K[j]]) /\ Prepares(ops[K[k]]) /\ K[j] \in 1..Len(ops) /\ K[k] \in 1..Len(ops)
      BY <1>6, <2>2, <3>1
    <3>3. K[j] = K[k]
      BY <2>3, <3>2
    <3>4. QED
      BY <1>6, <3>3
  <2>5. \A j, k \in 1..Len(now') : IsToken(now'[j]) /\ IsToken(now'[k]) => j = k
    BY <1>5, <2>1, <2>3
  <2>6. \A j, k \in 1..Len(posts') : IsToken(posts'[j]) /\ IsToken(posts'[k]) => j = k
    BY <2>3
  <2>7. \A j \in 1..Len(ops'), k \in 1..Len(now') : ~(Prepares(ops'[j]) /\ IsToken(now'[k]))
    BY <1>6, <2>1, <2>2, <2>3, ZenonT(60)
  <2>8. \A j \in 1..Len(ops'), k \in 1..Len(posts') : ~(Prepares(ops'[j]) /\ IsToken(posts'[k]))
    BY <1>6, <2>2, <2>3
  <2>9. \A j \in 1..Len(now'), k \in 1..Len(posts') : ~(IsToken(now'[j]) /\ IsToken(posts'[k]))
    BY <2>1, <2>3
  <2>10. /\ (\A j \in 1..Len(ops) : ~Prepares(ops[j])) => \A j \in 1..Len(ops') : ~Prepares(ops'[j])
         /\ (\A j \in 1..Len(ops) : ~Prepares(ops[j])) /\ (\A j \in 1..Len(now) : ~IsToken(now[j])) =>
               \A j \in 1..Len(now') : ~IsToken(now'[j])
    BY <1>6, <2>1, <2>2
  <2>11. \/ pending' = 0
         \/ /\ pending' = 1 /\ \A j \in 1..Len(ops) : ~Prepares(ops[j])
            /\ \A j \in 1..Len(now) : ~IsToken(now[j])
            /\ \A j \in 1..Len(posts') : ~IsToken(posts'[j])
    <3>1. pending \in Nat /\ pending <= 1
      BY DEF TidyInv, TokenInv, Types, TypeOK
    <3>2. pending = 0 \/ pending = 1
      BY <3>1
    <3>3. QED
      BY <3>2 DEF TidyInv, TokenInv, TokenInOps, TokenInNow, TokenInPosts
  <2>12. \/ channelStatus' \notin {"REQUEST", "READY"} /\ preparation' # "none"
         \/ /\ pending' = 0 /\ \A j \in 1..Len(ops) : ~Prepares(ops[j])
            /\ \A j \in 1..Len(now) : ~IsToken(now[j])
            /\ \A j \in 1..Len(posts') : ~IsToken(posts'[j])
    <3>1. pending \in Nat
      BY DEF Types, TypeOK
    <3>2. QED
      BY <3>1, NoToken DEF TidyInv
  <2>13. QED
    BY <2>4, <2>5, <2>6, <2>7, <2>8, <2>9, <2>10, <2>11, <2>12, TokenPlaced
<1>8. CalmInv'
  <2>1. CalmInv
    BY DEF TidyInv
  <2>2. \A j \in 1..Len(now') :
           /\ now'[j].do \notin Informs
           /\ now'[j].do = "doSubscribePending" => channelStatus' = "READY"
           /\ now'[j].do = "channelError" => now'[j].ch \notin usable'
           /\ now'[j].do = "fail" => usable' = {}
    <3>1. SUFFICES ASSUME NEW j \in 1..Len(now')
                   PROVE  /\ now'[j].do \notin Informs
                          /\ now'[j].do = "doSubscribePending" => channelStatus' = "READY"
                          /\ now'[j].do = "channelError" => now'[j].ch \notin usable'
                          /\ now'[j].do = "fail" => usable' = {}
      OBVIOUS
    <3>2. CASE j = 1 /\ now'[j] = x
      BY <1>2, <3>2 DEF Informs
    <3>3. CASE now'[j].do = "channelError" /\ now'[j].ch \notin usable'
      BY <3>3 DEF Informs
    <3>4. CASE j - 1 \in 1..Len(now) /\ now'[j] = now[j - 1]
      <4>1. usable' \subseteq usable
        <5>1. now = <<>> => 1..Len(now) = {}
          OBVIOUS
        <5>2. QED
          BY <3>4, <5>1
      <4>2. QED
        BY <2>1, <3>4, <4>1 DEF CalmInv
    <3>5. QED
      BY <1>3, <3>2, <3>3, <3>4
  <2>3. \A j \in 1..Len(posts') : posts'[j].do \in Posted
    BY PostsAsBefore
  <2>4. QED
    BY <2>2, <2>3 DEF CalmInv
<1>9. ASSUME NEW s \in Subscriptions
      PROVE  WorkInv(s)' /\ BindingInv(s)' /\ FreshInv(s)'
  <2>1. WorkInv(s) /\ BindingInv(s) /\ FreshInv(s)
    BY DEF TidyInv
  <2>2. ops[i].op = "open" => channelStatus # "READY" /\ subscriptions[s] # "READY"
    <3>1. ops[i].op = "open" => channelStatus # "READY"
      BY DEF TidyInv, TokenInv, TokenInOps, Prepares
    <3>2. QED
      BY <2>1, <3>1 DEF WorkInv
  <2>3. BindingInv(s)'
    <3>1. CASE usable' \subseteq usable
      BY <2>1, <3>1, BindingFrame
    <3>2. CASE ops[i].op = "open" /\ usable' \subseteq usable \cup {ops[i].ch}
      <4>1. <<ops[i].ch, s>> \notin bound
        BY <2>1, <3>2 DEF FreshInv
      <4>2. QED
        BY <2>1, <2>2, <3>2, <4>1 DEF BindingInv
    <3>3. QED
      BY <3>1, <3>2
  <2>4. FreshInv(s)'
    <3>1. \A j \in 1..Len(ops') : ops'[j].op = "open" => <<ops'[j].ch, s>> \notin bound'
      BY <1>6, <2>1 DEF FreshInv
    <3>2. \A j \in 1..Len(now') : now'[j].do = "reply" /\ now'[j].op.op = "open" =>
             <<now'[j].op.ch, s>> \notin bound'
      BY <1>2, <1>3, <2>1 DEF FreshInv
    <3>3. QED
      BY <3>1, <3>2 DEF FreshInv
  <2>5. \A j \in 1..Len(now') : IsWork(now'[j], s) =>
           \/ j = 1 /\ now'[j] = x /\ Works(ops[i], s)
           \/ j # 1 /\ j - 1 \in 1..Len(now) /\ now'[j] = now[j - 1] /\ IsWork(now[j - 1], s)
    BY <1>2, <1>3 DEF IsWork, Moves, Answers
  <2>6. \A j \in 1..Len(ops') : Works(ops'[j], s) => Works(ops[K[j]], s)
    BY <1>6
  <2>7. WorkInv(s)'
    <3>1. CASE channelStatus # "READY"
      <4>1. /\ \A j \in 1..Len(ops) : ~Works(ops[j], s)
            /\ \A j \in 1..Len(now) : ~IsWork(now[j], s)
            /\ subscriptions[s] \in {"none", "PENDING"}
        BY <3>1, Unprepared
      <4>2. /\ \A j \in 1..Len(ops') : ~Works(ops'[j], s)
            /\ \A j \in 1..Len(now') : ~IsWork(now'[j], s)
        BY <1>6, <2>5, <2>6, <4>1
      <4>3. QED
        BY <4>1, <4>2, WorkNone
    <3>2. CASE channelStatus = "READY" /\ Works(ops[i], s)
      <4>1. /\ \A j \in 1..Len(ops) : Works(ops[j], s) => j = i
            /\ \A j \in 1..Len(now) : ~IsWork(now[j], s)
            /\ ops[i].ch = channel /\ subscriptions[s] = StatusOf(ops[i].op)
        BY <2>1, <3>2 DEF WorkInv
      <4>2. \A j \in 1..Len(ops') : ~Works(ops'[j], s)
        BY <1>6, <2>6, <4>1
      <4>3. \A j \in 1..Len(now') : IsWork(now'[j], s) => j = 1 /\ now'[j] = x
        BY <2>5, <4>1
      <4>4. ~Moves(x, s)
        BY <1>2 DEF Moves
      <4>5. \A j \in 1..Len(now') : Moves(now'[j], s) => FALSE
        BY <4>3, <4>4 DEF IsWork
      <4>6. \A j \in 1..Len(now') : Answers(now'[j], s) =>
               /\ j = 1 /\ now'[j].op.ch = channel'
               /\ subscriptions'[s] = StatusOf(now'[j].op.op)
               /\ now'[j].why # "success" => channel' \notin usable'
        BY <1>2, <4>1, <4>3 DEF IsWork
      <4>7. channelStatus' = "READY" /\ \A j, k \in 1..Len(now') : IsWork(now'[j], s) /\ IsWork(now'[k], s) => j = k
        BY <3>2, <4>3
      <4>8. QED
        BY <4>2, <4>5, <4>6, <4>7 DEF WorkInv, IsWork, Answers, Moves, Works
    <3>3. CASE channelStatus = "READY" /\ ~Works(ops[i], s)
      <4>1. usable' \subseteq usable
        BY <2>2, <3>3
      <4>2. \A j \in 1..Len(now') : IsWork(now'[j], s) =>
               j - 1 \in 1..Len(now) /\ now'[j] = now[j - 1] /\ IsWork(now[j - 1], s)
        BY <2>5, <3>3
      <4>3. /\ \A j, k \in 1..Len(ops') : Works(ops'[j], s) /\ Works(ops'[k], s) => j = k
            /\ \A j, k \in 1..Len(now') : IsWork(now'[j], s) /\ IsWork(now'[k], s) => j = k
            /\ \A j \in 1..Len(ops'), k \in 1..Len(now') : ~(Works(ops'[j], s) /\ IsWork(now'[k], s))
        <5>1. /\ \A j, k \in 1..Len(ops) : Works(ops[j], s) /\ Works(ops[k], s) => j = k
              /\ \A j, k \in 1..Len(now) : IsWork(now[j], s) /\ IsWork(now[k], s) => j = k
              /\ \A j \in 1..Len(ops), k \in 1..Len(now) : ~(Works(ops[j], s) /\ IsWork(now[k], s))
          BY <2>1 DEF WorkInv
        <5>2. \A j, k \in 1..Len(ops') : Works(ops'[j], s) /\ Works(ops'[k], s) => j = k
          <6>1. SUFFICES ASSUME NEW j \in 1..Len(ops'), NEW k \in 1..Len(ops'),
                                Works(ops'[j], s), Works(ops'[k], s)
                         PROVE  j = k
            OBVIOUS
          <6>2. /\ Works(ops[K[j]], s) /\ Works(ops[K[k]], s)
                /\ K[j] \in 1..Len(ops) /\ K[k] \in 1..Len(ops)
            BY <1>6, <2>6, <6>1
          <6>3. K[j] = K[k]
            BY <5>1, <6>2
          <6>4. QED
            BY <1>6, <6>3
        <5>3. \A j, k \in 1..Len(now') : IsWork(now'[j], s) /\ IsWork(now'[k], s) => j = k
          BY <1>5, <4>2, <5>1
        <5>4. \A j \in 1..Len(ops'), k \in 1..Len(now') : ~(Works(ops'[j], s) /\ IsWork(now'[k], s))
          BY <1>6, <2>6, <4>2, <5>1
        <5>5. QED
          BY <5>2, <5>3, <5>4
      <4>4. \A j \in 1..Len(ops') : Works(ops'[j], s) =>
               /\ channelStatus' = "READY" /\ ops'[j].ch = channel'
               /\ subscriptions'[s] = StatusOf(ops'[j].op)
        BY <1>6, <2>1, <2>6 DEF WorkInv
      <4>5. \A j \in 1..Len(now') : Answers(now'[j], s) =>
               /\ channelStatus' = "READY" /\ now'[j].op.ch = channel'
               /\ subscriptions'[s] = StatusOf(now'[j].op.op)
               /\ now'[j].why # "success" => channel' \notin usable'
        BY <2>1, <4>1, <4>2 DEF WorkInv, IsWork
      <4>6. \A j \in 1..Len(now') : Moves(now'[j], s) =>
               channelStatus' = "READY" /\ subscriptions'[s] \in {"CHECK_EXCHANGE", "BIND_QUEUE"}
        BY <2>1, <4>2 DEF WorkInv, IsWork
      <4>7. channelStatus' # "READY" => subscriptions'[s] \in {"none", "PENDING"}
        BY <3>3
      <4>8. QED
        BY <4>3, <4>4, <4>5, <4>6, <4>7 DEF WorkInv, IsWork, Answers, Moves, Works
    <3>4. QED
      BY <3>1, <3>2, <3>3
  <2>8. QED
    BY <2>3, <2>4, <2>7
<1>10. QED
  BY <1>7, <1>8, <1>9 DEF TidyInv

(* Where the operations are that are not answered                          *)
LEMMA OthersStay ==
    ASSUME Types, NEW i \in 1..Len(ops), ops' = OpsWithout(i)
    PROVE  \E K : Others(K, i)
<1>1. PICK T : TypeOK /\ Typed(T)
  BY DEF Types
<1>2. /\ Len(ops') = Len(ops) - 1
      /\ \A j \in 1..(Len(ops) - 1) : ops'[j] = IF j < i THEN ops[j] ELSE ops[j + 1]
  BY <1>1, AnsweredOps
<1>3. Len(ops) \in Nat
  BY <1>1 DEF Typed
<1>4. PICK K : K = [j \in 1..Len(ops') |-> IF j < i THEN j ELSE j + 1]
  OBVIOUS
<1>5. \A j \in 1..Len(ops') : K[j] \in 1..Len(ops) /\ K[j] # i /\ ops'[j] = ops[K[j]]
  BY <1>2, <1>3, <1>4
<1>6. \A j, k \in 1..Len(ops') : K[j] = K[k] => j = k
  BY <1>2, <1>3, <1>4
<1>7. QED
  BY <1>5, <1>6 DEF Others

(* An answer comes before what is executed                                 *)
LEMMA AnswerFirst ==
    ASSUME Types, NEW i, NEW why, now' = <<Reply(ops[i], why)>> \o now
    PROVE  Answering(i, why)
<1>1. PICK x : x = Reply(ops[i], why)
  OBVIOUS
<1>2. PICK S : now \in Seq(S)
  <2>1. PICK T : Typed(T)
    BY DEF Types
  <2>2. QED
    BY <2>1, Single DEF Typed
<1>3. PICK B : B = S \cup {x}
  OBVIOUS
<1>4. now \in Seq(B) /\ x \in B /\ Len(now) \in Nat
  BY <1>2, <1>3
<1>5. /\ Len(<<x>> \o now) = Len(now) + 1 /\ (<<x>> \o now)[1] = x
      /\ \A j \in 1..Len(now) : (<<x>> \o now)[j + 1] = now[j]
  BY <1>4, Prefixed
<1>6. now' = <<x>> \o now
  BY <1>1
<1>7. \A j \in 1..Len(now') : j = 1 \/ (j # 1 /\ j - 1 \in 1..Len(now) /\ now'[j] = now[j - 1])
  <2>1. \A j \in 1..(Len(now) + 1) : j = 1 \/ (j # 1 /\ j - 1 \in 1..Len(now) /\ (j - 1) + 1 = j)
    BY <1>4
  <2>2. QED
    BY <1>5, <1>6, <2>1
<1>8. QED
  BY <1>1, <1>5, <1>6, <1>7 DEF Answering

(* An operation succeeds                                                   *)
LEMMA TidySuccess ==
    ASSUME Types, Types', TidyInv, NEW i \in 1..Len(ops), replySuccess(i), UNCHANGED <<client, observed, calls>>
    PROVE  TidyInv'
<1>1. /\ now = <<>> /\ ops' = OpsWithout(i)
      /\ UNCHANGED <<posts, pending, channelStatus, preparation, channel, subscriptions, bound>>
  BY DEF replySuccess, connection, client, observed
<1>2. \/ usable' \subseteq usable
      \/ now = <<>> /\ ops[i].op = "open" /\ usable' \subseteq usable \cup {ops[i].ch}
  BY <1>1 DEF replySuccess
<1>3. PICK x : x = Reply(ops[i], "success")
  OBVIOUS
<1>4. now' = <<x>>
  BY <1>3 DEF replySuccess
<1>5. now'[1] = x /\ \A j \in 1..Len(now') : j = 1
  BY <1>4
<1>6. Answering(i, "success")
  BY <1>3, <1>5 DEF Answering
<1>7. PICK K : Others(K, i)
  BY <1>1, OthersStay
<1>8. \A j \in 1..Len(now) : now[j].do \notin Informs
  <2>1. 1..Len(now) = {}
    BY <1>1
  <2>2. QED
    BY <2>1
<1>9. QED
  BY <1>1, <1>2, <1>6, <1>7, <1>8, TidyAnswered

(* An operation has an error                                               *)
LEMMA TidyError ==
    ASSUME Types, Types', TidyInv, NEW i \in 1..Len(ops), NEW why, replyError(i, why),
           UNCHANGED <<client, observed, calls>>
    PROVE  TidyInv'
<1>1. /\ now = <<>> /\ ops' = OpsWithout(i) /\ usable' = usable \ {ops[i].ch}
      /\ UNCHANGED <<posts, pending, channelStatus, preparation, channel, subscriptions, bound>>
  BY DEF replyError, connection, client, observed
<1>2. PICK x, y : x = Reply(ops[i], why) /\ y = ChannelError(ops[i].ch, why)
  OBVIOUS
<1>3. now' = <<x, y>> /\ y.do = "channelError" /\ y.ch = ops[i].ch
  BY <1>2 DEF replyError, ChannelError
<1>4. now'[1] = x /\ \A j \in 1..Len(now') : j = 1 \/ (j # 1 /\ now'[j] = y)
  BY <1>3
<1>5. Answering(i, why)
  BY <1>1, <1>2, <1>3, <1>4 DEF Answering
<1>6. PICK K : Others(K, i)
  BY <1>1, OthersStay
<1>7. \A j \in 1..Len(now) : now[j].do \notin Informs
  <2>1. 1..Len(now) = {}
    BY <1>1
  <2>2. QED
    BY <2>1
<1>8. usable' \subseteq usable /\ ops[i].ch \notin usable'
  BY <1>1
<1>9. QED
  BY <1>1, <1>5, <1>6, <1>7, <1>8, TidyAnswered

(* Other operations of the channel fail as well                            *)
LEMMA TidyFailNext ==
    ASSUME Types, Types', TidyInv, NEW i \in 1..Len(ops), failNext(i), UNCHANGED <<client, observed, calls>>
    PROVE  TidyInv'
<1>1. /\ now # <<>> /\ Head(now).do = "channelError" /\ ops[i].ch = Head(now).ch
      /\ ops' = OpsWithout(i) /\ now' = <<Reply(ops[i], "error state")>> \o now
      /\ UNCHANGED <<posts, pending, channelStatus, preparation, channel, subscriptions, bound, usable>>
  BY DEF failNext, Runs, connection, client, observed
<1>2. Answering(i, "error state")
  BY <1>1, AnswerFirst
<1>3. PICK K : Others(K, i)
  BY <1>1, OthersStay
<1>4. now[1] = Head(now) /\ 1 \in 1..Len(now)
  BY <1>1, First
<1>5. \A j \in 1..Len(now) : now[j].do \notin Informs
  BY <1>1, <1>4 DEF TidyInv, CalmInv, Announcing, Informs
<1>6. ops[i].ch \notin usable'
  BY <1>1, <1>4 DEF TidyInv, CalmInv
<1>7. QED
  BY <1>1, <1>2, <1>3, <1>5, <1>6, TidyAnswered

(* Operations are lost with the connection                                 *)
LEMMA TidyLoseNext ==
    ASSUME Types, Types', TidyInv, loseNext, UNCHANGED <<client, observed, calls>>
    PROVE  TidyInv'
<1>1. /\ now # <<>> /\ Head(now).do = "fail"
      /\ UNCHANGED <<posts, pending, channelStatus, preparation, channel, subscriptions, bound, usable>>
  BY DEF loseNext, Runs, connection, client, observed
<1>2. PICK T : TypeOK /\ Typed(T)
  BY DEF Types
<1>3. CASE ops = <<>>
  <2>1. now' = Tail(now) /\ UNCHANGED ops
    BY <1>3 DEF loseNext
  <2>2. PICK S : now \in Seq(S)
    BY <1>2, Single DEF Typed
  <2>3. <<>> \o Tail(now) = Tail(now)
    BY <1>1, <2>2
  <2>4. Then(<<>>)
    BY <2>1, <2>3 DEF Then
  <2>5. Head(now).do \notin Announcing
    BY <1>1 DEF Announcing, Informs
  <2>6. QED
    BY <1>1, <2>1, <2>4, <2>5, TidyPublishing
<1>4. CASE ops # <<>>
  <2>1. ops' = Tail(ops) /\ now' = <<Reply(Head(ops), "connection lost")>> \o now
    BY <1>4 DEF loseNext
  <2>2. PICK S : ops \in Seq(S)
    BY <1>2 DEF Typed
  <2>3. Len(ops) \in Nat \ {0} /\ Head(ops) = ops[1] /\ 1 \in 1..Len(ops)
    <3>1. Len(ops) \in Nat \ {0}
      BY <1>4, <2>2, EmptySeq
    <3>2. QED
      BY <2>2, <3>1
  <2>4. Answering(1, "connection lost")
    BY <2>1, <2>3, AnswerFirst
  <2>5. PICK K : Others(K, 1)
    <3>0. Len(Tail(ops)) = Len(ops) - 1 /\ \A j \in 1..(Len(ops) - 1) : Tail(ops)[j] = ops[j + 1]
      BY <2>2, <2>3
    <3>1. Len(ops') = Len(ops) - 1 /\ \A j \in 1..Len(ops') : ops'[j] = ops[j + 1]
      BY <2>1, <3>0
    <3>2. PICK K : K = [j \in 1..Len(ops') |-> j + 1]
      OBVIOUS
    <3>3. \A j \in 1..Len(ops') : K[j] \in 1..Len(ops) /\ K[j] # 1 /\ ops'[j] = ops[K[j]]
      BY <2>3, <3>1, <3>2
    <3>4. \A j, k \in 1..Len(ops') : K[j] = K[k] => j = k
      BY <2>3, <3>1, <3>2
    <3>5. QED
      BY <3>3, <3>4 DEF Others
  <2>6. now[1] = Head(now) /\ 1 \in 1..Len(now)
    BY <1>1, First
  <2>7. \A j \in 1..Len(now) : now[j].do \notin Informs
    BY <1>1, <2>6 DEF TidyInv, CalmInv, Announcing, Informs
  <2>8. ops[1].ch \notin usable'
    BY <1>1, <2>6 DEF TidyInv, CalmInv
  <2>9. QED
    BY <1>1, <2>3, <2>4, <2>5, <2>7, <2>8, TidyAnswered
<1>5. QED
  BY <1>3, <1>4

-----------------------------------------------------------------------------
(* Subscriptions that are READY are bound                                  *)

(* Mishaps are not forgotten                                               *)
LEMMA MishapsStay ==
    ASSUME TypeOK, Next
    PROVE  mishaps \subseteq mishaps'
<1>1. \A b, m : Note(b, m) => mishaps \subseteq mishaps'
  BY DEF Note
<1>2. CASE ConnectionStep \/ Disturbance
  BY <1>2 DEF ConnectionStep, Disturbance, observed
<1>3. CASE Calling
  BY <1>3 DEF Calling, callSubscribe, callUnsubscribe, callUnsubscribeAll, callPublish, observed
<1>4. CASE channelFailed \/ preparationFails \/ asyncSubscribe \/ reviveIfReconnected
  BY <1>1, <1>4 DEF channelFailed, preparationFails, asyncSubscribe, reviveIfReconnected
<1>5. CASE channelCreated \/ queueDeclared \/ consumerCreated \/ channelErrorHandler
  BY <1>5 DEF channelCreated, queueDeclared, consumerCreated, channelErrorHandler, observed
<1>6. CASE \/ asyncUnsubscribe \/ asyncUnsubscribeAll \/ doSubscribePending \/ moveSubscriptionState
  BY <1>6 DEF asyncUnsubscribe, asyncUnsubscribeAll, doSubscribePending, moveSubscriptionState, observed
<1>7. CASE exchangeDeclared \/ queueBound \/ queueUnbound
  BY <1>7 DEF exchangeDeclared, queueBound, queueUnbound, observed
<1>8. CASE asyncPublish \/ publishPostponed \/ declaredToPublish \/ boundToPublish
  BY <1>8 DEF asyncPublish, publishPostponed, declaredToPublish, boundToPublish, observed
<1>9. CASE handler \/ answerDropped
  BY <1>9 DEF handler, answerDropped, observed
<1>10. QED
  BY <1>2, <1>3, <1>4, <1>5, <1>6, <1>7, <1>8, <1>9 DEF Next, ClientStep

(* Every step keeps it, unless a revival overlaps                          *)
LEMMA TidyStep ==
    ASSUME Types, Types', TidyInv, [Next]_vars, "overlap" \notin mishaps'
    PROVE  TidyInv'
<1>1. CASE UNCHANGED vars
  <2>1. UNCHANGED <<now, ops, posts, channelStatus, channel, usable, subscriptions, bound, pending,
                    preparation>>
    BY <1>1 DEF vars, connectionVars, connection, library, context, client, observed
  <2>2. QED
    BY <2>1, TidySame
<1>2. CASE ConnectionStep
  <2>1. UNCHANGED <<client, observed, calls>>
    BY <1>2 DEF ConnectionStep
  <2>2. CASE onReady
    BY <2>1, <2>2, TidyOnReady
  <2>3. CASE onLost
    BY <2>1, <2>3, TidyLost
  <2>4. CASE asyncConnect
    BY <2>1, <2>4, TidyConnect
  <2>5. CASE informReconnection(registered)
    BY <2>1, <2>5, TidyInform
  <2>6. CASE doCreateChannel
    BY <2>1, <2>6, TidyCreateChannel
  <2>7. CASE runPosted
    BY <2>1, <2>7, TidyRunPosted
  <2>8. CASE \E i \in 1..Len(ops) : replySuccess(i)
    BY <2>1, <2>8, TidySuccess
  <2>9. CASE \E i \in 1..Len(ops) : failNext(i)
    BY <2>1, <2>9, TidyFailNext
  <2>10. CASE loseNext
    BY <2>1, <2>10, TidyLoseNext
  <2>11. QED
    BY <1>2, <2>2, <2>3, <2>4, <2>5, <2>6, <2>7, <2>8, <2>9, <2>10 DEF ConnectionStep
<1>3. CASE ClientStep
  <2>1. CASE reviveIfReconnected
    <3>1. ~Overlaps
      BY <2>1 DEF reviveIfReconnected, Note
    <3>2. QED
      BY <2>1, <3>1, TidyRevive
  <2>2. CASE channelCreated \/ channelFailed \/ preparationFails \/ queueDeclared \/ consumerCreated
    BY <2>2, TidyChannelCreated, TidyChannelFailed, TidyPreparationFails, TidyQueueDeclared,
       TidyConsumerCreated
  <2>3. CASE channelErrorHandler \/ handler \/ answerDropped
    BY <2>3, TidyChannelError, TidyHandler, TidyDropped
  <2>4. CASE asyncSubscribe \/ asyncUnsubscribe \/ asyncUnsubscribeAll
    BY <2>4, TidySubscribe, TidyUnsubscribe, TidyUnsubscribeAll
  <2>5. CASE doSubscribePending \/ moveSubscriptionState \/ exchangeDeclared \/ queueBound \/ queueUnbound
    BY <2>5, TidySubscribePending, TidyMove, TidyExchangeDeclared, TidyQueueBound, TidyQueueUnbound
  <2>6. CASE asyncPublish \/ publishPostponed \/ declaredToPublish \/ boundToPublish
    BY <2>6, TidyPublish, TidyPublishPostponed, TidyDeclaredToPublish, TidyBoundToPublish
  <2>7. QED
    BY <1>3, <2>1, <2>2, <2>3, <2>4, <2>5, <2>6 DEF ClientStep
<1>4. CASE Disturbance
  <2>1. UNCHANGED <<client, observed, calls>>
    BY <1>4 DEF Disturbance
  <2>2. CASE connectFails \/ connectionBreaks
    BY <2>1, <2>2, TidyConnectFails, TidyBreaks
  <2>3. CASE \E i \in 1..Len(ops), why \in {"retry", "other"} : replyError(i, why)
    BY <2>1, <2>3, TidyError
  <2>4. QED
    BY <1>4, <2>2, <2>3 DEF Disturbance
<1>5. CASE Calling
  BY <1>5, TidyCall
<1>6. QED
  BY <1>1, <1>2, <1>3, <1>4, <1>5 DEF Next

(* Nothing is under way at first                                           *)
LEMMA TidyInit ==
    ASSUME Init
    PROVE  TidyInv
<1>1. /\ 1..Len(ops) = {} /\ 1..Len(now) = {} /\ 1..Len(posts) = {} /\ pending = 0 /\ usable = {}
      /\ \A s \in Subscriptions : subscriptions[s] = "none"
  BY DEF Init, ConnectionInit
<1>2. TokenInv
  BY <1>1 DEF TokenInv, TokenInOps, TokenInNow, TokenInPosts
<1>3. CalmInv
  BY <1>1 DEF CalmInv
<1>4. \A s \in Subscriptions : WorkInv(s) /\ BindingInv(s) /\ FreshInv(s)
  BY <1>1 DEF WorkInv, BindingInv, FreshInv
<1>5. QED
  BY <1>2, <1>3, <1>4 DEF TidyInv

(* Until a revival overlaps with something else: one preparation, one step *)
(* under way per subscription, and bindings as the status tells            *)
THEOREM Invariance == Spec => [](Types /\ OrderInv /\ BoundInv)
<1>1. Init => BoundInv
  BY TidyInit DEF BoundInv
<1>2. Types /\ Types' /\ BoundInv /\ [Next]_vars => BoundInv'
  <2> SUFFICES ASSUME Types, Types', BoundInv, [Next]_vars, "overlap" \notin mishaps'
               PROVE  TidyInv'
    BY DEF BoundInv
  <2>1. mishaps \subseteq mishaps'
    <3>1. CASE UNCHANGED vars
      BY <3>1 DEF vars, observed
    <3>2. CASE Next
      BY <3>2, MishapsStay DEF Types
    <3>3. QED
      BY <3>1, <3>2
  <2>2. TidyInv
    BY <2>1 DEF BoundInv
  <2>3. QED
    BY <2>2, TidyStep
<1>3. QED
  BY <1>1, <1>2, OrderInvariance, PTL DEF Spec

(* A subscription counts as READY exactly if the broker has bound the      *)
(* queue of the channel for it, through all losses of channels and of the  *)
(* connection (AmqpClient.cc), with the exception of a revival that meets  *)
(* something under way                                                     *)
THEOREM SubscribedAreBound == Spec => []SubscribedIsBound
<1>1. Types /\ OrderInv /\ BoundInv => SubscribedIsBound
  BY DEF BoundInv, TidyInv, BindingInv, SubscribedIsBound
<1>2. QED
  BY <1>1, Invariance, PTL
=============================================================================
