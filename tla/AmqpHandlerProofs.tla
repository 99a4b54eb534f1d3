------------------------- MODULE AmqpHandlerProofs -------------------------
(***************************************************************************)
(* Proofs about the handlers of the calls of AmqpClient, for any number of *)
(* calls, subscriptions, exchanges, messages and faults: each is called at *)
(* most once, and neither an empty handler nor an empty channel is used.   *)
(***************************************************************************)
EXTENDS AmqpClientProofs

(* What stands for a call of a handler: to tell the caller of one of n     *)
(* calls, or to note a subscription of one of k groups as done             *)
Tells(h) == h.do = "tell"
Notes(h) == h.do = "one done"
Telling(n) == [do : {"tell"}, n : 1..n]
Noting(k) == [do : {"one done"}, g : 1..k, s : Subscriptions]
Duties(n, k) == Telling(n) \cup Noting(k)

Combining == {"asyncSubscribe", "asyncUnsubscribe", "asyncUnsubscribeAll"}

(* The groups of reviveIfReconnected()                                     *)
Revivals == {g \in 1..Len(groups) : groups[g].hs = <<>>}

(* Parts of handlers and calls have duties, those that are combined of     *)
(* other parts have those of all of them, and no two of these share one.   *)
(* A part of a revival is never left to an unsubscription.                 *)
PartOwns(h, T, own, L) ==
    /\ Tells(h) \/ Notes(h) => h \in own[h]
    /\ h.do \in Combining =>
          /\ \A j \in 1..Len(h.hs) : h.hs[j] \in T /\ own[h.hs[j]] \subseteq own[h]
          /\ \A i, j \in 1..Len(h.hs) : i # j => own[h.hs[i]] \cap own[h.hs[j]] = {}
          /\ h.do # "asyncSubscribe" =>
                h.hs # <<>> /\ \A j \in 1..Len(h.hs) : Notes(h.hs[j]) => h.hs[j].g \notin L

Owning(T, own, n, k, L) ==
    own \in [T -> SUBSET Duties(n, k)] /\ \A h \in T : PartOwns(h, T, own, L)

(* Whether an item executes or passes on a handler, and which              *)
Bears(x) == x.do \in Combining \cup {"handler"}
Borne(x) == IF x.do = "handler" THEN x.h ELSE x

(* Each duty has one place "at", and there the number "of" and the         *)
(* position "ix": it is not in any other                                   *)
Queued(q, T, own, at, ix, place) ==
    \A i \in 1..Len(q) : Bears(q[i]) =>
        Borne(q[i]) \in T /\ \A t \in own[Borne(q[i])] : at[t] = place /\ ix[t] = i

Kept(hs, T, own, at, of, ix, place, x) ==
    \A j \in 1..Len(hs) :
        hs[j] \in T /\ \A t \in own[hs[j]] : at[t] = place /\ of[t] = x /\ ix[t] = j

(* What is done already                                                    *)
Fulfilled(t) == \/ Tells(t) /\ told[t.n] # 0
                \/ Notes(t) /\ t.s \notin groups[t.g].left

GroupsKept(T, own, at, of, ix) ==
    \A g \in 1..Len(groups) :
        /\ groups[g].left # {} => Kept(groups[g].hs, T, own, at, of, ix, "groups", g)
        /\ \A j \in 1..Len(groups[g].hs) :
              Notes(groups[g].hs[j]) => groups[g].hs[j].g \notin Revivals

ToldOnce == \A n \in 1..MaxCalls : told[n] \in {0, 1} /\ (n > called => told[n] = 0)

Held(T, own, at, of, ix) ==
    /\ Owning(T, own, called, Len(groups), Revivals)
    /\ Queued(now, T, own, at, ix, "now")
    /\ Queued(posts, T, own, at, ix, "posts")
    /\ \A s \in Subscriptions : Kept(handlers[s], T, own, at, of, ix, "handlers", s)
    /\ GroupsKept(T, own, at, of, ix)
    /\ \A t \in Duties(called, Len(groups)) : Fulfilled(t) => at[t] = "done"
    /\ ToldOnce

HeldInv == \E T, own, at, of, ix : Held(T, own, at, of, ix)

(* An item keeps its duties                                                *)
LEMMA OwnedDuties ==
    ASSUME NEW T, NEW own, NEW n, NEW k, NEW L, Owning(T, own, n, k, L), NEW h \in T, NEW t \in own[h]
    PROVE  t \in Duties(n, k)
BY DEF Owning

(* Most steps neither call nor pass on a handler                           *)
LEMMA HeldFrame ==
    ASSUME Lengths, HeldInv, NEW d \in Int,
           \A j \in 1..Len(now') : Bears(now'[j]) => j - d \in 1..Len(now) /\ now'[j] = now[j - d],
           \A j \in 1..Len(posts') : Bears(posts'[j]) => j \in 1..Len(posts) /\ posts'[j] = posts[j],
           \A s \in Subscriptions : handlers'[s] \in {handlers[s], <<>>},
           UNCHANGED <<groups, told, called>>
    PROVE  HeldInv'
<1>1. PICK T, own, at, of, ix : Held(T, own, at, of, ix)
  BY DEF HeldInv
<1> DEFINE D == Duties(called, Len(groups))
<1>2. Owning(T, own, called, Len(groups), Revivals)
  BY <1>1 DEF Held
<1>3. \A h \in T : \A t \in own[h] : t \in D
  BY <1>2, OwnedDuties
<1>4. PICK V : \A t \in D : (at[t] = "now" => V[t] = ix[t] + d) /\ (at[t] # "now" => V[t] = ix[t])
  <2>1. PICK V : V = [t \in D |-> IF at[t] = "now" THEN ix[t] + d ELSE ix[t]]
    OBVIOUS
  <2>2. QED
    BY <2>1
<1> HIDE DEF D
<1>5. Revivals' = Revivals
  BY DEF Revivals
<1>6. Owning(T, own, called', Len(groups'), Revivals')
  BY <1>2, <1>5
<1>7. Queued(now', T, own, at, V, "now")
  <2> SUFFICES ASSUME NEW j \in 1..Len(now'), Bears(now'[j])
               PROVE  Borne(now'[j]) \in T /\ \A t \in own[Borne(now'[j])] : at[t] = "now" /\ V[t] = j
    BY DEF Queued
  <2>1. j - d \in 1..Len(now) /\ now'[j] = now[j - d]
    OBVIOUS
  <2>2. PICK x : x = now'[j]
    OBVIOUS
  <2>3. Borne(x) \in T /\ \A t \in own[Borne(x)] : at[t] = "now" /\ ix[t] = j - d
    BY <1>1, <2>1, <2>2 DEF Held, Queued
  <2>4. \A t \in own[Borne(x)] : V[t] = j - d + d
    BY <1>3, <1>4, <2>3
  <2>5. j - d + d = j
    OBVIOUS
  <2>6. QED
    BY <2>2, <2>3, <2>4, <2>5
<1>8. Queued(posts', T, own, at, V, "posts")
  <2> SUFFICES ASSUME NEW j \in 1..Len(posts'), Bears(posts'[j])
               PROVE  Borne(posts'[j]) \in T /\ \A t \in own[Borne(posts'[j])] : at[t] = "posts" /\ V[t] = j
    BY DEF Queued
  <2>1. j \in 1..Len(posts) /\ posts'[j] = posts[j]
    OBVIOUS
  <2>2. Borne(posts[j]) \in T /\ \A t \in own[Borne(posts[j])] : at[t] = "posts" /\ ix[t] = j
    BY <1>1, <2>1 DEF Held, Queued
  <2>3. QED
    BY <1>3, <1>4, <2>1, <2>2
<1>9. ASSUME NEW hs, NEW p, p # "now", NEW x, Kept(hs, T, own, at, of, ix, p, x)
      PROVE  Kept(hs, T, own, at, of, V, p, x)
  BY <1>3, <1>4, <1>9 DEF Kept
<1>10. \A s \in Subscriptions : Kept(handlers'[s], T, own, at, of, V, "handlers", s)
  <2>1. \A s \in Subscriptions : Kept(handlers[s], T, own, at, of, V, "handlers", s)
    BY <1>1, <1>9 DEF Held
  <2>2. \A s : Kept(<<>>, T, own, at, of, V, "handlers", s)
    BY DEF Kept
  <2>3. QED
    BY <2>1, <2>2
<1>11. GroupsKept(T, own, at, of, V)'
  BY <1>1, <1>5, <1>9 DEF Held, GroupsKept
<1>12. ToldOnce' /\ \A t \in Duties(called', Len(groups')) : Fulfilled(t)' => at[t] = "done"
  BY <1>1 DEF Held, ToldOnce, Fulfilled
<1>13. Held(T, own, at, of, V)'
  BY <1>6, <1>7, <1>8, <1>10, <1>11, <1>12 DEF Held
<1>14. QED
  BY <1>13 DEF HeldInv


(* What is executed and posted: nothing new that bears a handler           *)
NowPlain ==
    \E d \in Int : \A j \in 1..Len(now') :
        Bears(now'[j]) => j - d \in 1..Len(now) /\ now'[j] = now[j - d]
PostsPlain ==
    \A j \in 1..Len(posts') : Bears(posts'[j]) => j \in 1..Len(posts) /\ posts'[j] = posts[j]

(* Such a step, if it does not change handlers either                      *)
LEMMA HeldPlain ==
    ASSUME Types, Types', HeldInv, NowPlain, PostsPlain, UNCHANGED <<handlers, groups, told, called>>
    PROVE  HeldInv'
<1>1. Lengths
  BY HasLengths
<1>2. PICK d \in Int : \A j \in 1..Len(now') :
         Bears(now'[j]) => j - d \in 1..Len(now) /\ now'[j] = now[j - d]
  BY DEF NowPlain
<1>3. \A s \in Subscriptions : handlers'[s] \in {handlers[s], <<>>}
  OBVIOUS
<1>4. QED
  BY <1>1, <1>2, <1>3, HeldFrame DEF PostsPlain

(* Which items bear no handler                                             *)
LEMMA BearsNot ==
    /\ \A w : w \notin Combining \cup {"handler"} => ~Bears(Do(w))
    /\ \A o, w : ~Bears(Reply(o, w))
    /\ \A c, w : ~Bears(ChannelError(c, w))
    /\ \A b : ~Bears(Inform(b))
    /\ \A c : ~Bears(ChannelResult(c))
    /\ \A s : ~Bears(Move(s))
    /\ \A m : ~Bears(Publish(m))
BY DEF Bears, Combining, Do, Reply, ChannelError, Inform, ChannelResult, Move, Publish

(* The function that runs calls such functions                             *)
LEMMA ThenPlain ==
    ASSUME Types, now # <<>>, NEW R, NEW items \in Seq(R), Then(items),
           \A j \in 1..Len(items) : ~Bears(items[j])
    PROVE  NowPlain
<1>1. /\ Len(items) \in Nat /\ Len(items) - 1 \in Int
      /\ Len(now) \in Nat /\ Len(now') = Len(items) + Len(now) - 1
      /\ Follows(Len(items) - 1, Len(items), 1)
      /\ \A j \in 1..Len(now') : j <= Len(items) => j \in 1..Len(items) /\ now'[j] = items[j]
  BY Spliced
<1>2. \A j \in 1..Len(now') : Bears(now'[j]) => j > Len(items)
  BY <1>1
<1>3. PICK d \in Int : d = Len(items) - 1
  BY <1>1
<1>4. \A j \in 1..Len(now') : Bears(now'[j]) => j - d \in 1..Len(now) /\ now'[j] = now[j - d]
  BY <1>1, <1>2, <1>3 DEF Follows
<1>5. QED
  BY <1>4 DEF NowPlain

(* At most two of them                                                     *)
LEMMA ThenFew ==
    ASSUME Types, now # <<>>,
           \/ Then(<<>>)
           \/ \E x : ~Bears(x) /\ Then(<<x>>)
           \/ \E x, y : ~Bears(x) /\ ~Bears(y) /\ Then(<<x, y>>)
    PROVE  NowPlain
<1>1. CASE Then(<<>>)
  <2>1. <<>> \in Seq({}) /\ 1..Len(<<>>) = {}
    OBVIOUS
  <2>2. QED
    BY <1>1, <2>1, ThenPlain
<1>2. CASE \E x : ~Bears(x) /\ Then(<<x>>)
  <2>1. PICK x : ~Bears(x) /\ Then(<<x>>)
    BY <1>2
  <2>2. <<x>> \in Seq({x}) /\ \A j \in 1..Len(<<x>>) : <<x>>[j] = x
    OBVIOUS
  <2>3. QED
    BY <2>1, <2>2, ThenPlain
<1>3. CASE \E x, y : ~Bears(x) /\ ~Bears(y) /\ Then(<<x, y>>)
  <2>1. PICK x, y : ~Bears(x) /\ ~Bears(y) /\ Then(<<x, y>>)
    BY <1>3
  <2>2. <<x, y>> \in Seq({x, y}) /\ \A j \in 1..Len(<<x, y>>) : <<x, y>>[j] \in {x, y}
    OBVIOUS
  <2>3. QED
    BY <2>1, <2>2, ThenPlain
<1>4. QED
  BY <1>1, <1>2, <1>3

(* Nothing is executed, and then functions that bear no handler            *)
LEMMA NowMade ==
    ASSUME \A j \in 1..Len(now') : ~Bears(now'[j])
    PROVE  NowPlain
BY DEF NowPlain

(* What is executed stays as it is, or gets one more function in front     *)
LEMMA NowStays ==
    ASSUME Types, now' = now \/ \E x : ~Bears(x) /\ now' = <<x>> \o now
    PROVE  NowPlain
<1>1. PICK S : now \in Seq(S)
  BY Single DEF Types, Typed
<1>2. CASE now' = now
  <2>1. PICK d \in Int : d = 0
    OBVIOUS
  <2>2. \A j \in 1..Len(now') : j - d \in 1..Len(now) /\ now'[j] = now[j - d]
    BY <1>1, <1>2, <2>1
  <2>3. QED
    BY <2>2 DEF NowPlain
<1>3. CASE \E x : ~Bears(x) /\ now' = <<x>> \o now
  <2>1. PICK x : ~Bears(x) /\ now' = <<x>> \o now
    BY <1>3
  <2>2. PICK R : R = S \cup {x}
    OBVIOUS
  <2>3. now \in Seq(R) /\ x \in R
    BY <1>1, <2>2, LargerSeq
  <2>4. /\ Len(now') = Len(now) + 1 /\ now'[1] = x /\ Len(now) \in Nat
        /\ \A j \in 1..Len(now) : now'[j + 1] = now[j]
    BY <2>1, <2>3, Prefixed
  <2>5. \A j \in 1..Len(now') : j = 1 \/ (j - 1 \in 1..Len(now) /\ j = (j - 1) + 1)
    BY <2>4
  <2>6. \A j \in 1..Len(now') : Bears(now'[j]) => j - 1 \in 1..Len(now) /\ now'[j] = now[j - 1]
    BY <2>1, <2>4, <2>5
  <2>7. QED
    BY <2>6 DEF NowPlain
<1>4. QED
  BY <1>2, <1>3

(* Nothing is posted, or one function that bears no handler                *)
LEMMA PostsStay ==
    ASSUME Types, posts' = posts \/ \E x : ~Bears(x) /\ posts' = Append(posts, x)
    PROVE  PostsPlain
<1>1. PICK S : posts \in Seq(S)
  BY DEF Types, Typed
<1>2. CASE posts' = posts
  BY <1>2 DEF PostsPlain
<1>3. CASE \E x : ~Bears(x) /\ posts' = Append(posts, x)
  <2>1. PICK x : ~Bears(x) /\ posts' = Append(posts, x)
    BY <1>3
  <2>2. /\ Len(posts) \in Nat /\ Len(posts') = Len(posts) + 1
        /\ \A i \in 1..Len(posts) : posts'[i] = posts[i]
        /\ posts'[Len(posts) + 1] = x
    BY <1>1, <2>1, AppendedAny
  <2>3. \A j \in 1..Len(posts') : j \in 1..Len(posts) \/ j = Len(posts) + 1
    BY <2>2
  <2>4. QED
    BY <2>1, <2>2, <2>3 DEF PostsPlain
<1>4. QED
  BY <1>2, <1>3

(* Steps of the connection, the library and the broker                     *)
LEMMA HeldConnection ==
    ASSUME Types, Types', HeldInv, ConnectionStep \/ Disturbance, ~runPosted
    PROVE  HeldInv'
<1>1. UNCHANGED <<handlers, groups, told, called>>
  BY DEF ConnectionStep, Disturbance, client, observed, calls
<1>2. ASSUME NEW b \in BOOLEAN, callOnComplete(b)
      PROVE  NowPlain
  <2>1. PICK x, y : /\ ~Bears(x) /\ ~Bears(y)
                    /\ now' = Repeat(onComplete, x) \o Repeat(pending, y)
    <3>1. ~Bears(Inform(b)) /\ ~Bears(IF b THEN Do("createChannel") ELSE ChannelResult(0))
      BY BearsNot DEF Combining
    <3>2. QED
      BY <1>2, <3>1 DEF callOnComplete
  <2>2. onComplete \in Nat /\ pending \in Nat
    BY DEF Types, TypeOK
  <2>3. Repeat(onComplete, x) \in Seq({x, y}) /\ Repeat(pending, y) \in Seq({x, y})
    BY <2>2 DEF Repeat
  <2>4. now' \in Seq({x, y})
    BY <2>1, <2>3
  <2>5. \A j \in 1..Len(now') : now'[j] \in {x, y}
    BY <2>4
  <2>6. QED
    BY <2>1, <2>5, NowMade
<1>3. CASE onReady \/ connectFails
  <2>1. PostsPlain
    BY <1>3, PostsStay DEF onReady, connectFails
  <2>2. NowPlain
    BY <1>2, <1>3, NowStays DEF onReady, connectFails
  <2>3. QED
    BY <1>1, <2>1, <2>2, HeldPlain
<1>4. CASE onLost \/ asyncConnect
  <2>1. PostsPlain
    BY <1>4, PostsStay, BearsNot DEF onLost, asyncConnect, context
  <2>2. NowPlain
    BY <1>4, NowStays DEF onLost, asyncConnect, context
  <2>3. QED
    BY <1>1, <2>1, <2>2, HeldPlain
<1>5. CASE informReconnection(registered)
  <2>1. PostsPlain
    BY <1>5, PostsStay DEF informReconnection
  <2>2. NowPlain
    <3>1. PICK S : now \in Seq(S)
      BY Single DEF Types, Typed
    <3>2. now # <<>> /\ Tail(now) \in Seq(S)
      BY <1>5, <3>1 DEF informReconnection, Runs
    <3>3. <<>> \o Tail(now) = Tail(now)
      BY <3>2
    <3>4. Then(<<>>) \/ Then(<<Do("reviveIfReconnected")>>)
      BY <1>5, <3>3 DEF informReconnection, Then
    <3>5. ~Bears(Do("reviveIfReconnected"))
      BY BearsNot DEF Combining
    <3>6. QED
      BY <3>2, <3>4, <3>5, ThenFew
  <2>3. QED
    BY <1>1, <2>1, <2>2, HeldPlain
<1>6. CASE doCreateChannel
  <2>1. PostsPlain
    BY <1>6, PostsStay, BearsNot DEF doCreateChannel
  <2>2. NowPlain
    <3>1. PICK S : now \in Seq(S)
      BY Single DEF Types, Typed
    <3>2. now # <<>> /\ Tail(now) \in Seq(S)
      BY <1>6, <3>1 DEF doCreateChannel, Runs
    <3>3. <<>> \o Tail(now) = Tail(now)
      BY <3>2
    <3>4. Then(<<>>)
      BY <1>6, <3>3 DEF doCreateChannel, Then
    <3>5. QED
      BY <3>2, <3>4, ThenFew
  <2>3. QED
    BY <1>1, <2>1, <2>2, HeldPlain
<1>7. CASE loseNext \/ \E i \in 1..Len(ops) : failNext(i)
  <2>1. PostsPlain
    <3>1. posts' = posts
      BY <1>7, Zenon DEF loseNext, failNext
    <3>2. QED
      BY <3>1, PostsStay
  <2>2. CASE now' = Tail(now) /\ now # <<>>
    <3>1. PICK S : now \in Seq(S)
      BY Single DEF Types, Typed
    <3>2. Tail(now) \in Seq(S)
      BY <2>2, <3>1
    <3>3. <<>> \o Tail(now) = Tail(now)
      BY <3>2
    <3>4. NowPlain
      BY <2>2, <3>3, ThenFew DEF Then
    <3>5. QED
      BY <1>1, <2>1, <3>4, HeldPlain
  <2>3. CASE \E x : ~Bears(x) /\ now' = <<x>> \o now
    BY <1>1, <2>1, <2>3, NowStays, HeldPlain
  <2>4. CASE loseNext
    <3>1. CASE ops = <<>>
      BY <2>2, <2>4, <3>1 DEF loseNext, Runs
    <3>2. CASE ops # <<>>
      <4>1. now' = <<Reply(Head(ops), "connection lost")>> \o now
        BY <2>4, <3>2, Zenon DEF loseNext
      <4>2. QED
        BY <2>3, <4>1, BearsNot, Zenon
    <3>3. QED
      BY <3>1, <3>2
  <2>5. CASE \E i \in 1..Len(ops) : failNext(i)
    <3>1. PICK i \in 1..Len(ops) : now' = <<Reply(ops[i], "error state")>> \o now
      BY <2>5, Zenon DEF failNext
    <3>2. QED
      BY <2>3, <3>1, BearsNot, Zenon
  <2>6. QED
    BY <1>7, <2>4, <2>5
<1>8. CASE \/ \E i \in 1..Len(ops) : replySuccess(i)
           \/ \E i \in 1..Len(ops), why \in {"retry", "other"} : replyError(i, why)
           \/ connectionBreaks
  <2>1. PostsPlain
    BY <1>8, PostsStay DEF replySuccess, replyError, connectionBreaks
  <2>2. CASE \E x : ~Bears(x) /\ now' = <<x>>
    <3>1. NowPlain
      BY <2>2, NowMade
    <3>2. QED
      BY <1>1, <2>1, <3>1, HeldPlain
  <2>3. CASE \E x, y : ~Bears(x) /\ ~Bears(y) /\ now' = <<x, y>>
    <3>1. NowPlain
      BY <2>3, NowMade
    <3>2. QED
      BY <1>1, <2>1, <3>1, HeldPlain
  <2>4. CASE \E i \in 1..Len(ops) : replySuccess(i)
    BY <2>2, <2>4, BearsNot DEF replySuccess
  <2>5. CASE \E i \in 1..Len(ops), why \in {"retry", "other"} : replyError(i, why)
    BY <2>3, <2>5, BearsNot DEF replyError
  <2>6. CASE connectionBreaks
    <3>1. ~Bears(Do("fail"))
      BY BearsNot DEF Combining
    <3>2. QED
      BY <2>2, <2>6, <3>1 DEF connectionBreaks
  <2>7. QED
    BY <1>8, <2>4, <2>5, <2>6
<1>9. QED
  BY <1>3, <1>4, <1>5, <1>6, <1>7, <1>8 DEF ConnectionStep, Disturbance


(* An operation on the channel                                             *)
LEMMA OperationPlain ==
    ASSUME Types, now # <<>>, NEW o, Operation(o, <<>>)
    PROVE  NowPlain
<1>1. Then(<<>>) \/ Then(<<Reply(o, "not sent")>>)
  BY Operated, Zenon
<1>2. QED
  BY <1>1, BearsNot, ThenFew, Zenon

(* The preparation of the channel                                          *)
LEMMA HeldPreparing ==
    ASSUME Types, Types', HeldInv,
           channelCreated \/ channelFailed \/ preparationFails \/ queueDeclared \/ consumerCreated
              \/ channelErrorHandler
    PROVE  HeldInv'
<1>1. UNCHANGED <<handlers, groups, told, called>>
  BY Zenon DEF channelCreated, channelFailed, preparationFails, queueDeclared, consumerCreated,
         channelErrorHandler, client, observed, calls
<1>2. /\ ~Bears(Do("createChannel")) /\ ~Bears(Do("doSubscribePending"))
      /\ ~Bears(Do("publishPostponed")) /\ ~Bears(Do("reviveIfReconnected"))
  BY BearsNot DEF Combining
<1>3. PostsPlain
  <2>1. posts' = posts \/ posts' = Append(posts, Do("reviveIfReconnected"))
    BY Zenon DEF channelCreated, channelFailed, preparationFails, queueDeclared, consumerCreated,
           channelErrorHandler
  <2>2. QED
    BY <1>2, <2>1, PostsStay
<1>4. now # <<>>
  BY Zenon DEF channelCreated, channelFailed, preparationFails, queueDeclared, consumerCreated,
         channelErrorHandler, Answered, Runs
<1>5. NowPlain
  <2>1. CASE queueDeclared
    <3>1. PICK o : Operation(o, <<>>)
      BY <2>1 DEF queueDeclared
    <3>2. QED
      BY <1>4, <3>1, OperationPlain
  <2>2. CASE channelCreated \/ channelErrorHandler
    <3>1. Then(<<>>)
      BY <2>2 DEF channelCreated, channelErrorHandler
    <3>2. QED
      BY <1>4, <3>1, ThenFew
  <2>3. CASE channelFailed \/ preparationFails \/ consumerCreated
    <3>1. Then(<<>>) \/ Then(<<Do("createChannel")>>) \/ Then(<<Do("doSubscribePending")>>)
             \/ Then(<<Do("publishPostponed")>>)
      <4>1. callPreparation(FALSE) => Then(<<>>)
        BY DEF callPreparation
      <4>2. callPreparation(TRUE) => Then(<<Do("doSubscribePending")>>) \/ Then(<<Do("publishPostponed")>>)
        BY DEF callPreparation
      <4>3. callPreparation(FALSE) \/ callPreparation(TRUE) \/ asyncPrepareChannel(preparation)
        BY <2>3, Zenon DEF channelFailed, preparationFails, consumerCreated
      <4>4. QED
        BY <4>1, <4>2, <4>3 DEF asyncPrepareChannel
    <3>2. QED
      BY <1>2, <1>4, <3>1, ThenFew
  <2>4. QED
    BY <2>1, <2>2, <2>3
<1>6. QED
  BY <1>1, <1>3, <1>5, HeldPlain

(* Publishing                                                              *)
LEMMA HeldPublishing ==
    ASSUME Types, Types', HeldInv,
           asyncPublish \/ publishPostponed \/ declaredToPublish \/ boundToPublish
              \/ answerDropped
    PROVE  HeldInv'
<1>1. UNCHANGED <<posts, handlers, groups, told, called>>
  BY Zenon DEF asyncPublish, publishPostponed, declaredToPublish, boundToPublish, answerDropped,
         client, observed, calls
<1>2. ~Bears(Do("createChannel")) /\ ~Bears(Do("publishPostponed"))
  BY BearsNot DEF Combining
<1>3. PostsPlain
  BY <1>1, PostsStay
<1>4. now # <<>>
  BY Zenon DEF asyncPublish, publishPostponed, declaredToPublish, boundToPublish, answerDropped, Answered, Runs
<1>5. \/ now' = now \/ Then(<<>>) \/ Then(<<Do("createChannel")>>) \/ Then(<<Do("publishPostponed")>>)
      \/ \E o : Operation(o, <<>>)
  <2>1. CASE asyncPublish
    BY <2>1, Zenon DEF asyncPublish, asyncPrepareChannel, asyncPrepareExchangeThenPublish
  <2>2. CASE publishPostponed
    BY <2>2, Zenon DEF publishPostponed, asyncPrepareExchangeThenPublish
  <2>3. CASE declaredToPublish \/ boundToPublish \/ answerDropped
    BY <2>3, Zenon DEF declaredToPublish, boundToPublish, answerDropped
  <2>4. QED
    BY <2>1, <2>2, <2>3
<1>6. NowPlain
  BY <1>2, <1>4, <1>5, NowStays, ThenFew, OperationPlain
<1>7. QED
  BY <1>1, <1>3, <1>6, HeldPlain

(* asyncPublish() is called                                                *)
LEMMA HeldCallPublish ==
    ASSUME Types, Types', HeldInv, callPublish
    PROVE  HeldInv'
<1>1. UNCHANGED <<now, handlers, groups, told, called>>
  BY DEF callPublish, client, observed
<1>2. PostsPlain
  BY BearsNot, PostsStay DEF callPublish
<1>3. NowPlain
  BY <1>1, NowStays
<1>4. QED
  BY <1>1, <1>2, <1>3, HeldPlain

(* Pending subscriptions, and exchanges and queues of subscriptions        *)
LEMMA HeldPending ==
    ASSUME Types, Types', HeldInv, doSubscribePending \/ moveSubscriptionState
    PROVE  HeldInv'
<1>1. UNCHANGED <<posts, handlers, groups, told, called>>
  BY DEF doSubscribePending, moveSubscriptionState, observed, calls
<1>2. PostsPlain
  BY <1>1, PostsStay
<1>3. now # <<>>
  BY DEF doSubscribePending, moveSubscriptionState, Runs
<1>4. CASE moveSubscriptionState
  <2>1. PICK o : Operation(o, <<>>)
    BY <1>4 DEF moveSubscriptionState
  <2>2. QED
    BY <1>1, <1>2, <1>3, <2>1, OperationPlain, HeldPlain
<1>5. CASE doSubscribePending
  <2> DEFINE todo == {s \in Subscriptions : subscriptions[s] = "PENDING"}
             order == SetToSeq(todo)
             items == [i \in 1..Len(order) |-> Move(order[i])]
  <2>1. Then(items)
    BY <1>5 DEF doSubscribePending
  <2>2. IsFiniteSet(todo)
    <3>1. todo \subseteq Subscriptions
      OBVIOUS
    <3>2. QED
      BY <3>1, ClientAssumption, FS_Subset
  <2>3. order \in Seq(todo)
    BY <2>2, OrderTyped
  <2> HIDE DEF todo, order
  <2>4. Len(order) \in Nat
    BY <2>3
  <2> DEFINE R == {Move(order[i]) : i \in 1..Len(order)}
  <2>5. items \in Seq(R) /\ Len(items) = Len(order) /\ \A j \in 1..Len(items) : items[j] = Move(order[j])
    BY <2>4
  <2> HIDE DEF items, R
  <2>6. NowPlain
    BY <1>3, <2>1, <2>5, BearsNot, ThenPlain
  <2>7. QED
    BY <1>1, <1>2, <2>6, HeldPlain
<1>6. QED
  BY <1>4, <1>5


(* Records with the same fields                                            *)
LEMMA NotingRecords ==
    ASSUME NEW c, NEW G, NEW S
    PROVE  /\ \A x \in [do : {c}, g : G, s : S] : x.do = c /\ x.g \in G /\ x.s \in S
           /\ \A g \in G, s \in S : [do |-> c, g |-> g, s |-> s] \in [do : {c}, g : G, s : S]
           /\ \A g, s : /\ [do |-> c, g |-> g, s |-> s].do = c
                       /\ [do |-> c, g |-> g, s |-> s].g = g
                       /\ [do |-> c, g |-> g, s |-> s].s = s
           /\ \A H : G \subseteq H => [do : {c}, g : G, s : S] \subseteq [do : {c}, g : H, s : S]
           /\ \A x \in [do : {c}, g : G, s : S] : x = [do |-> c, g |-> x.g, s |-> x.s]
OBVIOUS

(* What is known of a duty                                                 *)
LEMMA DutyFacts ==
    ASSUME NEW n, NEW k, NEW t \in Duties(n, k)
    PROVE  \/ Tells(t) /\ t.n \in 1..n /\ t \in Telling(n)
           \/ Notes(t) /\ t.g \in 1..k /\ t.s \in Subscriptions /\ t = OneDone(t.g, t.s)
<1>1. CASE t \in Telling(n)
  BY <1>1 DEF Telling, Tells
<1>2. CASE t \in Noting(k)
  BY <1>2, NotingRecords, Zenon DEF Noting, Notes, OneDone
<1>3. QED
  BY <1>1, <1>2, Zenon DEF Duties

(* Duties that are made                                                    *)
LEMMA DutiesMade ==
    ASSUME NEW n, NEW k
    PROVE  /\ \A m \in 1..n : Tell(m) \in Duties(n, k)
           /\ \A g \in 1..k, s \in Subscriptions : OneDone(g, s) \in Duties(n, k)
           /\ \A m : Tells(Tell(m)) /\ Tell(m).n = m
           /\ \A g, s : Notes(OneDone(g, s)) /\ OneDone(g, s).g = g /\ OneDone(g, s).s = s
<1>1. \A m \in 1..n : Tell(m) \in Telling(n)
  BY DEF Telling, Tell
<1>2. \A g \in 1..k, s \in Subscriptions : OneDone(g, s) \in Noting(k)
  BY NotingRecords, Zenon DEF Noting, OneDone
<1>3. \A m : Tells(Tell(m)) /\ Tell(m).n = m
  BY DEF Tells, Tell
<1>4. \A g, s : Notes(OneDone(g, s)) /\ OneDone(g, s).g = g /\ OneDone(g, s).s = s
  BY NotingRecords, Zenon DEF Notes, OneDone
<1>5. QED
  BY <1>1, <1>2, <1>3, <1>4, Zenon DEF Duties

(* Parts are either duties or combined                                     *)
LEMMA DutyKinds ==
    ASSUME NEW h
    PROVE  /\ ~(Tells(h) /\ Notes(h))
           /\ Tells(h) \/ Notes(h) => h.do \notin Combining
BY Zenon DEF Tells, Notes, Combining

(* More calls and groups make more duties                                  *)
LEMMA DutiesGrow ==
    ASSUME NEW n \in Nat, NEW m \in Nat, n <= m, NEW k \in Nat, NEW l \in Nat, k <= l
    PROVE  Duties(n, k) \subseteq Duties(m, l)
<1>1. 1..n \subseteq 1..m /\ 1..k \subseteq 1..l
  OBVIOUS
<1>2. Telling(n) \subseteq Telling(m)
  BY <1>1 DEF Telling
<1>3. Noting(k) \subseteq Noting(l)
  BY <1>1, NotingRecords, Zenon DEF Noting
<1>4. QED
  BY <1>2, <1>3, Zenon DEF Duties

(* New parts of handlers                                                   *)
LEMMA OwningGrows ==
    ASSUME NEW T, NEW own, NEW n, NEW k, NEW L, Owning(T, own, n, k, L),
           NEW m, NEW l, NEW M, \A g \in M : g \in L \/ g \notin 1..k,
           NEW U, T \subseteq U, NEW f \in [U -> SUBSET Duties(m, l)], \A h \in T : f[h] = own[h],
           \A h \in U \ T : PartOwns(h, U, f, M)
    PROVE  Owning(U, f, m, l, M)
<1>1. ASSUME NEW h \in T
      PROVE  PartOwns(h, U, f, M)
  <2>1. PartOwns(h, T, own, L) /\ f[h] = own[h]
    BY DEF Owning
  <2>2. Tells(h) \/ Notes(h) => h \in f[h]
    BY <2>1 DEF PartOwns
  <2>3. ASSUME h.do \in Combining
        PROVE  /\ \A j \in 1..Len(h.hs) : h.hs[j] \in U /\ f[h.hs[j]] \subseteq f[h]
               /\ \A i, j \in 1..Len(h.hs) : i # j => f[h.hs[i]] \cap f[h.hs[j]] = {}
               /\ h.do # "asyncSubscribe" =>
                     h.hs # <<>> /\ \A j \in 1..Len(h.hs) : Notes(h.hs[j]) => h.hs[j].g \notin M
    <3>1. /\ \A j \in 1..Len(h.hs) : h.hs[j] \in T /\ own[h.hs[j]] \subseteq own[h]
          /\ \A i, j \in 1..Len(h.hs) : i # j => own[h.hs[i]] \cap own[h.hs[j]] = {}
          /\ h.do # "asyncSubscribe" =>
                h.hs # <<>> /\ \A j \in 1..Len(h.hs) : Notes(h.hs[j]) => h.hs[j].g \notin L
      BY <2>1, <2>3 DEF PartOwns
    <3>2. \A j \in 1..Len(h.hs) : f[h.hs[j]] = own[h.hs[j]]
      BY <3>1
    <3>3. ASSUME NEW j \in 1..Len(h.hs), Notes(h.hs[j]), h.hs[j].g \notin L
          PROVE  h.hs[j].g \notin M
      <4>1. PICK p : p = h.hs[j]
        OBVIOUS
      <4>2. p \in own[p] /\ p \in T /\ ~Tells(p)
        BY <3>1, <3>3, <4>1, DutyKinds DEF Owning, PartOwns
      <4>3. p.g \in 1..k
        BY <4>2, OwnedDuties, DutyFacts
      <4>4. QED
        BY <3>3, <4>1, <4>3
    <3>4. QED
      BY <3>1, <3>2, <3>3
  <2>4. QED
    BY <2>2, <2>3 DEF PartOwns
<1>2. QED
  BY <1>1 DEF Owning

(* A call is posted                                                        *)
LEMMA HeldCall ==
    ASSUME Types, Types', HeldInv, called < MaxCalls, called' = called + 1,
           NEW x, posts' = Append(posts, x), x.do \in Combining, x.hs = <<Tell(called')>>,
           UNCHANGED <<now, handlers, groups, told>>
    PROVE  HeldInv'
<1>1. PICK T, own, at, of, ix : Held(T, own, at, of, ix)
  BY DEF HeldInv
<1>2. PICK n : n = called'
  OBVIOUS
<1>3. PICK S : TypeOK /\ Typed(S)
  BY DEF Types
<1>4. called \in Nat /\ n \in Nat /\ called <= n /\ n = called + 1 /\ called \in 0..MaxCalls
  BY <1>2, <1>3, ClientAssumption DEF TypeOK
<1>5. PICK k : k = Len(groups) /\ k \in Nat
  <2>1. groups \in Seq([left : SUBSET Subscriptions, ok : BOOLEAN, hs : Seq(S)])
    BY <1>3, Zenon DEF Typed
  <2>2. Len(groups) \in Nat
    BY <2>1
  <2>3. QED
    BY <2>2
<1>6. PICK p : p = Tell(n)
  OBVIOUS
<1>7. Tells(p) /\ ~Notes(p) /\ p.n = n /\ p \in Duties(n, k) /\ p \notin Duties(called, k)
  <2>1. n \in 1..n /\ n \notin 1..called
    BY <1>4
  <2>2. Tells(p) /\ p.n = n /\ p \in Duties(n, k)
    BY <1>6, <2>1, DutiesMade
  <2>3. ~Notes(p)
    BY <2>2, DutyKinds
  <2>4. p \notin Duties(called, k)
    BY <2>1, <2>2, <2>3, DutyFacts
  <2>5. QED
    BY <2>2, <2>3, <2>4
<1>8. Owning(T, own, called, k, Revivals)
  BY <1>1, <1>5 DEF Held
<1>9. x.hs = <<p>> /\ ~Tells(x) /\ ~Notes(x) /\ x # p /\ p.do \notin Combining
  BY <1>2, <1>6, <1>7, DutyKinds
<1>10. Len(x.hs) = 1 /\ x.hs[1] = p /\ x.hs # <<>>
  BY <1>9
<1>11. p \notin T
  BY <1>7, <1>8, OwnedDuties DEF Owning, PartOwns
<1>12. x \notin T
  <2>1. x \in T => x.hs[1] \in T
    <3>1. x \in T => \A j \in 1..Len(x.hs) : x.hs[j] \in T
      BY <1>8 DEF Owning, PartOwns
    <3>2. 1 \in 1..Len(x.hs)
      BY <1>10
    <3>3. QED
      BY <3>1, <3>2
  <2>2. QED
    BY <1>10, <1>11, <2>1
<1>22. PICK U : U = T \cup {x, p}
  OBVIOUS
<1>13. PICK f : /\ f \in [U -> SUBSET Duties(n, k)]
                /\ \A h \in T : f[h] = own[h]
                /\ f[x] = {p} /\ f[p] = {p}
  <2>1. PICK f : f = [h \in U |-> IF h \in T THEN own[h] ELSE {p}]
    OBVIOUS
  <2>2. \A h \in T : own[h] \subseteq Duties(n, k)
    BY <1>4, <1>5, <1>8, DutiesGrow DEF Owning
  <2>3. QED
    BY <1>7, <1>11, <1>12, <1>22, <2>1, <2>2
<1>14. Owning(U, f, n, k, Revivals)
  <2>1. PartOwns(p, U, f, Revivals)
    BY <1>9, <1>13 DEF PartOwns
  <2>2. PartOwns(x, U, f, Revivals)
    <3>1. /\ \A j \in 1..Len(x.hs) : x.hs[j] \in U /\ f[x.hs[j]] \subseteq f[x]
          /\ \A i, j \in 1..Len(x.hs) : i # j => f[x.hs[i]] \cap f[x.hs[j]] = {}
          /\ x.hs # <<>> /\ \A j \in 1..Len(x.hs) : ~Notes(x.hs[j])
      BY <1>7, <1>10, <1>13, <1>22
    <3>2. QED
      BY <1>9, <3>1 DEF PartOwns
  <2>3. \A h \in U \ T : PartOwns(h, U, f, Revivals)
    BY <1>22, <2>1, <2>2
  <2>4. T \subseteq U
    BY <1>22
  <2>5. QED
    BY <1>8, <1>13, <2>3, <2>4, OwningGrows
<1>15. PICK a, v : /\ a[p] = "posts" /\ v[p] = Len(posts) + 1
                   /\ \A t \in Duties(called, k) : a[t] = at[t] /\ v[t] = ix[t]
  <2>1. PICK a, v : /\ a = [t \in Duties(called, k) \cup {p} |-> IF t = p THEN "posts" ELSE at[t]]
                    /\ v = [t \in Duties(called, k) \cup {p} |-> IF t = p THEN Len(posts) + 1 ELSE ix[t]]
    OBVIOUS
  <2>2. QED
    BY <1>7, <2>1
<1>16. \A h \in T : f[h] = own[h] /\ \A t \in f[h] : a[t] = at[t] /\ v[t] = ix[t]
  BY <1>8, <1>13, <1>15, OwnedDuties
<1>17. Queued(now', U, f, a, v, "now")
  BY <1>1, <1>16, <1>22 DEF Held, Queued
<1>18. Queued(posts', U, f, a, v, "posts")
  <2>1. /\ Len(posts) \in Nat /\ Len(posts') = Len(posts) + 1
        /\ \A i \in 1..Len(posts) : posts'[i] = posts[i]
        /\ posts'[Len(posts) + 1] = x
    <3>1. PICK R : posts \in Seq(R)
      BY <1>3 DEF Typed
    <3>2. QED
      BY <3>1, AppendedAny
  <2>2. Borne(x) = x /\ x \in U /\ f[x] = {p}
    BY <1>13, <1>22 DEF Borne, Combining
  <2>3. ASSUME NEW i \in 1..Len(posts'), Bears(posts'[i])
        PROVE  Borne(posts'[i]) \in U /\ \A t \in f[Borne(posts'[i])] : a[t] = "posts" /\ v[t] = i
    <3>1. CASE i \in 1..Len(posts)
      <4>1. posts'[i] = posts[i]
        BY <2>1, <3>1
      <4>2. Borne(posts[i]) \in T /\ \A t \in own[Borne(posts[i])] : at[t] = "posts" /\ ix[t] = i
        BY <1>1, <2>3, <3>1, <4>1 DEF Held, Queued
      <4>3. QED
        BY <1>16, <1>22, <4>1, <4>2
    <3>2. CASE i = Len(posts) + 1
      BY <1>15, <2>1, <2>2, <3>2
    <3>3. QED
      BY <2>1, <3>1, <3>2
  <2>4. QED
    BY <2>3 DEF Queued
<1>19. ASSUME NEW hs, NEW c, NEW y, Kept(hs, T, own, at, of, ix, c, y)
       PROVE  Kept(hs, U, f, a, of, v, c, y)
  BY <1>16, <1>19, <1>22 DEF Kept
<1>20. \A s \in Subscriptions : Kept(handlers'[s], U, f, a, of, v, "handlers", s)
  BY <1>1, <1>19 DEF Held
<1>21. Revivals' = Revivals
  BY DEF Revivals
<1>23. GroupsKept(U, f, a, of, v)'
  BY <1>1, <1>19, <1>21, <1>22 DEF Held, GroupsKept
<1>24. ToldOnce'
  BY <1>1, <1>2, <1>4, ClientAssumption DEF Held, ToldOnce
<1>25. \A t \in Duties(n, k) : Fulfilled(t)' => a[t] = "done"
  <2> SUFFICES ASSUME NEW t \in Duties(n, k), Fulfilled(t)'
               PROVE  a[t] = "done"
    OBVIOUS
  <2>1. Fulfilled(t)
    BY DEF Fulfilled
  <2>2. CASE t \in Duties(called, k)
    BY <1>1, <1>5, <1>15, <2>1, <2>2 DEF Held
  <2>3. CASE t \notin Duties(called, k)
    <3>1. Tells(t) /\ ~Notes(t) /\ t.n = n
      <4>1. ~(Notes(t) /\ t.g \in 1..k /\ t.s \in Subscriptions /\ t = OneDone(t.g, t.s))
        BY <2>3, DutiesMade
      <4>2. Tells(t) /\ t.n \in 1..n /\ t \in Telling(n)
        BY <4>1, DutyFacts
      <4>3. t.n \notin 1..called
        <5>1. t.n \in 1..called => t \in Telling(called)
          BY <4>2 DEF Telling
        <5>2. QED
          BY <2>3, <5>1 DEF Duties
      <4>4. QED
        BY <1>4, <4>2, <4>3, DutyKinds
    <3>2. told[n] = 0
      <4>1. n \in 1..MaxCalls /\ n > called
        BY <1>4, ClientAssumption
      <4>2. QED
        BY <1>1, <4>1 DEF Held, ToldOnce
    <3>3. QED
      BY <2>1, <3>1, <3>2 DEF Fulfilled
  <2>4. QED
    BY <2>2, <2>3
<1>26. Held(U, f, a, of, v)'
  BY <1>2, <1>5, <1>14, <1>17, <1>18, <1>20, <1>21, <1>22, <1>23, <1>24, <1>25 DEF Held
<1>27. QED
  BY <1>26 DEF HeldInv


(* The parts of before keep their duties, and there are more parts         *)
Extends(U, f, T, own) == T \subseteq U /\ \A h \in T : f[h] = own[h]

(* All duties are known                                                    *)
Within(T, own, D) == \A h \in T : \A t \in own[h] : t \in D

(* What follows the function that runs is shifted by d                     *)
Shifted(D, at, ix, a, v, d) ==
    \A t \in D : at[t] = "now" /\ ix[t] # 1 => a[t] = "now" /\ v[t] = ix[t] + d

(* Everything else stays where it is, but for the handlers of s            *)
Unmoved(D, at, of, ix, a, o, v, s) ==
    \A t \in D : at[t] # "now" /\ ~(at[t] = "handlers" /\ of[t] = s) =>
        a[t] = at[t] /\ o[t] = of[t] /\ v[t] = ix[t]

(* What follows the function that runs, and what this one calls            *)
LEMMA RestQueued ==
    ASSUME Types, now # <<>>, NEW R, NEW items \in Seq(R), Then(items),
           NEW T, NEW own, NEW D, Within(T, own, D),
           NEW at, NEW ix, Queued(now, T, own, at, ix, "now"),
           NEW U, NEW f, Extends(U, f, T, own), NEW a, NEW v,
           Shifted(D, at, ix, a, v, Len(items) - 1),
           Queued(items, U, f, a, v, "now")
    PROVE  Queued(now', U, f, a, v, "now")
<1>1. /\ Len(items) \in Nat /\ Len(items) - 1 \in Int
      /\ Len(now) \in Nat /\ Len(now') = Len(items) + Len(now) - 1
      /\ Follows(Len(items) - 1, Len(items), 2)
      /\ \A j \in 1..Len(now') : j <= Len(items) => j \in 1..Len(items) /\ now'[j] = items[j]
  BY Spliced
<1>2. PICK d \in Int : d = Len(items) - 1
  BY <1>1
<1> SUFFICES ASSUME NEW j \in 1..Len(now'), Bears(now'[j])
             PROVE  Borne(now'[j]) \in U /\ \A t \in f[Borne(now'[j])] : a[t] = "now" /\ v[t] = j
  BY DEF Queued
<1>3. CASE j <= Len(items)
  BY <1>1, <1>3 DEF Queued
<1>4. CASE j > Len(items)
  <2>1. j - d \in 2..Len(now) /\ now'[j] = now[j - d]
    BY <1>1, <1>2, <1>4 DEF Follows
  <2>2. PICK i : i = j - d /\ i \in 1..Len(now) /\ i # 1 /\ i + d = j /\ now'[j] = now[i]
    BY <1>1, <2>1
  <2>3. PICK x : x = now[i] /\ Bears(x)
    BY <2>2
  <2>4. Borne(x) \in T /\ \A t \in own[Borne(x)] : at[t] = "now" /\ ix[t] = i
    BY <2>2, <2>3 DEF Queued
  <2>5. \A t \in own[Borne(x)] : a[t] = "now" /\ v[t] = i + d
    BY <1>2, <2>2, <2>4 DEF Within, Shifted
  <2>6. QED
    BY <2>2, <2>3, <2>4, <2>5 DEF Extends
<1>5. QED
  BY <1>1, <1>3, <1>4

(* What is posted stays, and what is added to it                           *)
Remain(D, at, ix, a, v) == \A t \in D : at[t] = "posts" => a[t] = "posts" /\ v[t] = ix[t]

Added(extra, U, f, a, v, m) ==
    \A i \in 1..Len(extra) : Bears(extra[i]) =>
        Borne(extra[i]) \in U /\ \A t \in f[Borne(extra[i])] : a[t] = "posts" /\ v[t] = m + i

(* What is posted then, with what is added to it                           *)
LEMMA PostsQueued ==
    ASSUME NEW R, posts \in Seq(R), NEW S, NEW extra \in Seq(S), posts' = posts \o extra,
           NEW T, NEW own, NEW D, Within(T, own, D),
           NEW at, NEW ix, Queued(posts, T, own, at, ix, "posts"),
           NEW U, NEW f, Extends(U, f, T, own), NEW a, NEW v,
           Remain(D, at, ix, a, v), Added(extra, U, f, a, v, Len(posts))
    PROVE  Queued(posts', U, f, a, v, "posts")
<1>1. PICK B : B = R \cup S
  OBVIOUS
<1>2. posts \in Seq(B) /\ extra \in Seq(B)
  BY <1>1, LargerSeq
<1>3. /\ Len(posts) \in Nat /\ Len(extra) \in Nat /\ Len(posts') = Len(posts) + Len(extra)
      /\ \A j \in 1..Len(posts) : posts'[j] = posts[j]
      /\ \A j \in 1..Len(extra) : posts'[Len(posts) + j] = extra[j]
  BY <1>2
<1> SUFFICES ASSUME NEW j \in 1..Len(posts'), Bears(posts'[j])
             PROVE  Borne(posts'[j]) \in U /\ \A t \in f[Borne(posts'[j])] : a[t] = "posts" /\ v[t] = j
  BY DEF Queued
<1>4. CASE j \in 1..Len(posts)
  <2>1. PICK x : x = posts[j] /\ x = posts'[j]
    BY <1>3, <1>4
  <2>2. Borne(x) \in T /\ \A t \in own[Borne(x)] : at[t] = "posts" /\ ix[t] = j
    BY <1>4, <2>1 DEF Queued
  <2>3. QED
    BY <2>1, <2>2 DEF Extends, Within, Remain
<1>5. CASE j \notin 1..Len(posts)
  <2>1. PICK i \in 1..Len(extra) : j = Len(posts) + i
    <3>1. PICK i : i = j - Len(posts)
      OBVIOUS
    <3>2. i \in 1..Len(extra) /\ j = Len(posts) + i
      BY <1>3, <1>5, <3>1
    <3>3. QED
      BY <3>2
  <2>2. posts'[j] = extra[i]
    BY <1>3, <2>1
  <2>3. QED
    BY <2>1, <2>2, Zenon DEF Added
<1>6. QED
  BY <1>4, <1>5

(* The function that runs bears a handler                                  *)
LEMMA HeadHeld ==
    ASSUME Types, NEW T, NEW own, NEW at, NEW ix, Queued(now, T, own, at, ix, "now"),
           now # <<>>, Bears(Head(now))
    PROVE  Borne(Head(now)) \in T /\ \A t \in own[Borne(Head(now))] : at[t] = "now" /\ ix[t] = 1
<1>1. now[1] = Head(now) /\ 1 \in 1..Len(now)
  BY First
<1>2. QED
  BY <1>1 DEF Queued

(* A posted function is executed                                           *)
LEMMA HeldRunPosted ==
    ASSUME Types, Types', HeldInv, runPosted, UNCHANGED <<client, observed, calls>>
    PROVE  HeldInv'
<1>1. PICK T, own, at, of, ix : Held(T, own, at, of, ix)
  BY DEF HeldInv
<1>2. UNCHANGED <<handlers, groups, told, called>>
  BY DEF client, observed, calls
<1>3. now' = <<Head(posts)>> /\ posts' = Tail(posts) /\ posts # <<>>
  BY DEF runPosted
<1>4. PICK D : D = Duties(called, Len(groups))
  OBVIOUS
<1>5. Owning(T, own, called, Len(groups), Revivals) /\ Within(T, own, D)
  BY <1>1, <1>4, OwnedDuties DEF Held, Within
<1>6. PICK a, v : \A t \in D :
         /\ at[t] = "posts" /\ ix[t] = 1 => a[t] = "now" /\ v[t] = 1
         /\ at[t] = "posts" /\ ix[t] # 1 => a[t] = "posts" /\ v[t] = ix[t] - 1
         /\ at[t] # "posts" => a[t] = at[t] /\ v[t] = ix[t]
  <2>1. PICK a, v : /\ a = [t \in D |-> IF at[t] = "posts" /\ ix[t] = 1 THEN "now" ELSE at[t]]
                    /\ v = [t \in D |-> IF at[t] = "posts" /\ ix[t] # 1 THEN ix[t] - 1 ELSE ix[t]]
    OBVIOUS
  <2>2. QED
    BY <2>1
<1>7. /\ Len(posts) \in Nat \ {0} /\ Len(posts') = Len(posts) - 1 /\ Head(posts) = posts[1]
      /\ \A j \in 1..Len(posts') : posts'[j] = posts[j + 1]
  <2>1. PICK R : posts \in Seq(R)
    BY DEF Types, Typed
  <2>2. QED
    BY <1>3, <2>1, EmptySeq
<1>8. Queued(now', T, own, a, v, "now")
  <2>1. PICK x : x = posts[1] /\ now' = <<x>>
    BY <1>3, <1>7
  <2>2. 1 \in 1..Len(posts)
    BY <1>7
  <2>3. Bears(x) => Borne(x) \in T /\ \A t \in own[Borne(x)] : at[t] = "posts" /\ ix[t] = 1
    BY <1>1, <2>1, <2>2 DEF Held, Queued
  <2>4. Bears(x) => Borne(x) \in T /\ \A t \in own[Borne(x)] : a[t] = "now" /\ v[t] = 1
    BY <1>5, <1>6, <2>3 DEF Within
  <2>5. \A i \in 1..Len(now') : i = 1 /\ now'[i] = x
    BY <2>1
  <2>6. QED
    BY <2>4, <2>5 DEF Queued
<1>9. Queued(posts', T, own, a, v, "posts")
  <2> SUFFICES ASSUME NEW j \in 1..Len(posts'), Bears(posts'[j])
               PROVE  Borne(posts'[j]) \in T /\ \A t \in own[Borne(posts'[j])] : a[t] = "posts" /\ v[t] = j
    BY DEF Queued
  <2>1. PICK i : i = j + 1 /\ i \in 1..Len(posts) /\ i # 1 /\ i - 1 = j /\ posts'[j] = posts[i]
    BY <1>7
  <2>2. PICK x : x = posts[i] /\ Bears(x)
    BY <2>1
  <2>3. Borne(x) \in T /\ \A t \in own[Borne(x)] : at[t] = "posts" /\ ix[t] = i
    BY <1>1, <2>1, <2>2 DEF Held, Queued
  <2>4. \A t \in own[Borne(x)] : a[t] = "posts" /\ v[t] = i - 1
    BY <1>5, <1>6, <2>1, <2>3 DEF Within
  <2>5. QED
    BY <2>1, <2>2, <2>3, <2>4
<1>10. ASSUME NEW hs, NEW c, c # "posts", NEW x, Kept(hs, T, own, at, of, ix, c, x)
       PROVE  Kept(hs, T, own, a, of, v, c, x)
  BY <1>5, <1>6, <1>10 DEF Kept, Within
<1>11. Revivals' = Revivals
  BY <1>2 DEF Revivals
<1>12. \A s \in Subscriptions : Kept(handlers'[s], T, own, a, of, v, "handlers", s)
  BY <1>1, <1>2, <1>10 DEF Held
<1>13. GroupsKept(T, own, a, of, v)'
  BY <1>1, <1>2, <1>10, <1>11 DEF Held, GroupsKept
<1>14. ToldOnce' /\ \A t \in Duties(called', Len(groups')) : Fulfilled(t)' => a[t] = "done"
  <2>1. \A t \in D : Fulfilled(t) => at[t] = "done"
    BY <1>1, <1>4 DEF Held
  <2>2. \A t \in D : Fulfilled(t)' => Fulfilled(t)
    BY <1>2 DEF Fulfilled
  <2>3. \A t \in D : Fulfilled(t)' => a[t] = "done"
    BY <1>6, <2>1, <2>2
  <2>4. QED
    BY <1>1, <1>2, <1>4, <2>3 DEF Held, ToldOnce
<1>15. Held(T, own, a, of, v)'
  BY <1>2, <1>5, <1>8, <1>9, <1>11, <1>12, <1>13, <1>14 DEF Held
<1>16. QED
  BY <1>15 DEF HeldInv


(* A function passes on handlers to what it calls, or to a subscription    *)
LEMMA HeldPassed ==
    ASSUME Types, NEW T, NEW own, NEW at, NEW of, NEW ix, Held(T, own, at, of, ix),
           NEW D, D = Duties(called, Len(groups)),
           now # <<>>, NEW R, NEW items \in Seq(R), Then(items), UNCHANGED <<posts, groups, told, called>>,
           NEW s, \A r \in Subscriptions \ {s} : handlers'[r] = handlers[r],
           NEW a, NEW o, NEW v,
           Shifted(D, at, ix, a, v, Len(items) - 1), Unmoved(D, at, of, ix, a, o, v, s),
           Queued(items, T, own, a, v, "now"),
           s \in Subscriptions => Kept(handlers'[s], T, own, a, o, v, "handlers", s)
    PROVE  HeldInv'
<1>1. Owning(T, own, called, Len(groups), Revivals) /\ Within(T, own, D)
  BY OwnedDuties DEF Held, Within
<1>2. Extends(T, own, T, own)
  BY DEF Extends
<1>3. Queued(now', T, own, a, v, "now")
  <2>1. Queued(now, T, own, at, ix, "now")
    BY DEF Held
  <2>2. QED
    BY <1>1, <1>2, <2>1, RestQueued
<1>4. Queued(posts', T, own, a, v, "posts")
  <2>1. Queued(posts, T, own, at, ix, "posts")
    BY DEF Held
  <2>2. \A t \in D : at[t] = "posts" => a[t] = "posts" /\ v[t] = ix[t]
    BY DEF Unmoved
  <2>3. QED
    BY <1>1, <2>1, <2>2 DEF Queued, Within
<1>5. \A r \in Subscriptions : Kept(handlers'[r], T, own, a, o, v, "handlers", r)
  <2> SUFFICES ASSUME NEW r \in Subscriptions, r # s
               PROVE  Kept(handlers'[r], T, own, a, o, v, "handlers", r)
    OBVIOUS
  <2>1. Kept(handlers[r], T, own, at, of, ix, "handlers", r) /\ handlers'[r] = handlers[r]
    BY DEF Held
  <2>2. \A t \in D : at[t] = "handlers" /\ of[t] = r => a[t] = at[t] /\ o[t] = of[t] /\ v[t] = ix[t]
    BY DEF Unmoved
  <2>3. QED
    BY <1>1, <2>1, <2>2 DEF Kept, Within
<1>6. Revivals' = Revivals
  BY DEF Revivals
<1>7. GroupsKept(T, own, a, o, v)'
  <2>1. ASSUME NEW g, NEW hs, Kept(hs, T, own, at, of, ix, "groups", g)
        PROVE  Kept(hs, T, own, a, o, v, "groups", g)
    BY <1>1, <2>1 DEF Kept, Within, Unmoved
  <2>2. QED
    BY <1>6, <2>1 DEF Held, GroupsKept
<1>8. ToldOnce' /\ \A t \in Duties(called', Len(groups')) : Fulfilled(t)' => a[t] = "done"
  <2>1. \A t \in D : Fulfilled(t) => at[t] = "done"
    BY DEF Held
  <2>2. \A t \in D : Fulfilled(t)' => Fulfilled(t)
    BY DEF Fulfilled
  <2>3. \A t \in D : Fulfilled(t)' => a[t] = "done"
    BY <2>1, <2>2 DEF Unmoved
  <2>4. QED
    BY <2>3 DEF Held, ToldOnce
<1>9. Held(T, own, a, o, v)'
  BY <1>1, <1>3, <1>4, <1>5, <1>6, <1>7, <1>8 DEF Held
<1>10. QED
  BY <1>9 DEF HeldInv

(* Items that bear no handlers                                             *)
LEMMA QueuedPlain ==
    ASSUME NEW items, \A j \in 1..Len(items) : ~Bears(items[j]),
           NEW T, NEW own, NEW a, NEW v, NEW c
    PROVE  Queued(items, T, own, a, v, c)
BY DEF Queued

(* Calling the parts of a handler                                          *)
LEMMA QueuedCall ==
    ASSUME NEW S, NEW hs \in Seq(S), NEW b, NEW T, NEW own, NEW a, NEW v,
           \A j \in 1..Len(hs) : hs[j] \in T /\ \A t \in own[hs[j]] : a[t] = "now" /\ v[t] = j
    PROVE  Queued(Call(hs, b), T, own, a, v, "now")
<1>1. Len(Call(hs, b)) = Len(hs)
  BY DEF Call
<1>2. \A j \in 1..Len(hs) : Call(hs, b)[j] = [do |-> "handler", h |-> hs[j], ok |-> b]
  BY DEF Call
<1>3. \A j \in 1..Len(hs) : Borne(Call(hs, b)[j]) = hs[j]
  <2>1. \A h : Borne([do |-> "handler", h |-> h, ok |-> b]) = h
    BY DEF Borne
  <2>2. QED
    BY <1>2, <2>1
<1>4. QED
  BY <1>1, <1>3 DEF Queued

(* Positions of duties in a sequence of parts that share none              *)
Disjoint(own, hs) == \A i, j \in 1..Len(hs) : i # j => own[hs[i]] \cap own[hs[j]] = {}
Located(J, own, hs, m) == \A j \in 1..Len(hs) : \A t \in own[hs[j]] : J[t] = m + j

(* There are such positions                                                *)
LEMMA Positions ==
    ASSUME NEW own, NEW hs, NEW m, Disjoint(own, hs)
    PROVE  \E J : Located(J, own, hs, m)
<1> DEFINE D == UNION {own[hs[j]] : j \in 1..Len(hs)}
<1>1. PICK K : K = [t \in D |-> CHOOSE j \in 1..Len(hs) : t \in own[hs[j]]]
  OBVIOUS
<1>2. \A j \in 1..Len(hs) : \A t \in own[hs[j]] : t \in D /\ K[t] = j
  BY <1>1 DEF Disjoint
<1> HIDE DEF D
<1>3. PICK J : J = [t \in D |-> m + K[t]]
  OBVIOUS
<1>4. ASSUME NEW j \in 1..Len(hs), NEW t \in own[hs[j]]
      PROVE  J[t] = m + j
  <2>1. t \in D /\ K[t] = j
    BY <1>2
  <2>2. J[t] = m + K[t]
    BY <1>3, <2>1, Zenon
  <2>3. QED
    BY <2>1, <2>2, Zenon
<1>5. QED
  BY <1>4, Zenon DEF Located

(* Parts of a handler, at the positions after m                            *)
Put(last, T, own, a, o, v, c, s, m) ==
    \A j \in 1..Len(last) :
        last[j] \in T /\ \A t \in own[last[j]] : a[t] = c /\ o[t] = s /\ v[t] = m + j

(* Handlers of a subscription, and further ones                            *)
LEMMA KeptMore ==
    ASSUME NEW A, NEW first \in Seq(A), NEW last \in Seq(A), NEW T, NEW own, NEW a, NEW o, NEW v, NEW c, NEW s,
           Kept(first, T, own, a, o, v, c, s), NEW m, m = Len(first), Put(last, T, own, a, o, v, c, s, m)
    PROVE  Kept(first \o last, T, own, a, o, v, c, s)
<1>0. first \o last \in Seq(A)
  OBVIOUS
<1>1. PICK q \in Seq(A) : q = first \o last
  BY <1>0, Zenon
<1>2. m \in Nat
  OBVIOUS
<1>3. /\ Len(q) = m + Len(last) /\ Len(last) \in Nat
      /\ \A j \in 1..m : q[j] = first[j]
      /\ \A j \in 1..Len(last) : q[m + j] = last[j]
  BY <1>1, <1>2
<1>4. ASSUME NEW j \in 1..Len(q)
      PROVE  q[j] \in T /\ \A t \in own[q[j]] : a[t] = c /\ o[t] = s /\ v[t] = j
  <2>1. CASE j \in 1..m
    BY <1>2, <1>3, <2>1 DEF Kept
  <2>2. CASE j \notin 1..m
    <3>1. PICK i : i = j - m
      OBVIOUS
    <3>2. i \in 1..Len(last) /\ j = m + i
      BY <1>3, <2>2, <3>1
    <3>3. QED
      BY <1>3, <3>2 DEF Put
  <2>3. QED
    BY <2>1, <2>2
<1>5. QED
  BY <1>1, <1>4 DEF Kept

(* Parts that the function that runs bears, for positions in J             *)
Carried(last, T, own, at, ix, J, m) ==
    \A j \in 1..Len(last) :
        last[j] \in T /\ \A t \in own[last[j]] : at[t] = "now" /\ ix[t] = 1 /\ J[t] = m + j

(* Places of what the function that runs bears                             *)
Moved(o, D, at, ix, c, of) == \A t \in D : o[t] = IF at[t] = "now" /\ ix[t] = 1 THEN c ELSE of[t]

Placed(v, D, at, ix, J, d) ==
    \A t \in D : v[t] = IF at[t] = "now" /\ ix[t] = 1 THEN J[t]
                        ELSE IF at[t] = "now" THEN ix[t] + d ELSE ix[t]

(* There are such places                                                   *)
LEMMA Relocated ==
    ASSUME NEW D, NEW at, NEW ix, NEW c, NEW of
    PROVE  \E o : Moved(o, D, at, ix, c, of)
<1>1. PICK o : o = [t \in D |-> IF at[t] = "now" /\ ix[t] = 1 THEN c ELSE of[t]]
  OBVIOUS
<1>2. QED
  BY <1>1 DEF Moved

(* Positions of what it bears, and of what is to be executed next          *)
LEMMA Repositioned ==
    ASSUME NEW D, NEW at, NEW ix, NEW J, NEW d
    PROVE  \E v : Placed(v, D, at, ix, J, d)
<1>1. PICK v : v = [t \in D |-> IF at[t] = "now" /\ ix[t] = 1 THEN J[t]
                                ELSE IF at[t] = "now" THEN ix[t] + d ELSE ix[t]]
  OBVIOUS
<1>2. QED
  BY <1>1 DEF Placed

(* The call that is executed gives its parts to a subscription, or itself  *)
LEMMA HeldToSubscription ==
    ASSUME Types, NEW T, NEW own, NEW at, NEW of, NEW ix, Held(T, own, at, of, ix),
           now # <<>>, NEW R, NEW items \in Seq(R), Then(items),
           \A j \in 1..Len(items) : ~Bears(items[j]), UNCHANGED <<posts, groups, told, called>>,
           NEW s \in Subscriptions, \A r \in Subscriptions \ {s} : handlers'[r] = handlers[r],
           NEW A, NEW first \in Seq(A), NEW last \in Seq(A), handlers'[s] = first \o last,
           first = <<>> \/ first = handlers[s],
           NEW J, Carried(last, T, own, at, ix, J, Len(first))
    PROVE  HeldInv'
<1>1. PICK D : D = Duties(called, Len(groups))
  OBVIOUS
<1>2. Owning(T, own, called, Len(groups), Revivals) /\ Within(T, own, D)
  BY <1>1, OwnedDuties DEF Held, Within
<1>3. PICK d : d = Len(items) - 1
  OBVIOUS
<1>43. PICK a : Moved(a, D, at, ix, "handlers", at)
  BY Relocated, Zenon
<1>44. PICK o : Moved(o, D, at, ix, s, of)
  BY Relocated, Zenon
<1>45. PICK v : Placed(v, D, at, ix, J, d)
  BY Repositioned, Zenon
<1>4. \A t \in D : a[t] = IF at[t] = "now" /\ ix[t] = 1 THEN "handlers" ELSE at[t]
  BY <1>43, Zenon DEF Moved
<1>41. \A t \in D : o[t] = IF at[t] = "now" /\ ix[t] = 1 THEN s ELSE of[t]
  BY <1>44, Zenon DEF Moved
<1>42. \A t \in D : v[t] = IF at[t] = "now" /\ ix[t] = 1 THEN J[t]
                                     ELSE IF at[t] = "now" THEN ix[t] + d ELSE ix[t]
  BY <1>45, Zenon DEF Placed
<1>5. Queued(items, T, own, a, v, "now")
  BY QueuedPlain
<1>6. Kept(first, T, own, a, o, v, "handlers", s)
  <2>1. CASE first = <<>>
    BY <2>1 DEF Kept
  <2>2. CASE first = handlers[s]
    <3>1. Kept(first, T, own, at, of, ix, "handlers", s)
      BY <2>2 DEF Held
    <3>2. QED
      BY <1>2, <1>4, <1>41, <1>42, <3>1 DEF Kept, Within
  <2>3. QED
    BY <2>1, <2>2
<1>7. ASSUME NEW m, Carried(last, T, own, at, ix, J, m)
      PROVE  Put(last, T, own, a, o, v, "handlers", s, m)
  <2> SUFFICES ASSUME NEW j \in 1..Len(last)
               PROVE  last[j] \in T /\ \A t \in own[last[j]] : a[t] = "handlers" /\ o[t] = s /\ v[t] = m + j
    BY DEF Put
  <2>1. last[j] \in T /\ \A t \in own[last[j]] : at[t] = "now" /\ ix[t] = 1 /\ J[t] = m + j
    BY <1>7, Zenon DEF Carried
  <2>2. \A t \in own[last[j]] : t \in D
    BY <1>2, <2>1 DEF Within
  <2>3. \A t \in own[last[j]] : a[t] = "handlers" /\ o[t] = s
    BY <1>4, <1>41, <2>1, <2>2
  <2>4. \A t \in own[last[j]] : v[t] = J[t]
    BY <1>42, <2>1, <2>2
  <2>5. QED
    BY <2>1, <2>3, <2>4, Zenon
<1>8. Kept(handlers'[s], T, own, a, o, v, "handlers", s)
  <2>1. PICK m : m = Len(first) /\ Carried(last, T, own, at, ix, J, m)
    OBVIOUS
  <2>2. Put(last, T, own, a, o, v, "handlers", s, m)
    BY <1>7, <2>1
  <2>3. Kept(first \o last, T, own, a, o, v, "handlers", s)
    BY <1>6, <2>1, <2>2, KeptMore, Zenon
  <2>4. QED
    BY <2>3, Zenon
<1>9. Shifted(D, at, ix, a, v, Len(items) - 1) /\ Unmoved(D, at, of, ix, a, o, v, s)
  BY <1>3, <1>4, <1>41, <1>42 DEF Shifted, Unmoved
<1>10. QED
  BY <1>1, <1>5, <1>8, <1>9, HeldPassed

(* The call that is executed calls its parts                               *)
LEMMA HeldCalled ==
    ASSUME Types, NEW T, NEW own, NEW at, NEW of, NEW ix, Held(T, own, at, of, ix),
           now # <<>>, NEW S, NEW hs \in Seq(S), NEW b \in BOOLEAN, Then(Call(hs, b)),
           UNCHANGED <<posts, handlers, groups, told, called>>,
           NEW J, Carried(hs, T, own, at, ix, J, 0)
    PROVE  HeldInv'
<1>1. PICK D : D = Duties(called, Len(groups))
  OBVIOUS
<1>2. Owning(T, own, called, Len(groups), Revivals) /\ Within(T, own, D)
  BY <1>1, OwnedDuties DEF Held, Within
<1>3. PICK items : items = Call(hs, b) /\ items \in Seq(Items(S, 0)) /\ Then(items)
  BY CallTyped
<1>4. PICK d : d = Len(items) - 1
  OBVIOUS
<1>5. PICK v : \A t \in D :
         /\ at[t] = "now" /\ ix[t] = 1 => v[t] = J[t]
         /\ at[t] = "now" /\ ix[t] # 1 => v[t] = ix[t] + d
         /\ at[t] # "now" => v[t] = ix[t]
  <2>1. PICK v : v = [t \in D |-> IF at[t] = "now" /\ ix[t] = 1 THEN J[t]
                                  ELSE IF at[t] = "now" THEN ix[t] + d ELSE ix[t]]
    OBVIOUS
  <2>2. QED
    BY <2>1
<1>6. Queued(items, T, own, at, v, "now")
  <2>1. \A j \in 1..Len(hs) : hs[j] \in T /\ \A t \in own[hs[j]] : at[t] = "now" /\ v[t] = j
    BY <1>2, <1>5 DEF Carried, Within
  <2>2. QED
    BY <1>3, <2>1, QueuedCall
<1>7. PICK s : TRUE
  OBVIOUS
<1>8. s \in Subscriptions => Kept(handlers'[s], T, own, at, of, v, "handlers", s)
  BY <1>2, <1>5 DEF Held, Kept, Within
<1>9. Shifted(D, at, ix, at, v, Len(items) - 1) /\ Unmoved(D, at, of, ix, at, of, v, s)
  BY <1>4, <1>5 DEF Shifted, Unmoved
<1>10. QED
  BY <1>1, <1>3, <1>6, <1>8, <1>9, HeldPassed

(* A subscription calls its handler                                        *)
LEMMA HeldReport ==
    ASSUME Types, HeldInv, now # <<>>, NEW s \in Subscriptions, NEW b \in BOOLEAN, Report(s, b),
           UNCHANGED <<posts, groups, told, called>>
    PROVE  HeldInv'
<1>1. PICK T, own, at, of, ix : Held(T, own, at, of, ix)
  BY DEF HeldInv
<1>2. PICK D : D = Duties(called, Len(groups))
  OBVIOUS
<1>3. Owning(T, own, called, Len(groups), Revivals) /\ Within(T, own, D)
  BY <1>1, <1>2, OwnedDuties DEF Held, Within
<1>4. PICK S : handlers \in [Subscriptions -> Seq(S)]
  BY DEF Types, Typed
<1>5. /\ handlers'[s] = <<>> /\ \A r \in Subscriptions \ {s} : handlers'[r] = handlers[r]
      /\ Then(Call(handlers[s], b))
  BY <1>4 DEF Report
<1>6. PICK hs \in Seq(S) : hs = handlers[s]
  BY <1>4
<1>7. PICK items : items = Call(hs, b) /\ items \in Seq(Items(S, 0)) /\ Then(items)
  BY <1>5, <1>6, CallTyped
<1>8. PICK d : d = Len(items) - 1
  OBVIOUS
<1>9. PICK a, v : \A t \in D :
         /\ at[t] = "handlers" /\ of[t] = s => a[t] = "now" /\ v[t] = ix[t]
         /\ at[t] = "now" => a[t] = "now" /\ v[t] = ix[t] + d
         /\ at[t] # "now" /\ ~(at[t] = "handlers" /\ of[t] = s) => a[t] = at[t] /\ v[t] = ix[t]
  <2>1. PICK a, v : /\ a = [t \in D |-> IF at[t] = "handlers" /\ of[t] = s THEN "now" ELSE at[t]]
                    /\ v = [t \in D |-> IF at[t] = "now" THEN ix[t] + d ELSE ix[t]]
    OBVIOUS
  <2>2. QED
    BY <2>1
<1>10. Queued(items, T, own, a, v, "now")
  <2>1. Kept(hs, T, own, at, of, ix, "handlers", s)
    BY <1>1, <1>6 DEF Held
  <2>2. \A j \in 1..Len(hs) : hs[j] \in T /\ \A t \in own[hs[j]] : a[t] = "now" /\ v[t] = j
    BY <1>3, <1>9, <2>1 DEF Kept, Within
  <2>3. QED
    BY <1>7, <2>2, QueuedCall
<1>11. Kept(handlers'[s], T, own, a, of, v, "handlers", s)
  <2>1. 1..Len(handlers'[s]) = {}
    BY <1>5
  <2>2. QED
    BY <2>1 DEF Kept
<1>12. Shifted(D, at, ix, a, v, Len(items) - 1) /\ Unmoved(D, at, of, ix, a, of, v, s)
  BY <1>8, <1>9 DEF Shifted, Unmoved
<1>13. QED
  BY <1>1, <1>2, <1>5, <1>7, <1>10, <1>11, <1>12, HeldPassed


(* Positions of the parts of the call that is executed, and of itself      *)
LEMMA CarriedParts ==
    ASSUME NEW T, NEW own, NEW L, NEW c \in T, PartOwns(c, T, own, L), c.do \in Combining,
           NEW at, NEW ix, \A t \in own[c] : at[t] = "now" /\ ix[t] = 1, NEW m
    PROVE  /\ \E J : Carried(c.hs, T, own, at, ix, J, m)
           /\ \E J : Carried(<<c>>, T, own, at, ix, J, m)
<1>1. /\ \A j \in 1..Len(c.hs) : c.hs[j] \in T /\ own[c.hs[j]] \subseteq own[c]
      /\ \A i, j \in 1..Len(c.hs) : i # j => own[c.hs[i]] \cap own[c.hs[j]] = {}
  BY DEF PartOwns
<1>2. PICK J : Located(J, own, c.hs, m)
  <2>1. Disjoint(own, c.hs)
    BY <1>1, Zenon DEF Disjoint
  <2>2. QED
    BY <2>1, Positions, Zenon
<1>3. Carried(c.hs, T, own, at, ix, J, m)
  BY <1>1, <1>2, Zenon DEF Carried, Located
<1>4. PICK K : \A t \in own[c] : K[t] = m + 1
  <2>1. PICK K : K = [t \in own[c] |-> m + 1]
    OBVIOUS
  <2>2. QED
    BY <2>1
<1>5. \A j \in 1..Len(<<c>>) : j = 1 /\ <<c>>[j] = c
  OBVIOUS
<1>6. Carried(<<c>>, T, own, at, ix, K, m)
  BY <1>4, <1>5, Zenon DEF Carried
<1>7. QED
  BY <1>3, <1>6

(* The same for the function that runs                                     *)
LEMMA HeadParts ==
    ASSUME Types, NEW T, NEW own, NEW at, NEW of, NEW ix, Held(T, own, at, of, ix),
           now # <<>>, NEW c, c = Head(now), c.do \in Combining, NEW m
    PROVE  /\ \E J : Carried(c.hs, T, own, at, ix, J, m)
           /\ \E J : Carried(<<c>>, T, own, at, ix, J, m)
<1>1. Bears(c) /\ Borne(c) = c
  BY DEF Bears, Borne, Combining
<1>2. Queued(now, T, own, at, ix, "now") /\ Owning(T, own, called, Len(groups), Revivals)
  BY DEF Held
<1>3. c \in T /\ \A t \in own[c] : at[t] = "now" /\ ix[t] = 1
  BY <1>1, <1>2, HeadHeld
<1>4. PartOwns(c, T, own, Revivals)
  BY <1>2, <1>3 DEF Owning
<1>5. QED
  BY <1>3, <1>4, CarriedParts

(* What subscribing and unsubscribing do with handlers                     *)
LEMMA HeldHanded ==
    ASSUME Types, HeldInv, now # <<>>, NEW c, c = Head(now), c.do \in Combining,
           NEW S, handlers \in [Subscriptions -> Seq(S)], c.hs \in Seq(S),
           NEW R, NEW items \in Seq(R), Then(items), \A j \in 1..Len(items) : ~Bears(items[j]),
           UNCHANGED <<posts, groups, told, called>>,
           NEW s \in Subscriptions, \A r \in Subscriptions \ {s} : handlers'[r] = handlers[r],
           \/ handlers'[s] = handlers[s] \o c.hs
           \/ handlers'[s] = c.hs
           \/ handlers'[s] = Append(handlers[s], c)
    PROVE  HeldInv'
<1>1. PICK T, own, at, of, ix : Held(T, own, at, of, ix)
  BY DEF HeldInv
<1>2. PICK A : A = S \cup {c}
  OBVIOUS
<1>3. PICK first, last : /\ first \in Seq(A) /\ last \in Seq(A) /\ handlers'[s] = first \o last
                         /\ first = <<>> \/ first = handlers[s]
                         /\ last = c.hs \/ last = <<c>>
  <2>1. handlers[s] \in Seq(A) /\ c.hs \in Seq(A) /\ c \in A /\ <<>> \in Seq(A) /\ <<c>> \in Seq(A)
    BY <1>2, LargerSeq, Short
  <2>2. PICK q, h : q = handlers[s] /\ h = c.hs
    OBVIOUS
  <2>3. CASE handlers'[s] = q \o h
    BY <2>1, <2>2, <2>3, Zenon
  <2>4. CASE handlers'[s] = h
    <3>1. <<>> \o h = h
      BY <2>1, <2>2
    <3>2. QED
      BY <2>1, <2>2, <2>4, <3>1, Zenon
  <2>5. CASE handlers'[s] = Append(q, c)
    <3>1. Append(q, c) = q \o <<c>>
      BY <2>1, <2>2
    <3>2. QED
      BY <2>1, <2>2, <2>5, <3>1, Zenon
  <2>6. QED
    BY <2>2, <2>3, <2>4, <2>5
<1>4. PICK J : Carried(last, T, own, at, ix, J, Len(first))
  BY <1>1, <1>3, HeadParts
<1>5. QED
  BY <1>1, <1>3, <1>4, HeldToSubscription

(* The parts of the call that is executed are called                       *)
LEMMA HeldHandled ==
    ASSUME Types, HeldInv, now # <<>>, NEW c, c = Head(now), c.do \in Combining,
           NEW S, c.hs \in Seq(S), NEW b \in BOOLEAN, Then(Call(c.hs, b)),
           UNCHANGED <<posts, handlers, groups, told, called>>
    PROVE  HeldInv'
<1>1. PICK T, own, at, of, ix : Held(T, own, at, of, ix)
  BY DEF HeldInv
<1>2. PICK J : Carried(c.hs, T, own, at, ix, J, 0)
  BY <1>1, HeadParts
<1>3. QED
  BY <1>1, <1>2, HeldCalled

(* At most one item                                                        *)
LEMMA AtMostOne ==
    ASSUME NEW x, ~Bears(x)
    PROVE  /\ <<x>> \in Seq({x}) /\ \A j \in 1..Len(<<x>>) : ~Bears(<<x>>[j])
           /\ <<>> \in Seq({x}) /\ \A j \in 1..Len(<<>>) : ~Bears(<<>>[j])
<1>1. <<x>> \in Seq({x}) /\ \A j \in 1..Len(<<x>>) : <<x>>[j] = x
  OBVIOUS
<1>2. <<>> \in Seq({x}) /\ 1..Len(<<>>) = {}
  OBVIOUS
<1>3. QED
  BY <1>1, <1>2

(* Typed facts of a call that subscribes or unsubscribes                   *)
LEMMA HandedTypes ==
    ASSUME Types, now # <<>>, NEW c, c = Head(now), c.do \in Combining
    PROVE  \E S : /\ handlers \in [Subscriptions -> Seq(S)] /\ c.hs \in Seq(S)
                  /\ c.do # "asyncUnsubscribeAll" =>
                        c.s \in Subscriptions /\ c = [do |-> c.do, s |-> c.s, hs |-> c.hs]
<1>1. PICK S : Typed(S)
  BY DEF Types
<1>2. c \in Items(S, created) /\ created \in Nat
  BY <1>1, Running DEF Types, Combining
<1>3. handlers \in [Subscriptions -> Seq(S)]
  BY <1>1 DEF Typed
<1>4. /\ c.do \in Repeated => c.s \in Subscriptions /\ c.hs \in Seq(S)
                                     /\ c = [do |-> c.do, s |-> c.s, hs |-> c.hs]
      /\ c.do = "asyncUnsubscribeAll" => c.hs \in Seq(S)
  BY <1>2, ItemFacts
<1>5. c.do \in Repeated \/ c.do = "asyncUnsubscribeAll"
  BY DEF Combining, Repeated
<1>6. "asyncUnsubscribeAll" \notin Repeated
  BY DEF Repeated
<1>7. QED
  BY <1>3, <1>4, <1>5, <1>6

(* asyncSubscribe()                                                        *)
LEMMA HeldSubscribe ==
    ASSUME Types, HeldInv, asyncSubscribe
    PROVE  HeldInv'
<1>1. PICK c : c = Head(now) /\ c = Answer /\ now # <<>> /\ c.do = "asyncSubscribe" /\ c.do \in Combining
  BY DEF asyncSubscribe, Runs, Answer, Combining
<1>2. PICK S : /\ handlers \in [Subscriptions -> Seq(S)] /\ c.hs \in Seq(S) /\ c.s \in Subscriptions
               /\ c = [do |-> c.do, s |-> c.s, hs |-> c.hs]
  BY <1>1, HandedTypes
<1>3. UNCHANGED <<posts, groups, told, called>>
  BY DEF asyncSubscribe, calls
<1>4. Subscribe(c.s, c.hs) = c
  BY <1>1, <1>2 DEF Subscribe
<1>5. \A w \in {"createChannel", "doSubscribePending"} : ~Bears(Do(w))
  BY BearsNot DEF Combining
<1>6. \/ Then(Call(c.hs, TRUE)) /\ UNCHANGED handlers
      \/ /\ Then(<<>>) \/ \E w \in {"createChannel", "doSubscribePending"} : Then(<<Do(w)>>)
         /\ \/ handlers' = [handlers EXCEPT ![c.s] = handlers[c.s] \o c.hs]
            \/ handlers' = [handlers EXCEPT ![c.s] = c.hs]
            \/ handlers' = [handlers EXCEPT ![c.s] = Append(handlers[c.s], c)]
  BY <1>1, <1>4, Zenon DEF asyncSubscribe, asyncPrepareChannel
<1>7. CASE Then(Call(c.hs, TRUE)) /\ UNCHANGED handlers
  BY <1>1, <1>2, <1>3, <1>7, HeldHandled
<1>8. ASSUME NEW x, ~Bears(x), Then(<<>>) \/ Then(<<x>>),
             \/ handlers' = [handlers EXCEPT ![c.s] = handlers[c.s] \o c.hs]
             \/ handlers' = [handlers EXCEPT ![c.s] = c.hs]
             \/ handlers' = [handlers EXCEPT ![c.s] = Append(handlers[c.s], c)]
      PROVE  HeldInv'
  <2>1. PICK items \in Seq({x}) : Then(items) /\ \A j \in 1..Len(items) : ~Bears(items[j])
    BY <1>8, AtMostOne, Zenon
  <2>2. PICK q, h : q = handlers[c.s] /\ h = c.hs
    OBVIOUS
  <2>3. /\ handlers'[c.s] = q \o h \/ handlers'[c.s] = h \/ handlers'[c.s] = Append(q, c)
        /\ \A r \in Subscriptions \ {c.s} : handlers'[r] = handlers[r]
    BY <1>2, <1>8, <2>2, Zenon
  <2>4. QED
    BY <1>1, <1>2, <1>3, <2>1, <2>2, <2>3, HeldHanded
<1>9. QED
  BY <1>5, <1>6, <1>7, <1>8, Zenon


(* asyncUnsubscribe()                                                      *)
LEMMA HeldUnsubscribe ==
    ASSUME Types, HeldInv, asyncUnsubscribe
    PROVE  HeldInv'
<1>1. PICK c : c = Head(now) /\ c = Answer /\ now # <<>> /\ c.do = "asyncUnsubscribe" /\ c.do \in Combining
  BY DEF asyncUnsubscribe, Runs, Answer, Combining
<1>2. PICK S : /\ handlers \in [Subscriptions -> Seq(S)] /\ c.hs \in Seq(S) /\ c.s \in Subscriptions
               /\ c = [do |-> c.do, s |-> c.s, hs |-> c.hs]
  BY <1>1, HandedTypes
<1>3. UNCHANGED <<posts, groups, told, called>>
  BY DEF asyncUnsubscribe, calls
<1>4. Unsubscribe(c.s, c.hs) = c
  BY <1>1, <1>2 DEF Unsubscribe
<1>5. PICK x : ~Bears(x) /\ (Operation(Op("unbind", c.s), <<>>) => Then(<<>>) \/ Then(<<x>>))
  <2>1. PICK x : x = Reply(Op("unbind", c.s), "not sent")
    BY Zenon
  <2>2. <<x>> \o <<>> = <<x>>
    OBVIOUS
  <2>3. ~Bears(x)
    BY <2>1, BearsNot, Zenon
  <2>4. QED
    BY <2>1, <2>2, <2>3, Zenon DEF Operation
<1>6. \/ Then(Call(c.hs, TRUE)) /\ UNCHANGED handlers
      \/ /\ Then(<<>>) \/ Then(<<x>>)
         /\ \/ handlers' = [handlers EXCEPT ![c.s] = c.hs]
            \/ handlers' = [handlers EXCEPT ![c.s] = Append(handlers[c.s], c)]
  BY <1>1, <1>4, <1>5, Zenon DEF asyncUnsubscribe
<1>7. CASE Then(Call(c.hs, TRUE)) /\ UNCHANGED handlers
  BY <1>1, <1>2, <1>3, <1>7, HeldHandled
<1>8. ASSUME Then(<<>>) \/ Then(<<x>>),
             \/ handlers' = [handlers EXCEPT ![c.s] = c.hs]
             \/ handlers' = [handlers EXCEPT ![c.s] = Append(handlers[c.s], c)]
      PROVE  HeldInv'
  <2>1. PICK items \in Seq({x}) : Then(items) /\ \A j \in 1..Len(items) : ~Bears(items[j])
    BY <1>5, <1>8, AtMostOne, Zenon
  <2>2. PICK q, h : q = handlers[c.s] /\ h = c.hs
    OBVIOUS
  <2>3. /\ handlers'[c.s] = h \/ handlers'[c.s] = Append(q, c)
        /\ \A r \in Subscriptions \ {c.s} : handlers'[r] = handlers[r]
    BY <1>2, <1>8, <2>2, Zenon
  <2>4. QED
    BY <1>1, <1>2, <1>3, <2>1, <2>2, <2>3, HeldHanded
<1>9. QED
  BY <1>6, <1>7, <1>8, Zenon

(* Answers to what a subscription needs: plain, or its handler is called   *)
LEMMA HeldAnswered ==
    ASSUME Types, Types', HeldInv, exchangeDeclared \/ queueBound \/ queueUnbound
    PROVE  HeldInv'
<1>1. now # <<>> /\ Head(now).do = "reply" /\ Answer = Head(now)
  BY Zenon DEF exchangeDeclared, queueBound, queueUnbound, Answered, Runs, Answer
<1>2. PICK s : s = Answer.op.x
  OBVIOUS
<1>3. s \in Subscriptions
  <2>1. PICK S : Typed(S)
    BY DEF Types
  <2>2. Head(now) \in Items(S, created) /\ created \in Nat
    BY <1>1, <2>1, Running DEF Types
  <2>3. Head(now).op \in Operations(created)
    BY <1>1, <2>2, ItemFacts
  <2>4. Head(now).op.op \in {"declare", "bind", "unbind"}
    BY <1>1, Zenon DEF exchangeDeclared, queueBound, queueUnbound, Answered
  <2>5. QED
    BY <1>1, <1>2, <2>2, <2>3, <2>4, OperationFacts, Zenon
<1>4. UNCHANGED <<posts, groups, told, called>>
  BY Zenon DEF exchangeDeclared, queueBound, queueUnbound, calls, observed
<1>5. \/ \E b \in BOOLEAN : Report(s, b)
      \/ /\ UNCHANGED handlers
         /\ \/ Then(<<>>) \/ Then(<<Do("publishPostponed")>>)
            \/ Then(<<Move(s), Do("publishPostponed")>>)
  <2>1. Success \in BOOLEAN
    BY DEF Success
  <2>2. CASE exchangeDeclared
    BY <1>2, <2>2, Zenon DEF exchangeDeclared
  <2>3. CASE queueBound
    BY <1>2, <2>3, Zenon DEF queueBound
  <2>4. CASE queueUnbound
    BY <1>2, <2>1, <2>4, Zenon DEF queueUnbound
  <2>5. QED
    BY <2>2, <2>3, <2>4
<1>6. CASE \E b \in BOOLEAN : Report(s, b)
  BY <1>1, <1>3, <1>4, <1>6, HeldReport
<1>7. CASE /\ UNCHANGED handlers
           /\ \/ Then(<<>>) \/ Then(<<Do("publishPostponed")>>)
              \/ Then(<<Move(s), Do("publishPostponed")>>)
  <2>1. ~Bears(Do("publishPostponed")) /\ ~Bears(Move(s))
    BY BearsNot DEF Combining
  <2>2. NowPlain
    BY <1>1, <1>7, <2>1, ThenFew, Zenon
  <2>3. PostsPlain
    BY <1>4 DEF PostsPlain
  <2>4. QED
    BY <1>4, <1>7, <2>2, <2>3, HeldPlain
<1>8. QED
  BY <1>5, <1>6, <1>7


(* Calls x with the parts K and one that notes them as done in group g     *)
Spreads(x, K, known, g) ==
    \A s \in known :
        /\ x[s].do \in Repeated /\ x[s].s = s
        /\ x[s].hs = Append(K[s], OneDone(g, s))
        /\ x[s].do # "asyncSubscribe" => K[s] = <<>>

(* The parts of what is posted at pos                                      *)
Gathered(K, known, T, own, a, v, pos) ==
    \A s \in known :
        /\ Disjoint(own, K[s])
        /\ \A j \in 1..Len(K[s]) :
              K[s][j] \in T /\ \A t \in own[K[s][j]] : a[t] = "posts" /\ v[t] = pos[s]

(* A group that is made has its duties                                     *)
Succeeds(g, k) == k \in Nat /\ g = k + 1

(* The duty of each of its subscriptions is new                            *)
LEMMA GroupDuties ==
    ASSUME NEW n, NEW k, NEW g, Succeeds(g, k), NEW s \in Subscriptions
    PROVE  \E p : p = OneDone(g, s) /\ Notes(p) /\ ~Tells(p) /\ p.g = g /\ p.s = s /\ p \in Duties(n, g) /\ p \notin Duties(n, k)
           /\ p.do \notin Combining
<1>0. PICK p : p = OneDone(g, s)
  OBVIOUS
<1>1. g \in 1..g /\ g \notin 1..k
  BY DEF Succeeds
<1>2. Notes(p) /\ p.g = g /\ p.s = s /\ p \in Duties(n, g)
  BY <1>0, <1>1, DutiesMade
<1>3. ~Tells(p) /\ p.do \notin Combining
  BY <1>2, DutyKinds
<1>4. p \notin Duties(n, k)
  BY <1>1, <1>2, <1>3, DutyFacts
<1>5. QED
  BY <1>0, <1>2, <1>3, <1>4

(* The duties of such a call                                               *)
LEMMA CallOwns ==
    ASSUME NEW S, NEW q \in Seq(S), NEW p, NEW T, NEW own, NEW c, c.do \in Combining, c.hs = Append(q, p),
           NEW U, NEW f, Extends(U, f, T, own), \A j \in 1..Len(q) : q[j] \in T, Disjoint(own, q),
           p \in U, f[p] = {p}, \A h \in T : p \notin own[h], Notes(p), ~Tells(c), ~Notes(c),
           p \in f[c], \A j \in 1..Len(q) : own[q[j]] \subseteq f[c],
           NEW M, c.do # "asyncSubscribe" => q = <<>> /\ p.g \notin M
    PROVE  PartOwns(c, U, f, M)
<1>1. PICK r : r = c.hs
  OBVIOUS
<1>2. /\ Len(q) \in Nat /\ Len(r) = Len(q) + 1
      /\ \A j \in 1..Len(q) : r[j] = q[j]
      /\ r[Len(q) + 1] = p
  BY <1>1
<1>3. PICK m \in Nat : m = Len(q)
  BY <1>2
<1>4. \A j \in 1..Len(r) : j \in 1..m \/ j = m + 1
  BY <1>2, <1>3
<1>5. \A j \in 1..m : r[j] = q[j] /\ q[j] \in T /\ f[q[j]] = own[q[j]] /\ q[j] \in U
  BY <1>2, <1>3 DEF Extends
<1>6. \A j \in 1..Len(r) : r[j] \in U /\ f[r[j]] \subseteq f[c]
  BY <1>2, <1>3, <1>4, <1>5
<1>7. \A i, j \in 1..Len(r) : i # j => f[r[i]] \cap f[r[j]] = {}
  <2>1. \A i, j \in 1..m : i # j => f[r[i]] \cap f[r[j]] = {}
    <3> SUFFICES ASSUME NEW i \in 1..m, NEW j \in 1..m, i # j
                 PROVE  f[r[i]] \cap f[r[j]] = {}
      OBVIOUS
    <3>1. own[q[i]] \cap own[q[j]] = {}
      BY <1>3 DEF Disjoint
    <3>2. f[r[i]] = own[q[i]] /\ f[r[j]] = own[q[j]]
      BY <1>5
    <3>3. QED
      BY <3>1, <3>2
  <2>2. \A i \in 1..m : f[r[i]] \cap {p} = {}
    BY <1>5
  <2>3. f[r[m + 1]] = {p}
    BY <1>2, <1>3
  <2>4. QED
    BY <1>4, <2>1, <2>2, <2>3
<1>8. c.do # "asyncSubscribe" => r # <<>> /\ \A j \in 1..Len(r) : Notes(r[j]) => r[j].g \notin M
  <2> SUFFICES ASSUME c.do # "asyncSubscribe"
               PROVE  r # <<>> /\ \A j \in 1..Len(r) : Notes(r[j]) => r[j].g \notin M
    OBVIOUS
  <2>1. m = 0
    BY <1>3
  <2>2. Len(r) = 1 /\ r[1] = p
    BY <1>2, <1>3, <2>1
  <2>3. QED
    BY <2>2
<1>9. QED
  BY <1>1, <1>6, <1>7, <1>8 DEF PartOwns

(* The groups M of revivals, that were L                                   *)
Marked(M, L, g, x, known) ==
    /\ \A i \in M : i \in L \/ i = g
    /\ \A s \in known : x[s].do # "asyncSubscribe" => g \notin M

Spread(U, f, own, K, x, known, g) ==
    /\ \A s \in known : x[s] \in U
    /\ \A s \in known : \A t \in f[x[s]] :
          t = OneDone(g, s) \/ \E j \in 1..Len(K[s]) : t \in own[K[s][j]]

(* The parts of before, these calls, and what notes them as done           *)
LEMMA SpreadOwning ==
    ASSUME NEW T, NEW own, NEW n, NEW k, NEW L, Owning(T, own, n, k, L),
           NEW g, Succeeds(g, k), NEW known \in SUBSET Subscriptions, NEW S, NEW K \in [known -> Seq(S)],
           NEW x, Spreads(x, K, known, g), NEW a, NEW v, NEW pos, Gathered(K, known, T, own, a, v, pos),
           NEW M, Marked(M, L, g, x, known)
    PROVE  \E U, f : Extends(U, f, T, own) /\ Owning(U, f, n, g, M) /\ Spread(U, f, own, K, x, known, g)
<1>1. PICK N : N = [s \in known |-> OneDone(g, s)]
  OBVIOUS
<1>2. \A s \in known : /\ N[s] = OneDone(g, s) /\ Notes(N[s]) /\ ~Tells(N[s]) /\ N[s].g = g /\ N[s].s = s
                       /\ N[s] \in Duties(n, g) /\ N[s] \notin Duties(n, k) /\ N[s].do \notin Combining
  <2> SUFFICES ASSUME NEW s \in known
               PROVE  /\ N[s] = OneDone(g, s) /\ Notes(N[s]) /\ ~Tells(N[s]) /\ N[s].g = g /\ N[s].s = s
                      /\ N[s] \in Duties(n, g) /\ N[s] \notin Duties(n, k) /\ N[s].do \notin Combining
    OBVIOUS
  <2>1. PICK p : /\ p = OneDone(g, s) /\ Notes(p) /\ ~Tells(p) /\ p.g = g /\ p.s = s
                 /\ p \in Duties(n, g) /\ p \notin Duties(n, k) /\ p.do \notin Combining
    BY GroupDuties
  <2>2. N[s] = p
    BY <1>1, <2>1
  <2>3. QED
    BY <2>1, <2>2, Zenon
<1>3. \A h \in T : \A t \in own[h] : t \in Duties(n, k)
  BY OwnedDuties
<1>4. \A s \in known : /\ N[s] \notin T
                       /\ \A h \in T : N[s] \notin own[h]
  BY <1>2, <1>3 DEF Owning, PartOwns
<1>5. \A s \in known : /\ x[s].do \in Combining /\ x[s].s = s /\ x[s].hs = Append(K[s], N[s])
                       /\ ~Tells(x[s]) /\ ~Notes(x[s])
  BY <1>2, DutyKinds DEF Spreads, Repeated, Combining
<1>6. \A s \in known : x[s] \notin T
  <2> SUFFICES ASSUME NEW s \in known, x[s] \in T
               PROVE  FALSE
    OBVIOUS
  <2>1. PICK c : c = x[s] /\ c \in T /\ c.do \in Combining /\ c.hs = Append(K[s], N[s])
    BY <1>5
  <2>2. \A j \in 1..Len(c.hs) : c.hs[j] \in T
    BY <2>1 DEF Owning, PartOwns
  <2>3. PICK q \in Seq(S) : q = K[s]
    OBVIOUS
  <2>4. Len(q) + 1 \in 1..Len(c.hs) /\ c.hs[Len(q) + 1] = N[s]
    BY <2>1, <2>3, AppendedAny
  <2>5. QED
    BY <1>4, <2>2, <2>4
<1>7. PICK E : \A s \in known :
         /\ E[s] \subseteq Duties(n, g) /\ N[s] \in E[s]
         /\ \A j \in 1..Len(K[s]) : own[K[s][j]] \subseteq E[s]
         /\ \A t \in E[s] : t = N[s] \/ \E j \in 1..Len(K[s]) : t \in own[K[s][j]]
  <2>1. PICK E : E = [s \in known |-> {N[s]} \cup UNION {own[K[s][j]] : j \in 1..Len(K[s])}]
    OBVIOUS
  <2>2. Duties(n, k) \subseteq Duties(n, g)
    <3>1. 1..k \subseteq 1..g
      BY DEF Succeeds
    <3>2. Noting(k) \subseteq Noting(g)
      BY <3>1, NotingRecords, Zenon DEF Noting
    <3>3. QED
      BY <3>2, Zenon DEF Duties
  <2>3. \A s \in known : \A j \in 1..Len(K[s]) : own[K[s][j]] \subseteq Duties(n, g)
    BY <1>3, <2>2 DEF Gathered
  <2>4. \A s \in known : E[s] = {N[s]} \cup UNION {own[K[s][j]] : j \in 1..Len(K[s])}
    BY <2>1, Zenon
  <2>5. ASSUME NEW s \in known
        PROVE  /\ E[s] \subseteq Duties(n, g) /\ N[s] \in E[s]
               /\ \A j \in 1..Len(K[s]) : own[K[s][j]] \subseteq E[s]
               /\ \A t \in E[s] : t = N[s] \/ \E j \in 1..Len(K[s]) : t \in own[K[s][j]]
    <3>1. PICK p, q, e : p = N[s] /\ q = K[s] /\ e = E[s]
      OBVIOUS
    <3>21. p \in Duties(n, g)
      BY <1>2, <3>1, Zenon
    <3>22. e = {p} \cup UNION {own[q[j]] : j \in 1..Len(q)}
      BY <2>4, <3>1
    <3>2. e = {p} \cup UNION {own[q[j]] : j \in 1..Len(q)} /\ p \in Duties(n, g)
      BY <3>21, <3>22, Zenon
    <3>3. \A j \in 1..Len(q) : own[q[j]] \subseteq Duties(n, g)
      BY <2>3, <3>1
    <3>4. /\ p \in e /\ \A j \in 1..Len(q) : own[q[j]] \subseteq e
          /\ \A t \in e : t = p \/ \E j \in 1..Len(q) : t \in own[q[j]]
      BY <3>2, Zenon
    <3>5. e \subseteq Duties(n, g)
      BY <3>2, <3>3, <3>4, Zenon
    <3>6. QED
      BY <3>1, <3>4, <3>5, Zenon
  <2>6. QED
    BY <2>5, Zenon
<1>8. PICK U : U = T \cup {N[s] : s \in known} \cup {x[s] : s \in known}
  OBVIOUS
<1>9. PICK f : /\ f \in [U -> SUBSET Duties(n, g)]
               /\ \A h \in T : f[h] = own[h]
               /\ \A s \in known : f[N[s]] = {N[s]} /\ f[x[s]] = E[s]
  <2>1. PICK f : f = [h \in U |-> IF h \in T THEN own[h] ELSE IF Notes(h) THEN {h} ELSE E[h.s]]
    OBVIOUS
  <2>2. \A h \in T : own[h] \subseteq Duties(n, g)
    <3>1. Duties(n, k) \subseteq Duties(n, g)
      <4>1. 1..k \subseteq 1..g
        BY DEF Succeeds
      <4>2. Noting(k) \subseteq Noting(g)
        BY <4>1, NotingRecords, Zenon DEF Noting
      <4>3. QED
        BY <4>2, Zenon DEF Duties
    <3>2. QED
      BY <1>3, <3>1
  <2>3. \A h \in T : f[h] = own[h]
    BY <1>8, <2>1
  <2>4. \A s \in known : f[N[s]] = {N[s]}
    BY <1>2, <1>4, <1>8, <2>1
  <2>5. \A s \in known : f[x[s]] = E[s]
    BY <1>5, <1>6, <1>8, <2>1
  <2>6. \A h \in U : f[h] \in SUBSET Duties(n, g)
    <3>1. \A h \in T : f[h] \subseteq Duties(n, g)
      BY <2>2, <2>3, Zenon
    <3>2. \A s \in known : f[N[s]] \subseteq Duties(n, g) /\ f[x[s]] \subseteq Duties(n, g)
      <4> SUFFICES ASSUME NEW s \in known
                   PROVE  f[N[s]] \subseteq Duties(n, g) /\ f[x[s]] \subseteq Duties(n, g)
        OBVIOUS
      <4>1. f[N[s]] = {N[s]} /\ N[s] \in Duties(n, g)
        BY <1>2, <2>4, Zenon
      <4>2. f[x[s]] = E[s] /\ E[s] \subseteq Duties(n, g)
        BY <1>7, <2>5, Zenon
      <4>3. QED
        BY <4>1, <4>2, Zenon
    <3>3. QED
      BY <1>8, <3>1, <3>2
  <2>7. f \in [U -> SUBSET Duties(n, g)]
    BY <2>1, <2>6
  <2>8. QED
    BY <2>3, <2>4, <2>5, <2>7, Zenon
<1>10. Extends(U, f, T, own)
  BY <1>8, <1>9 DEF Extends
<1>11. \A h \in U \ T : PartOwns(h, U, f, M)
  <2> SUFFICES ASSUME NEW s \in known
               PROVE  PartOwns(N[s], U, f, M) /\ PartOwns(x[s], U, f, M)
    BY <1>8
  <2>1. PartOwns(N[s], U, f, M)
    BY <1>2, <1>9 DEF PartOwns
  <2>2. PICK q \in Seq(S) : q = K[s]
    OBVIOUS
  <2>3. PICK c, p : c = x[s] /\ p = N[s]
    OBVIOUS
  <2>4. /\ c.do \in Combining /\ c.hs = Append(q, p) /\ ~Tells(c) /\ ~Notes(c) /\ Notes(p)
        /\ \A h \in T : p \notin own[h]
    BY <1>2, <1>4, <1>5, <2>2, <2>3
  <2>5. Disjoint(own, q) /\ \A j \in 1..Len(q) : q[j] \in T
    BY <2>2 DEF Gathered
  <2>6. p \in U /\ f[p] = {p} /\ f[c] = E[s]
    BY <1>8, <1>9, <2>3
  <2>7. p \in f[c] /\ \A j \in 1..Len(q) : own[q[j]] \subseteq f[c]
    BY <1>7, <2>2, <2>3, <2>6
  <2>8. c.do # "asyncSubscribe" => q = <<>> /\ p.g \notin M
    BY <1>2, <2>2, <2>3 DEF Spreads, Marked
  <2>9. PartOwns(c, U, f, M)
    BY <1>10, <2>4, <2>5, <2>6, <2>7, <2>8, CallOwns
  <2>10. QED
    BY <2>1, <2>3, <2>9
<1>12. Owning(U, f, n, g, M)
  <2>1. \A i \in M : i \in L \/ i \notin 1..k
    BY DEF Marked, Succeeds
  <2>2. QED
    <3>1. T \subseteq U /\ f \in [U -> SUBSET Duties(n, g)] /\ \A h \in T : f[h] = own[h]
      BY <1>8, <1>9, Zenon
    <3>2. QED
      BY <1>11, <2>1, <3>1, OwningGrows
<1>13. Spread(U, f, own, K, x, known, g)
  BY <1>2, <1>7, <1>8, <1>9 DEF Spread
<1>14. QED
  BY <1>10, <1>12, <1>13, Zenon


(* The duties that come with a group                                       *)
LEMMA NewDuties ==
    ASSUME NEW n, NEW k, NEW g, Succeeds(g, k), NEW t \in Duties(n, g), t \notin Duties(n, k)
    PROVE  Notes(t) /\ ~Tells(t) /\ t.g = g /\ t.s \in Subscriptions /\ t = OneDone(g, t.s)
<1>1. t \notin Telling(n)
  BY Zenon DEF Duties
<1>2. Notes(t) /\ t.g \in 1..g /\ t.s \in Subscriptions /\ t = OneDone(t.g, t.s)
  BY <1>1, DutyFacts
<1>3. t.g \notin 1..k
  BY <1>2, DutiesMade
<1>4. t.g = g
  BY <1>2, <1>3 DEF Succeeds
<1>5. QED
  BY <1>2, <1>4, DutyKinds

(* What is to be executed, posted and kept of the parts there were         *)
Settled(T, own, at, b, o, w) ==
    /\ Queued(now', T, own, b, w, "now")
    /\ Queued(posts, T, own, b, w, "posts")
    /\ \A s \in Subscriptions : Kept(handlers'[s], T, own, b, o, w, "handlers", s)
    /\ \A i \in 1..Len(groups) :
          groups[i].left # {} => Kept(groups[i].hs, T, own, b, o, w, "groups", i)
    /\ \A t \in Duties(called, Len(groups)) : at[t] = "done" => b[t] = "done"

(* A group r of the subscriptions that are known is made                   *)
Grouped(r, known, x) ==
    /\ groups' = Append(groups, r) /\ r.left = known
    /\ \A s \in known : x[s].do # "asyncSubscribe" => r.hs # <<>>
    /\ \A j \in 1..Len(r.hs) : Notes(r.hs[j]) => r.hs[j].g \notin Revivals

(* It is a revival only if its subscriptions are subscribed to again       *)
LEMMA GroupMade ==
    ASSUME Types, NEW k, k = Len(groups), NEW g, Succeeds(g, k), NEW r, NEW known, NEW x, Grouped(r, known, x)
    PROVE  /\ Len(groups') = g /\ groups'[g] = r /\ \A i \in 1..k : groups'[i] = groups[i]
           /\ Marked(Revivals', Revivals, g, x, known)
           /\ \A i \in 1..k : i \in Revivals' => i \in Revivals
<1>1. PICK S : groups \in Seq(S)
  BY DEF Types, Typed
<1>2. Len(groups') = g /\ groups'[g] = r /\ \A i \in 1..k : groups'[i] = groups[i]
  BY <1>1, AppendedAny DEF Grouped, Succeeds
<1>3. k \in Nat /\ g = k + 1
  BY DEF Succeeds
<1>4. \A i \in 1..g : i \in 1..k \/ i = g
  BY <1>3
<1>5. \A i \in Revivals' : i \in 1..g /\ groups'[i].hs = <<>>
  BY <1>2 DEF Revivals
<1>6. \A i \in 1..k : i \in Revivals' => i \in Revivals
  BY <1>2, <1>5 DEF Revivals
<1>7. \A i \in Revivals' : i \in Revivals \/ i = g
  BY <1>4, <1>5, <1>6
<1>8. g \in Revivals' => r.hs = <<>>
  BY <1>2, <1>5
<1>9. QED
  BY <1>2, <1>6, <1>7, <1>8 DEF Marked, Grouped

(* Places of the new duties                                                *)
Extended(a, v, n, k, g, known, b, w, pos) ==
    /\ \A t \in Duties(n, k) : a[t] = b[t] /\ v[t] = w[t]
    /\ \A t \in Duties(n, g) \ Duties(n, k) :
          /\ t.s \in known => a[t] = "posts" /\ v[t] = pos[t.s]
          /\ t.s \notin known => a[t] = "done"

(* There are such places                                                   *)
LEMMA NewPlaces ==
    ASSUME NEW n, NEW k, NEW g, NEW known, NEW b, NEW w, NEW pos
    PROVE  \E a, v : Extended(a, v, n, k, g, known, b, w, pos)
<1>1. PICK D, E : D = Duties(n, k) /\ E = Duties(n, g)
  OBVIOUS
<1>2. PICK a : a = [t \in D \cup E |-> IF t \in D THEN b[t] ELSE IF t.s \in known THEN "posts" ELSE "done"]
  BY Zenon
<1>3. PICK v : v = [t \in D \cup E |-> IF t \in D THEN w[t] ELSE pos[t.s]]
  BY Zenon
<1>4. \A t \in D : a[t] = b[t] /\ v[t] = w[t]
  BY <1>2, <1>3
<1>5. \A t \in E \ D : (t.s \in known => a[t] = "posts" /\ v[t] = pos[t.s]) /\ (t.s \notin known => a[t] = "done")
  BY <1>2, <1>3
<1>6. Extended(a, v, n, k, g, known, b, w, pos)
  BY <1>1, <1>4, <1>5, Zenon DEF Extended
<1>7. QED
  BY <1>6, Zenon

(* The groups of parts                                                     *)
LEMMA NotesTyped ==
    ASSUME Types
    PROVE  \A i \in 1..Len(groups) : \A j \in 1..Len(groups[i].hs) :
              Notes(groups[i].hs[j]) => groups[i].hs[j].g \in 1..Len(groups)
<1>1. PICK S : Typed(S)
  BY DEF Types
<1>2. PICK B, G : B = Parts(S, Len(groups)) /\ G = [left : SUBSET Subscriptions, ok : BOOLEAN, hs : Seq(S)]
  OBVIOUS
<1>3. S \subseteq B /\ groups \in Seq(G)
  BY <1>1, <1>2, Zenon DEF Typed
<1>4. ASSUME NEW h \in B, Notes(h)
      PROVE  h.g \in 1..Len(groups)
  <2>1. CASE h \in [do : {"one done"}, g : 1..Len(groups), s : Subscriptions]
    BY <2>1, NotingRecords, Zenon
  <2>2. h \notin [do : {"tell"}, n : 1..MaxCalls]
    <3>1. \A y \in [do : {"tell"}, n : 1..MaxCalls] : Tells(y)
      BY DEF Tells
    <3>2. QED
      BY <1>4, <3>1, DutyKinds
  <2>3. h \notin [do : Repeated, s : Subscriptions, hs : Seq(S)]
    <3>1. \A y \in [do : Repeated, s : Subscriptions, hs : Seq(S)] : y.do \in Combining
      BY DEF Repeated, Combining
    <3>2. QED
      BY <1>4, <3>1, DutyKinds
  <2>4. QED
    BY <1>2, <2>1, <2>2, <2>3, Zenon DEF Parts
<1>5. ASSUME NEW i \in 1..Len(groups), NEW j \in 1..Len(groups[i].hs)
      PROVE  groups[i].hs[j] \in B
  <2>1. PICK q : q = groups[i]
    OBVIOUS
  <2>2. q \in G
    BY <1>3, <2>1
  <2>3. q.hs \in Seq(S)
    BY <1>2, <2>2
  <2>4. QED
    BY <1>3, <2>1, <2>3
<1>6. QED
  BY <1>4, <1>5

(* Positions of what is posted                                             *)
Listing(order, pos, m) == \A i \in 1..Len(order) : pos[order[i]] = m + i

(* A call that is posted for each of these subscriptions                   *)
LEMMA HeldSpread ==
    ASSUME Types, Types', NEW T, NEW own, NEW at, NEW of, NEW ix, Held(T, own, at, of, ix),
           NEW known \in SUBSET Subscriptions, NEW S, NEW K \in [known -> Seq(S)],
           NEW k, k = Len(groups), NEW g, Succeeds(g, k), NEW x, Spreads(x, K, known, g),
           NEW order \in Seq(known), posts' = posts \o [i \in 1..Len(order) |-> x[order[i]]],
           NEW r, Grouped(r, known, x),
           NEW pos, Listing(order, pos, Len(posts)), NEW b, NEW o, NEW w, Gathered(K, known, T, own, b, w, pos),
           Settled(T, own, at, b, o, w), Kept(r.hs, T, own, b, o, w, "groups", g),
           UNCHANGED <<told, called>>
    PROVE  HeldInv'
<1>1. PICK n : n = called
  OBVIOUS
<1>2. Owning(T, own, n, k, Revivals)
  BY <1>1 DEF Held
<1>3. /\ Len(groups') = g /\ groups'[g] = r /\ \A i \in 1..k : groups'[i] = groups[i]
      /\ Marked(Revivals', Revivals, g, x, known)
      /\ \A i \in 1..k : i \in Revivals' => i \in Revivals
  BY GroupMade
<1>4. PICK M : M = Revivals'
  OBVIOUS
<1>5. PICK U, f : Extends(U, f, T, own) /\ Owning(U, f, n, g, M) /\ Spread(U, f, own, K, x, known, g)
  <2>1. Marked(M, Revivals, g, x, known)
    BY <1>3, <1>4
  <2>2. QED
    BY <1>2, <2>1, SpreadOwning
<1>61. PICK a, v : Extended(a, v, n, k, g, known, b, w, pos)
  BY NewPlaces, Zenon
<1>6. /\ \A t \in Duties(n, k) : a[t] = b[t] /\ v[t] = w[t]
      /\ \A t \in Duties(n, g) \ Duties(n, k) :
            /\ t.s \in known => a[t] = "posts" /\ v[t] = pos[t.s]
            /\ t.s \notin known => a[t] = "done"
  BY <1>61, Zenon DEF Extended
<1>7. \A h \in T : h \in U /\ f[h] = own[h] /\ \A t \in own[h] : a[t] = b[t] /\ v[t] = w[t]
  BY <1>2, <1>5, <1>6, OwnedDuties DEF Extends
<1>8. Queued(now', U, f, a, v, "now")
  <2>1. Queued(now', T, own, b, w, "now")
    BY DEF Settled
  <2>2. QED
    BY <1>7, <2>1 DEF Queued
<1>9. Queued(posts', U, f, a, v, "posts")
  <2>1. Queued(posts, T, own, b, w, "posts")
    BY DEF Settled
  <2>2. PICK extra : extra = [i \in 1..Len(order) |-> x[order[i]]]
    OBVIOUS
  <2>3. PICK X : X = {x[s] : s \in known}
    OBVIOUS
  <2>4. extra \in Seq(X) /\ Len(extra) = Len(order) /\ \A i \in 1..Len(order) : extra[i] = x[order[i]]
    BY <2>2, <2>3
  <2>5. PICK R : posts \in Seq(R)
    BY DEF Types, Typed
  <2>6. Within(T, own, Duties(n, k))
    BY <1>2, OwnedDuties DEF Within
  <2>7. Remain(Duties(n, k), b, w, a, v)
    BY <1>6 DEF Remain
  <2>8. Added(extra, U, f, a, v, Len(posts))
    <3> SUFFICES ASSUME NEW i \in 1..Len(extra)
                 PROVE  /\ Borne(extra[i]) \in U
                        /\ \A t \in f[Borne(extra[i])] : a[t] = "posts" /\ v[t] = Len(posts) + i
      BY DEF Added
    <3>1. PICK s \in known : s = order[i] /\ extra[i] = x[s]
      BY <2>4
    <3>2. pos[s] = Len(posts) + i
      BY <2>4, <3>1 DEF Listing
    <3>3. PICK c : c = x[s] /\ c = extra[i] /\ Borne(c) = c /\ c \in U
      <4>1. x[s].do \in Repeated
        BY DEF Spreads
      <4>2. QED
        BY <1>5, <3>1, <4>1 DEF Borne, Repeated, Spread
    <3>4. ASSUME NEW t \in f[c]
          PROVE  a[t] = "posts" /\ v[t] = pos[s]
      <4>1. CASE t = OneDone(g, s)
        <5>1. PICK p : /\ p = OneDone(g, s) /\ Notes(p) /\ ~Tells(p) /\ p.g = g /\ p.s = s
                       /\ p \in Duties(n, g) /\ p \notin Duties(n, k) /\ p.do \notin Combining
          <6>1. s \in Subscriptions
            OBVIOUS
          <6>2. QED
            BY <6>1, GroupDuties, Zenon
        <5>2. p = t
          BY <4>1, <5>1
        <5>3. QED
          BY <1>6, <5>1, <5>2
      <4>2. CASE \E j \in 1..Len(K[s]) : t \in own[K[s][j]]
        <5>1. PICK j \in 1..Len(K[s]) : t \in own[K[s][j]]
          BY <4>2
        <5>2. K[s][j] \in T /\ b[t] = "posts" /\ w[t] = pos[s]
          BY <5>1 DEF Gathered
        <5>3. QED
          BY <1>7, <5>1, <5>2
      <4>3. QED
        <5>1. t = OneDone(g, s) \/ \E j \in 1..Len(K[s]) : t \in own[K[s][j]]
          BY <1>5, <3>3, <3>4, Zenon DEF Spread
        <5>2. QED
          BY <4>1, <4>2, <5>1
    <3>5. QED
      BY <3>2, <3>3, <3>4
  <2>9. posts' = posts \o extra
    BY <2>2
  <2>10. QED
    BY <1>5, <2>1, <2>4, <2>5, <2>6, <2>7, <2>8, <2>9, PostsQueued
<1>10. ASSUME NEW hs, NEW c, NEW y, Kept(hs, T, own, b, o, w, c, y)
       PROVE  Kept(hs, U, f, a, o, v, c, y)
  <2> SUFFICES ASSUME NEW j \in 1..Len(hs)
               PROVE  hs[j] \in U /\ \A t \in f[hs[j]] : a[t] = c /\ o[t] = y /\ v[t] = j
    BY DEF Kept
  <2>1. PICK h : h = hs[j] /\ h \in T /\ \A t \in own[h] : b[t] = c /\ o[t] = y /\ w[t] = j
    BY <1>10 DEF Kept
  <2>2. h \in U /\ f[h] = own[h] /\ \A t \in own[h] : a[t] = b[t] /\ v[t] = w[t]
    BY <1>7, <2>1, Zenon
  <2>3. QED
    BY <2>1, <2>2, Zenon
<1>11. \A s \in Subscriptions : Kept(handlers'[s], U, f, a, o, v, "handlers", s)
  BY <1>10 DEF Settled
<1>12. \A i \in 1..g : i \in 1..k \/ i = g
  BY DEF Succeeds
<1>13. GroupsKept(U, f, a, o, v)'
  <2>1. ASSUME NEW i \in 1..k
        PROVE  /\ groups'[i].left # {} => Kept(groups'[i].hs, U, f, a, o, v, "groups", i)
               /\ \A j \in 1..Len(groups'[i].hs) :
                     Notes(groups'[i].hs[j]) => groups'[i].hs[j].g \notin Revivals'
    <3>1. groups'[i] = groups[i]
      BY <1>3
    <3>2. groups[i].left # {} => Kept(groups[i].hs, U, f, a, o, v, "groups", i)
      BY <1>10 DEF Settled
    <3>3. ASSUME NEW j \in 1..Len(groups[i].hs), Notes(groups[i].hs[j])
          PROVE  groups[i].hs[j].g \notin Revivals'
      <4>0. groups[i].hs[j].g \notin Revivals
        BY <3>3 DEF Held, GroupsKept
      <4>1. groups[i].hs[j].g \in 1..k
        BY <3>3, NotesTyped
      <4>2. QED
        BY <1>3, <4>0, <4>1
    <3>4. QED
      BY <3>1, <3>2, <3>3
  <2>2. groups'[g].left # {} => Kept(groups'[g].hs, U, f, a, o, v, "groups", g)
    BY <1>3, <1>10
  <2>3. ASSUME NEW j \in 1..Len(r.hs), Notes(r.hs[j])
        PROVE  r.hs[j].g \notin Revivals'
    <3>1. PICK h : h = r.hs[j] /\ h \in T /\ Notes(h) /\ h.g \notin Revivals
      BY <2>3 DEF Kept, Grouped
    <3>2. h \in own[h] /\ ~Tells(h)
      BY <1>2, <3>1, DutyKinds DEF Owning, PartOwns
    <3>3. h.g \in 1..k
      BY <1>2, <3>1, <3>2, OwnedDuties, DutyFacts
    <3>4. QED
      BY <1>3, <3>1, <3>3
  <2>4. \A i \in 1..Len(groups') : i \in 1..k \/ i = g
    BY <1>3, <1>12
  <2>5. QED
    BY <1>3, <2>1, <2>2, <2>3, <2>4 DEF GroupsKept
<1>14. ToldOnce'
  BY DEF Held, ToldOnce
<1>15. ASSUME NEW t \in Duties(n, g), Fulfilled(t)'
       PROVE  a[t] = "done"
  <2>1. CASE t \in Duties(n, k)
    <3>1. Fulfilled(t)
      <4>1. Notes(t) => t.g \in 1..k
        BY <2>1, DutyFacts, DutyKinds
      <4>2. QED
        BY <1>3, <1>15, <4>1 DEF Fulfilled
    <3>2. at[t] = "done"
      BY <1>1, <2>1, <3>1 DEF Held
    <3>3. QED
      BY <1>1, <1>6, <2>1, <3>2 DEF Settled
  <2>2. CASE t \notin Duties(n, k)
    <3>1. Notes(t) /\ ~Tells(t) /\ t.g = g
      BY <2>2, NewDuties
    <3>2. t.s \notin known
      BY <1>3, <1>15, <3>1 DEF Fulfilled, Grouped
    <3>3. QED
      BY <1>6, <2>2, <3>2
  <2>3. QED
    BY <2>1, <2>2
<1>16. Held(U, f, a, o, v)'
  BY <1>1, <1>3, <1>4, <1>5, <1>8, <1>9, <1>11, <1>13, <1>14, <1>15 DEF Held
<1>17. QED
  BY <1>16 DEF HeldInv


(* Positions of the subscriptions that are listed                          *)
LEMMA ListingMade ==
    ASSUME NEW known \in SUBSET Subscriptions, NEW m
    PROVE  \E pos : Listing(SetToSeq(known), pos, m)
<1>1. PICK order : order = SetToSeq(known)
  OBVIOUS
<1>2. /\ \A i \in 1..Len(order) : order[i] \in known
      /\ \A i, j \in 1..Len(order) : order[i] = order[j] => i = j
  BY <1>1, Listed
<1>3. PICK K : K = [s \in known |-> CHOOSE i \in 1..Len(order) : order[i] = s]
  OBVIOUS
<1>4. \A i \in 1..Len(order) : K[order[i]] = i
  BY <1>2, <1>3
<1>5. PICK pos : pos = [s \in known |-> m + K[s]]
  OBVIOUS
<1>6. ASSUME NEW i \in 1..Len(order)
      PROVE  pos[order[i]] = m + i
  <2>1. order[i] \in known /\ K[order[i]] = i
    BY <1>2, <1>4
  <2>2. pos[order[i]] = m + K[order[i]]
    BY <1>5, <2>1, Zenon
  <2>3. QED
    BY <2>1, <2>2, Zenon
<1>7. QED
  BY <1>1, <1>6, Zenon DEF Listing

(* What is neither to be executed nor a handler of a subscription stays    *)
Stays(D, at, of, ix, b, o, w) ==
    \A t \in D :
        /\ at[t] = "posts" => b[t] = "posts" /\ w[t] = ix[t]
        /\ at[t] = "groups" => b[t] = "groups" /\ o[t] = of[t] /\ w[t] = ix[t]
        /\ at[t] = "done" => b[t] = "done"

(* All but the handlers of subscriptions are where they were               *)
LEMMA SettledRest ==
    ASSUME Types, NEW T, NEW own, NEW at, NEW of, NEW ix, Held(T, own, at, of, ix),
           NEW D, D = Duties(called, Len(groups)), now # <<>>, Then(<<>>),
           NEW b, NEW o, NEW w, Shifted(D, at, ix, b, w, -1), Stays(D, at, of, ix, b, o, w),
           \A s \in Subscriptions : Kept(handlers'[s], T, own, b, o, w, "handlers", s)
    PROVE  Settled(T, own, at, b, o, w)
<1>1. Owning(T, own, called, Len(groups), Revivals) /\ Within(T, own, D)
  BY OwnedDuties DEF Held, Within
<1>2. Queued(now', T, own, b, w, "now")
  <2>1. Queued(now, T, own, at, ix, "now")
    BY DEF Held
  <2>2. Extends(T, own, T, own)
    BY DEF Extends
  <2>3. PICK items : items = <<>> /\ items \in Seq({}) /\ Len(items) - 1 = -1 /\ Then(items)
    <3>1. <<>> \in Seq({}) /\ Len(<<>>) - 1 = -1
      OBVIOUS
    <3>2. QED
      BY <3>1, Zenon
  <2>4. Queued(items, T, own, b, w, "now")
    BY <2>3 DEF Queued
  <2>5. Shifted(D, at, ix, b, w, Len(items) - 1)
    BY <2>3
  <2>6. QED
    BY <1>1, <2>1, <2>2, <2>3, <2>4, <2>5, RestQueued
<1>3. Queued(posts, T, own, b, w, "posts")
  <2>1. Queued(posts, T, own, at, ix, "posts")
    BY DEF Held
  <2>2. \A t \in D : at[t] = "posts" => b[t] = "posts" /\ w[t] = ix[t]
    BY DEF Stays
  <2>3. QED
    BY <1>1, <2>1, <2>2 DEF Queued, Within
<1>4. ASSUME NEW i \in 1..Len(groups), groups[i].left # {}
      PROVE  Kept(groups[i].hs, T, own, b, o, w, "groups", i)
  <2>1. PICK hs : hs = groups[i].hs /\ Kept(hs, T, own, at, of, ix, "groups", i)
    BY <1>4 DEF Held, GroupsKept
  <2>2. Kept(hs, T, own, b, o, w, "groups", i)
    BY <1>1, <2>1 DEF Kept, Within, Stays
  <2>3. QED
    BY <2>1, <2>2
<1>5. \A t \in D : at[t] = "done" => b[t] = "done"
  BY DEF Stays
<1>6. QED
  BY <1>2, <1>3, <1>4, <1>5 DEF Settled

(* asyncUnsubscribeAll() leaves its handler to a group                     *)
LEMMA HeldUnsubscribeAll ==
    ASSUME Types, Types', HeldInv, asyncUnsubscribeAll
    PROVE  HeldInv'
<1>1. PICK c : c = Head(now) /\ c = Answer /\ now # <<>> /\ c.do = "asyncUnsubscribeAll" /\ c.do \in Combining
  BY DEF asyncUnsubscribeAll, Runs, Answer, Combining
<1>2. PICK S : handlers \in [Subscriptions -> Seq(S)] /\ c.hs \in Seq(S)
  BY <1>1, HandedTypes
<1>3. UNCHANGED <<handlers, told, called>>
  BY DEF asyncUnsubscribeAll, observed
<1>4. PICK known : known = {s \in Subscriptions : subscriptions[s] # "none"}
  OBVIOUS
<1>5. CASE known = {}
  <2>1. Then(Call(c.hs, TRUE)) /\ UNCHANGED <<posts, groups>>
    BY <1>1, <1>4, <1>5 DEF asyncUnsubscribeAll
  <2>2. QED
    BY <1>1, <1>2, <1>3, <2>1, HeldHandled
<1>6. CASE known # {}
  <2>1. PICK T, own, at, of, ix : Held(T, own, at, of, ix)
    BY DEF HeldInv
  <2>2. PICK k, g : k = Len(groups) /\ g = Len(groups) + 1
    OBVIOUS
  <2>3. Succeeds(g, k) /\ g = k + 1
    <3>1. Len(groups) \in Nat
      BY DEF Types, Typed
    <3>2. QED
      BY <2>2, <3>1 DEF Succeeds
  <2>4. PICK order : order = SetToSeq(known)
    OBVIOUS
  <2>5. PICK r : r = [left |-> known, ok |-> TRUE, hs |-> c.hs]
    OBVIOUS
  <2>6. /\ groups' = Append(groups, r) /\ Then(<<>>)
        /\ posts' = posts \o [i \in 1..Len(order) |-> Unsubscribe(order[i], <<OneDone(g, order[i])>>)]
    BY <1>1, <1>4, <1>6, <2>2, <2>4, <2>5, Zenon DEF asyncUnsubscribeAll
  <2>7. r.left = known /\ r.hs = c.hs
    BY <2>5
  <2>8. known \in SUBSET Subscriptions
    BY <1>4
  <2>9. order \in Seq(known) /\ \A i \in 1..Len(order) : order[i] \in known
    BY <2>4, <2>8, Listed
  <2>10. PICK pos : Listing(order, pos, Len(posts))
    BY <2>4, <2>8, ListingMade
  <2>11. PICK K, x : /\ K = [s \in known |-> <<>>]
                     /\ x = [s \in known |-> Unsubscribe(s, <<OneDone(g, s)>>)]
    OBVIOUS
  <2>12. K \in [known -> Seq(S)]
    BY <2>11
  <2>13. Spreads(x, K, known, g)
    <3>1. \A p : Append(<<>>, p) = <<p>>
      OBVIOUS
    <3>2. \A s \in known : x[s] = Unsubscribe(s, <<OneDone(g, s)>>) /\ K[s] = <<>>
      BY <2>11
    <3>3. \A s, hs : Unsubscribe(s, hs).do \in Repeated /\ Unsubscribe(s, hs).s = s /\ Unsubscribe(s, hs).hs = hs
      BY DEF Unsubscribe, Repeated
    <3>4. QED
      <4> SUFFICES ASSUME NEW s \in known
                   PROVE  /\ x[s].do \in Repeated /\ x[s].s = s /\ x[s].hs = Append(K[s], OneDone(g, s))
                          /\ K[s] = <<>>
        BY Zenon DEF Spreads
      <4>1. PICK p : p = OneDone(g, s)
        OBVIOUS
      <4>2. x[s] = Unsubscribe(s, <<p>>) /\ K[s] = <<>>
        BY <3>2, <4>1, Zenon
      <4>3. Append(<<>>, p) = <<p>>
        BY <3>1, Zenon
      <4>4. x[s].do \in Repeated /\ x[s].s = s /\ x[s].hs = <<p>>
        BY <3>3, <4>2, Zenon
      <4>5. QED
        BY <4>1, <4>2, <4>3, <4>4, Zenon
  <2>14. posts' = posts \o [i \in 1..Len(order) |-> x[order[i]]]
    <3>1. PICK y, z : /\ y = [i \in 1..Len(order) |-> x[order[i]]]
                      /\ z = [i \in 1..Len(order) |-> Unsubscribe(order[i], <<OneDone(g, order[i])>>)]
      OBVIOUS
    <3>2. \A i \in 1..Len(order) : x[order[i]] = Unsubscribe(order[i], <<OneDone(g, order[i])>>)
      BY <2>9, <2>11
    <3>3. y = z
      BY <3>1, <3>2
    <3>4. QED
      BY <2>6, <3>1, <3>3, Zenon
  <2>15. Owning(T, own, called, k, Revivals) /\ Queued(now, T, own, at, ix, "now")
    BY <2>1, <2>2 DEF Held
  <2>16. c \in T
    <3>1. Bears(c) /\ Borne(c) = c
      BY <1>1 DEF Bears, Borne, Combining
    <3>2. QED
      BY <1>1, <2>15, <3>1, HeadHeld
  <2>17. Grouped(r, known, x)
    <3>1. PartOwns(c, T, own, Revivals)
      BY <2>15, <2>16 DEF Owning
    <3>2. c.hs # <<>> /\ \A j \in 1..Len(c.hs) : Notes(c.hs[j]) => c.hs[j].g \notin Revivals
      BY <1>1, <3>1 DEF PartOwns
    <3>3. QED
      BY <2>6, <2>7, <3>2 DEF Grouped
  <2>18. PICK J : Carried(c.hs, T, own, at, ix, J, 0)
    BY <1>1, <2>1, HeadParts
  <2>19. PICK D : D = Duties(called, k)
    OBVIOUS
  <2>20. PICK b : Moved(b, D, at, ix, "groups", at)
    BY Relocated, Zenon
  <2>21. PICK o : Moved(o, D, at, ix, g, of)
    BY Relocated, Zenon
  <2>22. PICK w : Placed(w, D, at, ix, J, -1)
    BY Repositioned, Zenon
  <2>23. Within(T, own, D)
    BY <2>15, <2>19, OwnedDuties DEF Within
  <2>24. Gathered(K, known, T, own, b, w, pos)
    BY <2>11 DEF Gathered, Disjoint
  <2>25. Kept(r.hs, T, own, b, o, w, "groups", g)
    BY <2>7, <2>18, <2>20, <2>21, <2>22, <2>23 DEF Carried, Moved, Placed, Kept, Within
  <2>26. Shifted(D, at, ix, b, w, -1) /\ Stays(D, at, of, ix, b, o, w)
    BY <2>20, <2>21, <2>22 DEF Shifted, Stays, Moved, Placed
  <2>27. ASSUME NEW s \in Subscriptions
         PROVE  Kept(handlers'[s], T, own, b, o, w, "handlers", s)
    <3>1. PICK q : q = handlers'[s] /\ Kept(q, T, own, at, of, ix, "handlers", s)
      BY <1>3, <2>1 DEF Held
    <3>2. Kept(q, T, own, b, o, w, "handlers", s)
      BY <2>20, <2>21, <2>22, <2>23, <3>1 DEF Kept, Within, Moved, Placed
    <3>3. QED
      BY <3>1, <3>2
  <2>28. Settled(T, own, at, b, o, w)
    BY <1>1, <2>1, <2>2, <2>6, <2>19, <2>26, <2>27, SettledRest
  <2>29. QED
    BY <1>3, <2>1, <2>2, <2>3, <2>8, <2>9, <2>10, <2>12, <2>13, <2>14, <2>17, <2>24, <2>25, <2>28, HeldSpread
<1>7. QED
  BY <1>5, <1>6


(* reviveIfReconnected() leaves the handlers to subscriptions again        *)
LEMMA HeldRevive ==
    ASSUME Types, Types', HeldInv, reviveIfReconnected
    PROVE  HeldInv'
<1>1. now # <<>>
  BY DEF reviveIfReconnected, Runs
<1>2. PICK S : handlers \in [Subscriptions -> Seq(S)]
  BY DEF Types, Typed
<1>3. UNCHANGED <<told, called>> /\ handlers' = [s \in Subscriptions |-> <<>>]
  BY DEF reviveIfReconnected, calls
<1>4. PICK known : known = {s \in Subscriptions : subscriptions[s] # "none"}
  OBVIOUS
<1>5. known \in SUBSET Subscriptions
  BY <1>4
<1>6. PICK order : order = SetToSeq(known)
  OBVIOUS
<1>7. order \in Seq(known) /\ \A i \in 1..Len(order) : order[i] \in known
  BY <1>5, <1>6, Listed
<1>8. PICK k, g : k = Len(groups) /\ g = Len(groups) + 1
  OBVIOUS
<1>9. posts' = posts \o [i \in 1..Len(order) |->
                            Subscribe(order[i], Append(handlers[order[i]], OneDone(g, order[i])))]
  BY <1>4, <1>6, <1>8, Zenon DEF reviveIfReconnected
<1>10. CASE known = {}
  <2>1. groups' = groups /\ Then(<<Do("createChannel")>>)
    BY <1>4, <1>10, Zenon DEF reviveIfReconnected, asyncPrepareChannel
  <2>2. ~Bears(Do("createChannel"))
    BY BearsNot DEF Combining
  <2>3. PICK d \in Int : \A j \in 1..Len(now') :
           Bears(now'[j]) => j - d \in 1..Len(now) /\ now'[j] = now[j - d]
    <3>1. NowPlain
      BY <1>1, <2>1, <2>2, ThenFew, Zenon
    <3>2. QED
      BY <3>1 DEF NowPlain
  <2>4. Len(order) = 0
    BY <1>7, <1>10
  <2>5. posts' = posts
    <3>1. PICK R : posts \in Seq(R)
      BY DEF Types, Typed
    <3>2. PICK y : y = [i \in 1..Len(order) |->
                            Subscribe(order[i], Append(handlers[order[i]], OneDone(g, order[i])))]
      OBVIOUS
    <3>3. y = <<>>
      BY <2>4, <3>2
    <3>4. posts \o <<>> = posts
      BY <3>1
    <3>5. QED
      BY <1>9, <3>2, <3>3, <3>4, Zenon
  <2>6. \A s \in Subscriptions : handlers'[s] \in {handlers[s], <<>>}
    BY <1>3
  <2>7. Lengths
    BY HasLengths
  <2>8. QED
    BY <1>3, <2>1, <2>3, <2>5, <2>6, <2>7, HeldFrame
<1>11. CASE known # {}
  <2>1. PICK T, own, at, of, ix : Held(T, own, at, of, ix)
    BY DEF HeldInv
  <2>3. Succeeds(g, k) /\ g = k + 1
    <3>1. Len(groups) \in Nat
      BY DEF Types, Typed
    <3>2. QED
      BY <1>8, <3>1 DEF Succeeds
  <2>5. PICK r : r = [left |-> known, ok |-> TRUE, hs |-> <<>>]
    OBVIOUS
  <2>6. groups' = Append(groups, r) /\ Then(<<>>)
    BY <1>4, <1>11, <2>5, Zenon DEF reviveIfReconnected
  <2>7. r.left = known /\ r.hs = <<>>
    BY <2>5
  <2>10. PICK pos : Listing(order, pos, Len(posts))
    BY <1>5, <1>6, ListingMade
  <2>11. PICK K, x : /\ K = [s \in known |-> handlers[s]]
                     /\ x = [s \in known |-> Subscribe(s, Append(handlers[s], OneDone(g, s)))]
    OBVIOUS
  <2>12. K \in [known -> Seq(S)]
    BY <1>2, <1>5, <2>11
  <2>13. Spreads(x, K, known, g) /\ \A s \in known : x[s].do = "asyncSubscribe"
    <3>3. \A s, hs : /\ Subscribe(s, hs).do = "asyncSubscribe" /\ Subscribe(s, hs).s = s
                     /\ Subscribe(s, hs).hs = hs
      BY DEF Subscribe
    <3>4. ASSUME NEW s \in known
          PROVE  x[s].do = "asyncSubscribe" /\ x[s].s = s /\ x[s].hs = Append(K[s], OneDone(g, s))
      <4>1. PICK q : q = Append(handlers[s], OneDone(g, s))
        OBVIOUS
      <4>2. x[s] = Subscribe(s, q) /\ K[s] = handlers[s]
        BY <2>11, <4>1, Zenon
      <4>3. Subscribe(s, q).do = "asyncSubscribe" /\ Subscribe(s, q).s = s /\ Subscribe(s, q).hs = q
        BY <3>3, Zenon
      <4>4. q = Append(K[s], OneDone(g, s))
        BY <4>1, <4>2, Zenon
      <4>5. QED
        BY <4>2, <4>3, <4>4
    <3>5. "asyncSubscribe" \in Repeated
      BY DEF Repeated
    <3>6. QED
      BY <3>4, <3>5, Zenon DEF Spreads
  <2>14. posts' = posts \o [i \in 1..Len(order) |-> x[order[i]]]
    <3>1. PICK y, z : /\ y = [i \in 1..Len(order) |-> x[order[i]]]
                      /\ z = [i \in 1..Len(order) |->
                                 Subscribe(order[i], Append(handlers[order[i]], OneDone(g, order[i])))]
      OBVIOUS
    <3>2. \A i \in 1..Len(order) : x[order[i]] =
             Subscribe(order[i], Append(handlers[order[i]], OneDone(g, order[i])))
      BY <1>7, <2>11, Zenon
    <3>3. y = z
      BY <3>1, <3>2, Zenon
    <3>4. QED
      BY <1>9, <3>1, <3>3, Zenon
  <2>15. Owning(T, own, called, k, Revivals)
    BY <1>8, <2>1 DEF Held
  <2>17. Grouped(r, known, x)
    BY <2>6, <2>7, <2>13 DEF Grouped
  <2>19. PICK D : D = Duties(called, k)
    OBVIOUS
  <2>20. PICK b, w : \A t \in D :
            /\ at[t] = "handlers" /\ of[t] \in known => b[t] = "posts" /\ w[t] = pos[of[t]]
            /\ at[t] = "now" => b[t] = "now" /\ w[t] = ix[t] + -1
            /\ at[t] # "handlers" => b[t] = at[t] /\ (at[t] # "now" => w[t] = ix[t])
    <3>1. PICK b, w : /\ b = [t \in D |-> IF at[t] = "handlers" /\ of[t] \in known THEN "posts" ELSE at[t]]
                      /\ w = [t \in D |-> IF at[t] = "handlers" /\ of[t] \in known THEN pos[of[t]]
                                          ELSE IF at[t] = "now" THEN ix[t] + -1 ELSE ix[t]]
      BY Zenon
    <3>2. QED
      BY <3>1
  <2>23. Within(T, own, D)
    BY <2>15, <2>19, OwnedDuties DEF Within
  <2>24. Gathered(K, known, T, own, b, w, pos)
    <3> SUFFICES ASSUME NEW s \in known
                 PROVE  /\ Disjoint(own, K[s])
                        /\ \A j \in 1..Len(K[s]) :
                              K[s][j] \in T /\ \A t \in own[K[s][j]] : b[t] = "posts" /\ w[t] = pos[s]
      BY DEF Gathered
    <3>1. PICK q : q = K[s] /\ Kept(q, T, own, at, of, ix, "handlers", s)
      BY <1>5, <2>1, <2>11 DEF Held
    <3>2. Disjoint(own, q)
      BY <3>1 DEF Kept, Disjoint
    <3>3. \A j \in 1..Len(q) : q[j] \in T /\ \A t \in own[q[j]] : b[t] = "posts" /\ w[t] = pos[s]
      BY <2>20, <2>23, <3>1 DEF Kept, Within
    <3>4. QED
      BY <3>1, <3>2, <3>3
  <2>25. Kept(r.hs, T, own, b, of, w, "groups", g)
    BY <2>7 DEF Kept
  <2>26. Shifted(D, at, ix, b, w, -1) /\ Stays(D, at, of, ix, b, of, w)
    BY <2>20 DEF Shifted, Stays
  <2>27. \A s \in Subscriptions : Kept(handlers'[s], T, own, b, of, w, "handlers", s)
    <3>1. \A s : Kept(<<>>, T, own, b, of, w, "handlers", s)
      BY DEF Kept
    <3>2. QED
      BY <1>3, <3>1
  <2>28. Settled(T, own, at, b, of, w)
    BY <1>1, <1>8, <2>1, <2>6, <2>19, <2>26, <2>27, SettledRest
  <2>29. QED
    BY <1>3, <1>5, <1>7, <1>8, <2>1, <2>3, <2>10, <2>12, <2>13, <2>14, <2>17, <2>24, <2>25, <2>28, HeldSpread
<1>12. QED
  BY <1>10, <1>11


(* A part of a handler is executed: what becomes of groups                 *)
Regrouped(g) ==
    /\ Len(groups') = Len(groups)
    /\ \A i \in 1..Len(groups) :
          /\ groups'[i].hs = groups[i].hs
          /\ groups'[i].left # {} => i # g /\ groups[i].left # {}

(* Everything but what is executed stays where it is, and the parts of g   *)
Remains(D, at, of, ix, b, o, w, g) ==
    \A t \in D : at[t] # "now" /\ ~(at[t] = "groups" /\ of[t] = g) =>
        b[t] = at[t] /\ o[t] = of[t] /\ w[t] = ix[t]

(* The function that runs fulfils its duties or passes them on             *)
LEMMA HeldExecuted ==
    ASSUME Types, NEW T, NEW own, NEW at, NEW of, NEW ix, Held(T, own, at, of, ix),
           NEW D, D = Duties(called, Len(groups)),
           now # <<>>, NEW R, NEW items \in Seq(R), Then(items), UNCHANGED <<handlers, called>>,
           NEW g, Regrouped(g), NEW b, NEW o, NEW w, Shifted(D, at, ix, b, w, Len(items) - 1),
           Remains(D, at, of, ix, b, o, w, g), Queued(items, T, own, b, w, "now"),
           Queued(posts', T, own, b, w, "posts"), ToldOnce', \A t \in D : Fulfilled(t)' => b[t] = "done"
    PROVE  HeldInv'
<1>1. Owning(T, own, called, Len(groups), Revivals) /\ Within(T, own, D)
  BY OwnedDuties DEF Held, Within
<1>2. Extends(T, own, T, own)
  BY DEF Extends
<1>3. Queued(now', T, own, b, w, "now")
  <2>1. Queued(now, T, own, at, ix, "now")
    BY DEF Held
  <2>2. QED
    BY <1>1, <1>2, <2>1, RestQueued
<1>4. \A s \in Subscriptions : Kept(handlers'[s], T, own, b, o, w, "handlers", s)
  <2> SUFFICES ASSUME NEW s \in Subscriptions
               PROVE  Kept(handlers'[s], T, own, b, o, w, "handlers", s)
    OBVIOUS
  <2>1. PICK q : q = handlers'[s] /\ Kept(q, T, own, at, of, ix, "handlers", s)
    BY DEF Held
  <2>2. Kept(q, T, own, b, o, w, "handlers", s)
    BY <1>1, <2>1 DEF Kept, Within, Remains
  <2>3. QED
    BY <2>1, <2>2
<1>5. Revivals' = Revivals /\ Len(groups') = Len(groups)
  BY DEF Regrouped, Revivals
<1>6. GroupsKept(T, own, b, o, w)'
  <2>1. ASSUME NEW i \in 1..Len(groups), groups'[i].left # {}
        PROVE  Kept(groups[i].hs, T, own, b, o, w, "groups", i)
    <3>1. i # g /\ groups[i].left # {}
      BY <2>1 DEF Regrouped
    <3>2. PICK q : q = groups[i].hs /\ Kept(q, T, own, at, of, ix, "groups", i)
      BY <3>1 DEF Held, GroupsKept
    <3>3. Kept(q, T, own, b, o, w, "groups", i)
      BY <1>1, <3>1, <3>2 DEF Kept, Within, Remains
    <3>4. QED
      BY <3>2, <3>3
  <2>2. \A i \in 1..Len(groups) : groups'[i].hs = groups[i].hs
    BY DEF Regrouped
  <2>3. \A i \in 1..Len(groups) : \A j \in 1..Len(groups[i].hs) :
           Notes(groups[i].hs[j]) => groups[i].hs[j].g \notin Revivals
    BY DEF Held, GroupsKept
  <2>4. QED
    BY <1>5, <2>1, <2>2, <2>3 DEF GroupsKept
<1>7. Held(T, own, b, o, w)'
  BY <1>1, <1>3, <1>4, <1>5, <1>6 DEF Held
<1>8. QED
  BY <1>7 DEF HeldInv

(* What a part of a handler does                                           *)
LEMMA HandlerCases ==
    ASSUME handler
    PROVE  \E c, h : /\ now # <<>> /\ c = Head(now) /\ c.do = "handler" /\ h = c.h /\ Bears(c) /\ Borne(c) = h
                     /\ UNCHANGED <<handlers, called>>
                     /\ \/ /\ Tells(h) /\ told' = [told EXCEPT ![h.n] = @ + 1] /\ Then(<<>>)
                           /\ UNCHANGED <<posts, groups>>
                        \/ /\ Notes(h) /\ UNCHANGED <<posts, told>>
                           /\ groups' = [groups EXCEPT ![h.g].left = @ \ {h.s}, ![h.g].ok = @ /\ c.ok]
                           /\ \/ groups'[h.g].left # {} /\ Then(<<>>)
                              \/ /\ groups'[h.g].left = {} /\ groups'[h.g].hs # <<>>
                                 /\ Then(Call(groups'[h.g].hs, groups'[h.g].ok))
                              \/ /\ groups'[h.g].left = {} /\ groups'[h.g].hs = <<>>
                                 /\ Then(<<>>) \/ (groups'[h.g].ok /\ Then(<<Do("publishPostponed")>>))
                        \/ /\ h.do \in Repeated /\ posts' = Append(posts, h) /\ Then(<<>>)
                           /\ UNCHANGED <<groups, told>>
<1>1. PICK c, h : c = Head(now) /\ c = Answer /\ h = Answer.h
  BY DEF Answer
<1>2. now # <<>> /\ c.do = "handler" /\ h = c.h
  BY <1>1, Zenon DEF handler, Runs, Answer
<1>3. Bears(c) /\ Borne(c) = h
  BY <1>2 DEF Bears, Borne
<1>4. UNCHANGED <<handlers, called>>
  BY Zenon DEF handler, calls
<1>5. \/ /\ Tells(h) /\ told' = [told EXCEPT ![h.n] = @ + 1] /\ Then(<<>>)
         /\ UNCHANGED <<posts, groups>>
      \/ /\ Notes(h) /\ UNCHANGED <<posts, told>>
         /\ groups' = [groups EXCEPT ![h.g].left = @ \ {h.s}, ![h.g].ok = @ /\ c.ok]
         /\ LET group == groups'[h.g] IN
            Then(CASE group.left # {} -> <<>>
                   [] group.left = {} /\ group.hs # <<>> -> Call(group.hs, group.ok)
                   [] group.left = {} /\ group.hs = <<>> ->
                         IF group.ok THEN <<Do("publishPostponed")>> ELSE <<>>)
      \/ /\ h.do \in Repeated /\ posts' = Append(posts, h) /\ Then(<<>>)
         /\ UNCHANGED <<groups, told>>
  BY <1>1, Zenon DEF handler, Tells, Notes, Repeated
<1>6. ASSUME NEW group,
             Then(CASE group.left # {} -> <<>>
                   [] group.left = {} /\ group.hs # <<>> -> Call(group.hs, group.ok)
                   [] group.left = {} /\ group.hs = <<>> ->
                         IF group.ok THEN <<Do("publishPostponed")>> ELSE <<>>)
      PROVE  \/ group.left # {} /\ Then(<<>>)
             \/ group.left = {} /\ group.hs # <<>> /\ Then(Call(group.hs, group.ok))
             \/ group.left = {} /\ group.hs = <<>> /\ (Then(<<>>) \/ (group.ok /\ Then(<<Do("publishPostponed")>>)))
  <2>1. CASE group.left # {}
    BY <1>6, <2>1
  <2>2. CASE group.left = {} /\ group.hs # <<>>
    BY <1>6, <2>2
  <2>3. CASE group.left = {} /\ group.hs = <<>>
    BY <1>6, <2>3
  <2>4. QED
    BY <2>1, <2>2, <2>3
<1>7. PICK group : group = groups'[h.g]
  OBVIOUS
<1>8. \/ /\ Tells(h) /\ told' = [told EXCEPT ![h.n] = @ + 1] /\ Then(<<>>)
         /\ UNCHANGED <<posts, groups>>
      \/ /\ Notes(h) /\ UNCHANGED <<posts, told>>
         /\ groups' = [groups EXCEPT ![h.g].left = @ \ {h.s}, ![h.g].ok = @ /\ c.ok]
         /\ \/ groups'[h.g].left # {} /\ Then(<<>>)
            \/ /\ groups'[h.g].left = {} /\ groups'[h.g].hs # <<>>
               /\ Then(Call(groups'[h.g].hs, groups'[h.g].ok))
            \/ /\ groups'[h.g].left = {} /\ groups'[h.g].hs = <<>>
               /\ Then(<<>>) \/ (groups'[h.g].ok /\ Then(<<Do("publishPostponed")>>))
      \/ /\ h.do \in Repeated /\ posts' = Append(posts, h) /\ Then(<<>>)
         /\ UNCHANGED <<groups, told>>
  <2>1. CASE /\ Notes(h) /\ UNCHANGED <<posts, told>>
             /\ groups' = [groups EXCEPT ![h.g].left = @ \ {h.s}, ![h.g].ok = @ /\ c.ok]
             /\ Then(CASE group.left # {} -> <<>>
                   [] group.left = {} /\ group.hs # <<>> -> Call(group.hs, group.ok)
                   [] group.left = {} /\ group.hs = <<>> ->
                         IF group.ok THEN <<Do("publishPostponed")>> ELSE <<>>)
    <3>1. \/ group.left # {} /\ Then(<<>>)
          \/ group.left = {} /\ group.hs # <<>> /\ Then(Call(group.hs, group.ok))
          \/ group.left = {} /\ group.hs = <<>> /\ (Then(<<>>) \/ (group.ok /\ Then(<<Do("publishPostponed")>>)))
      BY <1>6, <2>1
    <3>2. QED
      BY <1>7, <2>1, <3>1, Zenon
  <2>2. QED
    BY <1>5, <1>7, <2>1, Zenon
<1>9. QED
  BY <1>1, <1>2, <1>3, <1>4, <1>8, Zenon

(* A subscription of a group is done                                       *)
LEMMA GroupNoted ==
    ASSUME NEW S, groups \in Seq([left : SUBSET Subscriptions, ok : BOOLEAN, hs : Seq(S)]),
           NEW g \in 1..Len(groups), NEW s, NEW b,
           groups' = [groups EXCEPT ![g].left = @ \ {s}, ![g].ok = @ /\ b]
    PROVE  /\ Len(groups') = Len(groups) /\ groups'[g].hs = groups[g].hs
           /\ groups'[g].left = groups[g].left \ {s} /\ groups[g].hs \in Seq(S)
           /\ \A i \in 1..Len(groups) : i # g => groups'[i] = groups[i]
<1>0. PICK G : G = [left : SUBSET Subscriptions, ok : BOOLEAN, hs : Seq(S)] /\ groups \in Seq(G)
  BY Zenon
<1>1. PICK old : old = groups[g]
  OBVIOUS
<1>2. old \in G
  <2>1. groups \in Seq(G)
    BY <1>0, Zenon
  <2>2. QED
    BY <1>1, <2>1, ElementOfSeq, Zenon
<1>3. PICK new : new = [old EXCEPT !.left = @ \ {s}, !.ok = @ /\ b]
  BY Zenon
<1>4. new.hs = old.hs /\ new.left = old.left \ {s} /\ old.hs \in Seq(S)
  BY <1>0, <1>2, <1>3
<1>5. groups' = [groups EXCEPT ![g] = new]
  BY <1>1, <1>3
<1>6. DOMAIN groups = 1..Len(groups) /\ Len(groups) \in Nat
  BY <1>0
<1>7. DOMAIN groups' = 1..Len(groups) /\ Len(groups') = Len(groups)
  BY <1>0, <1>5, <1>6
<1>8. groups'[g] = new /\ \A i \in 1..Len(groups) : i # g => groups'[i] = groups[i]
  BY <1>0, <1>5, <1>6
<1>9. QED
  BY <1>1, <1>4, <1>7, <1>8


(* What the part that is executed owns                                     *)
LEMMA HeadOwns ==
    ASSUME Types, NEW T, NEW own, NEW at, NEW of, NEW ix, Held(T, own, at, of, ix),
           now # <<>>, NEW c, c = Head(now), NEW h, Bears(c), Borne(c) = h
    PROVE  /\ h \in T /\ \A t \in own[h] : at[t] = "now" /\ ix[t] = 1
           /\ Tells(h) \/ Notes(h) =>
                 h \in Duties(called, Len(groups)) /\ at[h] = "now" /\ ix[h] = 1 /\ ~Fulfilled(h)
<1>1. Owning(T, own, called, Len(groups), Revivals) /\ Queued(now, T, own, at, ix, "now")
  BY DEF Held
<1>2. h \in T /\ \A t \in own[h] : at[t] = "now" /\ ix[t] = 1
  BY <1>1, HeadHeld
<1>3. ASSUME Tells(h) \/ Notes(h)
      PROVE  h \in Duties(called, Len(groups)) /\ at[h] = "now" /\ ix[h] = 1 /\ ~Fulfilled(h)
  <2>1. h \in own[h]
    BY <1>1, <1>2, <1>3 DEF Owning, PartOwns
  <2>2. h \in Duties(called, Len(groups))
    BY <1>1, <1>2, <2>1, OwnedDuties
  <2>3. at[h] = "now" /\ ix[h] = 1
    BY <1>2, <2>1
  <2>4. ~Fulfilled(h)
    BY <2>2, <2>3 DEF Held
  <2>5. QED
    BY <2>2, <2>3, <2>4
<1>4. QED
  BY <1>2, <1>3

(* A caller is told: once                                                  *)
LEMMA HeldTell ==
    ASSUME Types, NEW T, NEW own, NEW at, NEW of, NEW ix, Held(T, own, at, of, ix),
           now # <<>>, NEW c, c = Head(now), NEW h, Bears(c), Borne(c) = h, UNCHANGED <<handlers, called>>,
           Tells(h), told' = [told EXCEPT ![h.n] = @ + 1], Then(<<>>), UNCHANGED <<posts, groups>>
    PROVE  HeldInv'
<1>1. PICK n, D : n = called /\ D = Duties(n, Len(groups))
  OBVIOUS
<1>2. h \in D /\ at[h] = "now" /\ ix[h] = 1 /\ ~Fulfilled(h)
  BY <1>1, HeadOwns
<1>3. h.n \in 1..n /\ h \in Telling(n)
  BY <1>1, <1>2, DutyFacts, DutyKinds
<1>4. told[h.n] = 0
  BY <1>2 DEF Fulfilled
<1>5. told \in [1..MaxCalls -> Nat] /\ n \in 0..MaxCalls /\ MaxCalls \in Nat
  BY <1>1, ClientAssumption DEF Types, TypeOK
<1>6. PICK m : m = h.n /\ m \in 1..MaxCalls /\ ~(m > n)
  BY <1>3, <1>5
<1>7. told'[m] = 1 /\ \A i \in 1..MaxCalls : i # m => told'[i] = told[i]
  <2>1. PICK L : L = 1..MaxCalls
    OBVIOUS
  <2>2. told \in [L -> Nat] /\ m \in L /\ told' = [told EXCEPT ![m] = told[m] + 1] /\ told[m] + 1 = 1
    <3>1. told[m] = 0 /\ told[m] + 1 = 1
      BY <1>4, <1>6
    <3>2. told' = [told EXCEPT ![m] = told[m] + 1]
      BY <1>6, Zenon
    <3>3. told \in [L -> Nat] /\ m \in L
      BY <1>5, <1>6, <2>1, Zenon
    <3>4. QED
      BY <3>1, <3>2, <3>3, Zenon
  <2>3. told'[m] = 1 /\ \A i \in L : i # m => told'[i] = told[i]
    BY <2>2
  <2>4. QED
    BY <2>1, <2>3
<1>8. ToldOnce'
  BY <1>1, <1>6, <1>7 DEF Held, ToldOnce
<1>9. PICK b : Moved(b, D, at, ix, "done", at)
  BY Relocated, Zenon
<1>10. PICK w : Placed(w, D, at, ix, ix, -1)
  BY Repositioned, Zenon
<1>11. \A t \in D : Fulfilled(t)' => b[t] = "done"
  <2> SUFFICES ASSUME NEW t \in D, Fulfilled(t)'
               PROVE  b[t] = "done"
    OBVIOUS
  <2>1. CASE t = h
    BY <1>2, <1>9, <2>1 DEF Moved
  <2>2. CASE t # h
    <3>1. Fulfilled(t)
      <4>1. CASE Notes(t)
        BY <4>1, DutyKinds DEF Fulfilled
      <4>2. CASE ~Notes(t)
        <5>1. Tells(t) /\ t.n \in 1..n /\ t \in Telling(n) /\ told'[t.n] # 0
          BY <1>1, <4>2, DutyFacts DEF Fulfilled
        <5>2. t.n # h.n
          BY <1>3, <2>2, <5>1 DEF Telling
        <5>3. t.n \in 1..MaxCalls
          BY <1>5, <5>1
        <5>4. QED
          BY <1>6, <1>7, <5>1, <5>2, <5>3 DEF Fulfilled
      <4>3. QED
        BY <4>1, <4>2
    <3>2. at[t] = "done"
      BY <1>1, <3>1 DEF Held
    <3>3. QED
      BY <1>9, <3>2 DEF Moved
  <2>3. QED
    BY <2>1, <2>2
<1>12. PICK items : items = <<>> /\ items \in Seq({}) /\ Len(items) - 1 = -1 /\ Then(items)
  <2>1. <<>> \in Seq({}) /\ Len(<<>>) - 1 = -1
    OBVIOUS
  <2>2. QED
    BY <2>1, Zenon
<1>13. Queued(items, T, own, b, w, "now")
  BY <1>12 DEF Queued
<1>14. Shifted(D, at, ix, b, w, Len(items) - 1) /\ Remains(D, at, of, ix, b, of, w, 0)
  BY <1>9, <1>10, <1>12 DEF Shifted, Remains, Moved, Placed
<1>15. Regrouped(0)
  BY DEF Regrouped
<1>16. Queued(posts', T, own, b, w, "posts")
  <2>1. Queued(posts, T, own, at, ix, "posts") /\ Within(T, own, D)
    BY <1>1, OwnedDuties DEF Held, Within
  <2>2. \A t \in D : at[t] = "posts" => b[t] = "posts" /\ w[t] = ix[t]
    BY <1>9, <1>10 DEF Moved, Placed
  <2>3. QED
    BY <2>1, <2>2 DEF Queued, Within
<1>17. QED
  BY <1>1, <1>8, <1>11, <1>12, <1>13, <1>14, <1>15, <1>16, HeldExecuted

(* An operation is repeated                                                *)
LEMMA HeldRepeat ==
    ASSUME Types, NEW T, NEW own, NEW at, NEW of, NEW ix, Held(T, own, at, of, ix),
           now # <<>>, NEW c, c = Head(now), NEW h, Bears(c), Borne(c) = h, UNCHANGED <<handlers, called>>,
           h.do \in Repeated, posts' = Append(posts, h), Then(<<>>), UNCHANGED <<groups, told>>
    PROVE  HeldInv'
<1>1. PICK D : D = Duties(called, Len(groups))
  OBVIOUS
<1>2. h \in T /\ \A t \in own[h] : at[t] = "now" /\ ix[t] = 1
  BY HeadOwns
<1>3. Queued(posts, T, own, at, ix, "posts") /\ Within(T, own, D)
  BY <1>1, OwnedDuties DEF Held, Within
<1>4. PICK R : posts \in Seq(R)
  BY DEF Types, Typed
<1>5. PICK J : J = [t \in D |-> Len(posts) + 1]
  OBVIOUS
<1>6. PICK b : Moved(b, D, at, ix, "posts", at)
  BY Relocated, Zenon
<1>7. PICK w : Placed(w, D, at, ix, J, -1)
  BY Repositioned, Zenon
<1>8. \A t \in D : Fulfilled(t)' => b[t] = "done"
  <2>1. \A t \in D : Fulfilled(t)' => at[t] = "done"
    BY <1>1 DEF Held, Fulfilled
  <2>2. QED
    BY <1>6, <2>1 DEF Moved
<1>9. ToldOnce'
  BY DEF Held, ToldOnce
<1>12. PICK items : items = <<>> /\ items \in Seq({}) /\ Len(items) - 1 = -1 /\ Then(items)
  <2>1. <<>> \in Seq({}) /\ Len(<<>>) - 1 = -1
    OBVIOUS
  <2>2. QED
    BY <2>1, Zenon
<1>13. Queued(items, T, own, b, w, "now")
  BY <1>12 DEF Queued
<1>14. Shifted(D, at, ix, b, w, Len(items) - 1) /\ Remains(D, at, of, ix, b, of, w, 0)
  BY <1>6, <1>7, <1>12 DEF Shifted, Remains, Moved, Placed
<1>15. Regrouped(0)
  BY DEF Regrouped
<1>16. Queued(posts', T, own, b, w, "posts")
  <2>1. PICK extra : extra = <<h>> /\ extra \in Seq({h}) /\ Len(extra) = 1 /\ extra[1] = h
    <3>1. <<h>> \in Seq({h}) /\ Len(<<h>>) = 1 /\ <<h>>[1] = h
      OBVIOUS
    <3>2. QED
      BY <3>1, Zenon
  <2>2. posts' = posts \o extra
    <3>1. PICK B : B = R \cup {h}
      OBVIOUS
    <3>2. posts \in Seq(B) /\ h \in B
      BY <1>4, <3>1, LargerSeq
    <3>3. Append(posts, h) = posts \o <<h>>
      BY <3>2
    <3>4. QED
      BY <2>1, <3>3, Zenon
  <2>3. Remain(D, at, ix, b, w)
    BY <1>6, <1>7 DEF Moved, Placed, Remain
  <2>4. Borne(h) = h
    BY DEF Borne, Repeated
  <2>5. \A t \in own[h] : b[t] = "posts" /\ w[t] = Len(posts) + 1
    BY <1>2, <1>3, <1>5, <1>6, <1>7 DEF Moved, Placed, Within
  <2>6. Added(extra, T, own, b, w, Len(posts))
    BY <1>2, <2>1, <2>4, <2>5 DEF Added
  <2>7. Extends(T, own, T, own)
    BY DEF Extends
  <2>8. QED
    BY <1>3, <1>4, <2>1, <2>2, <2>3, <2>6, <2>7, PostsQueued
<1>17. QED
  BY <1>1, <1>8, <1>9, <1>12, <1>13, <1>14, <1>15, <1>16, HeldExecuted


(* Places after a subscription of group g is done: what is executed is     *)
(* done, and the parts of the group may be called                          *)
Called(b, D, at, of, ix, g) ==
    \A t \in D : b[t] = IF at[t] = "now" /\ ix[t] = 1 THEN "done"
                        ELSE IF at[t] = "groups" /\ of[t] = g THEN "now" ELSE at[t]

(* There are such places                                                   *)
LEMMA PlacesCalled ==
    ASSUME NEW D, NEW at, NEW of, NEW ix, NEW g
    PROVE  \E b : Called(b, D, at, of, ix, g)
<1>1. PICK b : b = [t \in D |-> IF at[t] = "now" /\ ix[t] = 1 THEN "done"
                                ELSE IF at[t] = "groups" /\ of[t] = g THEN "now" ELSE at[t]]
  BY Zenon
<1>2. QED
  BY <1>1 DEF Called

(* What noting it does                                                     *)
Concludes(h, e) ==
    /\ groups' = [groups EXCEPT ![h.g].left = @ \ {h.s}, ![h.g].ok = @ /\ e]
    /\ \/ groups'[h.g].left # {} /\ Then(<<>>)
       \/ /\ groups'[h.g].left = {} /\ groups'[h.g].hs # <<>>
          /\ Then(Call(groups'[h.g].hs, groups'[h.g].ok))
       \/ /\ groups'[h.g].left = {} /\ groups'[h.g].hs = <<>>
          /\ Then(<<>>) \/ Then(<<Do("publishPostponed")>>)

(* A subscription is noted as done: once                                   *)
LEMMA HeldNote ==
    ASSUME Types, Types', NEW T, NEW own, NEW at, NEW of, NEW ix, Held(T, own, at, of, ix),
           now # <<>>, NEW c, c = Head(now), NEW h, Bears(c), Borne(c) = h, UNCHANGED <<handlers, called>>,
           Notes(h), UNCHANGED <<posts, told>>,
           NEW e, Concludes(h, e)
    PROVE  HeldInv'
<1>1. PICK D : D = Duties(called, Len(groups))
  OBVIOUS
<1>2. h \in D /\ at[h] = "now" /\ ix[h] = 1 /\ ~Fulfilled(h)
  BY <1>1, HeadOwns
<1>3. PICK g, s : g = h.g /\ s = h.s /\ g \in 1..Len(groups) /\ s \in groups[g].left /\ h = OneDone(g, s)
  <2>1. h.g \in 1..Len(groups) /\ h = OneDone(h.g, h.s)
    BY <1>1, <1>2, DutyFacts, DutyKinds
  <2>2. h.s \in groups[h.g].left
    BY <1>2 DEF Fulfilled
  <2>3. QED
    BY <2>1, <2>2, Zenon
<1>4. PICK S : groups \in Seq([left : SUBSET Subscriptions, ok : BOOLEAN, hs : Seq(S)])
  BY DEF Types, Typed
<1>5. /\ Len(groups') = Len(groups) /\ groups'[g].hs = groups[g].hs
      /\ groups'[g].left = groups[g].left \ {s} /\ groups[g].hs \in Seq(S)
      /\ \A i \in 1..Len(groups) : i # g => groups'[i] = groups[i]
  <2>1. groups' = [groups EXCEPT ![g].left = @ \ {s}, ![g].ok = @ /\ e]
    BY <1>3, Zenon DEF Concludes
  <2>2. g \in 1..Len(groups)
    BY <1>3
  <2>3. QED
    BY <1>4, <2>1, <2>2, GroupNoted, Zenon
<1>51. /\ groups'[g].left # {} => Then(<<>>)
       /\ groups'[g].left = {} /\ groups'[g].hs # <<>> => Then(Call(groups'[g].hs, groups'[g].ok))
       /\ groups'[g].left = {} /\ groups'[g].hs = <<>> => Then(<<>>) \/ Then(<<Do("publishPostponed")>>)
  BY <1>3, Zenon DEF Concludes
<1>6. PICK hs : hs = groups[g].hs /\ hs \in Seq(S) /\ Kept(hs, T, own, at, of, ix, "groups", g)
  <2>1. groups[g].left # {}
    BY <1>3
  <2>2. Kept(groups[g].hs, T, own, at, of, ix, "groups", g)
    BY <1>3, <2>1, Zenon DEF Held, GroupsKept
  <2>3. QED
    BY <1>5, <2>2, Zenon
<1>7. Within(T, own, D) /\ Queued(posts, T, own, at, ix, "posts")
  BY <1>1, OwnedDuties DEF Held, Within
<1>8. ToldOnce'
  BY DEF Held, ToldOnce
<1>9. \A t \in D : Fulfilled(t)' => t = h \/ at[t] = "done"
  <2> SUFFICES ASSUME NEW t \in D, Fulfilled(t)', t # h
               PROVE  at[t] = "done"
    OBVIOUS
  <2>1. Fulfilled(t)
    <3>1. CASE Tells(t)
      BY <3>1, DutyKinds DEF Fulfilled
    <3>2. CASE ~Tells(t)
      <4>1. Notes(t) /\ t.g \in 1..Len(groups) /\ t = OneDone(t.g, t.s) /\ t.s \notin groups'[t.g].left
        BY <1>1, <3>2, DutyFacts DEF Fulfilled
      <4>2. t.g # g \/ t.s # s
        BY <1>3, <4>1, Zenon
      <4>3. t.s \notin groups[t.g].left
        BY <1>5, <4>1, <4>2
      <4>4. QED
        BY <4>1, <4>3 DEF Fulfilled
    <3>3. QED
      BY <3>1, <3>2
  <2>2. QED
    BY <1>1, <2>1 DEF Held
<1>10. ASSUME NEW x, NEW b, Called(b, D, at, of, ix, x)
       PROVE  \A t \in D : Fulfilled(t)' => b[t] = "done"
  BY <1>2, <1>9, <1>10 DEF Called
<1>11. ASSUME NEW R, NEW items \in Seq(R), Then(items), NEW x, Regrouped(x),
              NEW b, Called(b, D, at, of, ix, x), NEW w, Placed(w, D, at, ix, ix, Len(items) - 1),
              Queued(items, T, own, b, w, "now")
       PROVE  HeldInv'
  <2>1. Shifted(D, at, ix, b, w, Len(items) - 1) /\ Remains(D, at, of, ix, b, of, w, x)
    BY <1>11 DEF Shifted, Remains, Called, Placed
  <2>2. Queued(posts', T, own, b, w, "posts")
    <3>1. \A t \in D : at[t] = "posts" => b[t] = "posts" /\ w[t] = ix[t]
      BY <1>11 DEF Called, Placed
    <3>2. QED
      BY <1>7, <3>1 DEF Queued, Within
  <2>3. QED
    BY <1>1, <1>8, <1>10, <1>11, <2>1, <2>2, HeldExecuted
<1>12. ASSUME NEW x, ~Bears(x), Then(<<>>) \/ Then(<<x>>), NEW y, Regrouped(y)
       PROVE  HeldInv'
  <2>1. PICK items \in Seq({x}) : Then(items) /\ \A j \in 1..Len(items) : ~Bears(items[j])
    BY <1>12, AtMostOne, Zenon
  <2>2. PICK b : Called(b, D, at, of, ix, y)
    BY PlacesCalled, Zenon
  <2>3. PICK w : Placed(w, D, at, ix, ix, Len(items) - 1)
    BY Repositioned, Zenon
  <2>4. Queued(items, T, own, b, w, "now")
    BY <2>1, QueuedPlain
  <2>5. QED
    BY <1>11, <1>12, <2>1, <2>2, <2>3, <2>4
<1>13. ~Bears(Do("publishPostponed"))
  BY BearsNot DEF Combining
<1>14. CASE groups'[g].left # {}
  <2>1. Then(<<>>)
    BY <1>14, <1>51
  <2>2. Regrouped(0)
    <3> SUFFICES ASSUME NEW i \in 1..Len(groups)
                 PROVE  /\ groups'[i].hs = groups[i].hs
                        /\ groups'[i].left # {} => i # 0 /\ groups[i].left # {}
      BY <1>5 DEF Regrouped
    <3>1. CASE i = g
      BY <1>3, <1>5, <3>1
    <3>2. CASE i # g
      BY <1>5, <3>2
    <3>3. QED
      BY <3>1, <3>2
  <2>3. QED
    BY <1>12, <1>13, <2>1, <2>2
<1>15. groups'[g].left = {} => Regrouped(g)
  <2> SUFFICES ASSUME groups'[g].left = {}, NEW i \in 1..Len(groups)
               PROVE  /\ groups'[i].hs = groups[i].hs
                      /\ groups'[i].left # {} => i # g /\ groups[i].left # {}
    BY <1>5 DEF Regrouped
  <2>1. CASE i = g
    BY <1>5, <2>1
  <2>2. CASE i # g
    BY <1>5, <2>2
  <2>3. QED
    BY <2>1, <2>2
<1>16. CASE groups'[g].left = {} /\ hs = <<>>
  <2>1. Then(<<>>) \/ Then(<<Do("publishPostponed")>>)
    BY <1>5, <1>6, <1>16, <1>51, Zenon
  <2>2. QED
    BY <1>12, <1>13, <1>15, <1>16, <2>1
<1>17. CASE groups'[g].left = {} /\ hs # <<>>
  <2>1. PICK ok : ok = groups'[g].ok /\ ok \in BOOLEAN
    <3>1. PICK V : groups' \in Seq([left : SUBSET Subscriptions, ok : BOOLEAN, hs : Seq(V)])
      BY DEF Types, Typed
    <3>2. groups'[g] \in [left : SUBSET Subscriptions, ok : BOOLEAN, hs : Seq(V)]
      BY <1>3, <1>5, <3>1, ElementOfSeq, Zenon
    <3>3. QED
      BY <3>2
  <2>2. Then(Call(hs, ok))
    BY <1>5, <1>6, <1>17, <1>51, <2>1, Zenon
  <2>3. PICK items : items = Call(hs, ok) /\ items \in Seq(Items(S, 0)) /\ Then(items)
    BY <1>6, <2>1, <2>2, CallTyped
  <2>4. PICK b : Called(b, D, at, of, ix, g)
    BY PlacesCalled, Zenon
  <2>5. PICK w : Placed(w, D, at, ix, ix, Len(items) - 1)
    BY Repositioned, Zenon
  <2>6. \A j \in 1..Len(hs) : hs[j] \in T /\ \A t \in own[hs[j]] : b[t] = "now" /\ w[t] = j
    BY <1>6, <1>7, <2>4, <2>5 DEF Kept, Within, Called, Placed
  <2>7. Queued(items, T, own, b, w, "now")
    BY <1>6, <2>3, <2>6, QueuedCall
  <2>8. QED
    BY <1>11, <1>15, <1>17, <2>3, <2>4, <2>5, <2>7
<1>18. QED
  BY <1>14, <1>16, <1>17

(* A part of a handler is executed                                         *)
LEMMA HeldHandler ==
    ASSUME Types, Types', HeldInv, handler
    PROVE  HeldInv'
<1>1. PICK T, own, at, of, ix : Held(T, own, at, of, ix)
  BY DEF HeldInv
<1>2. PICK c, h : /\ now # <<>> /\ c = Head(now) /\ c.do = "handler" /\ h = c.h /\ Bears(c) /\ Borne(c) = h
                  /\ UNCHANGED <<handlers, called>>
                  /\ \/ /\ Tells(h) /\ told' = [told EXCEPT ![h.n] = @ + 1] /\ Then(<<>>)
                        /\ UNCHANGED <<posts, groups>>
                     \/ /\ Notes(h) /\ UNCHANGED <<posts, told>>
                        /\ groups' = [groups EXCEPT ![h.g].left = @ \ {h.s}, ![h.g].ok = @ /\ c.ok]
                        /\ \/ groups'[h.g].left # {} /\ Then(<<>>)
                           \/ /\ groups'[h.g].left = {} /\ groups'[h.g].hs # <<>>
                              /\ Then(Call(groups'[h.g].hs, groups'[h.g].ok))
                           \/ /\ groups'[h.g].left = {} /\ groups'[h.g].hs = <<>>
                              /\ Then(<<>>) \/ Then(<<Do("publishPostponed")>>)
                     \/ /\ h.do \in Repeated /\ posts' = Append(posts, h) /\ Then(<<>>)
                        /\ UNCHANGED <<groups, told>>
  BY HandlerCases, ZenonT(60)
<1>3. CASE /\ Tells(h) /\ told' = [told EXCEPT ![h.n] = @ + 1] /\ Then(<<>>)
           /\ UNCHANGED <<posts, groups>>
  BY <1>1, <1>2, <1>3, HeldTell, Zenon
<1>4. CASE /\ Notes(h) /\ UNCHANGED <<posts, told>>
           /\ groups' = [groups EXCEPT ![h.g].left = @ \ {h.s}, ![h.g].ok = @ /\ c.ok]
           /\ \/ groups'[h.g].left # {} /\ Then(<<>>)
              \/ /\ groups'[h.g].left = {} /\ groups'[h.g].hs # <<>>
                 /\ Then(Call(groups'[h.g].hs, groups'[h.g].ok))
              \/ /\ groups'[h.g].left = {} /\ groups'[h.g].hs = <<>>
                 /\ Then(<<>>) \/ Then(<<Do("publishPostponed")>>)
  <2>1. Concludes(h, c.ok)
    BY <1>4, Zenon DEF Concludes
  <2>2. Notes(h) /\ UNCHANGED <<posts, told>>
    BY <1>4, Zenon
  <2>3. QED
    BY <1>1, <1>2, <2>1, <2>2, HeldNote, Zenon
<1>5. CASE /\ h.do \in Repeated /\ posts' = Append(posts, h) /\ Then(<<>>)
           /\ UNCHANGED <<groups, told>>
  BY <1>1, <1>2, <1>5, HeldRepeat, Zenon
<1>6. QED
  BY <1>2, <1>3, <1>4, <1>5, Zenon


(* Calls from any thread                                                   *)
LEMMA HeldCalling ==
    ASSUME Types, Types', HeldInv, Calling
    PROVE  HeldInv'
<1>1. CASE callPublish
  BY <1>1, HeldCallPublish
<1>2. CASE (\E s \in Subscriptions : callSubscribe(s) \/ callUnsubscribe(s)) \/ callUnsubscribeAll
  <2>1. PICK x : /\ posts' = Append(posts, x) /\ x.do \in Combining /\ x.hs = <<Tell(called')>>
                 /\ called < MaxCalls /\ called' = called + 1
    <3>1. PICK n, hs : n = called' /\ hs = <<Tell(n)>>
      OBVIOUS
    <3>2. /\ \A s : Subscribe(s, hs).do \in Combining /\ Subscribe(s, hs).hs = hs
          /\ \A s : Unsubscribe(s, hs).do \in Combining /\ Unsubscribe(s, hs).hs = hs
          /\ UnsubscribeAll(hs).do \in Combining /\ UnsubscribeAll(hs).hs = hs
      BY DEF Subscribe, Unsubscribe, UnsubscribeAll, Combining
    <3>3. called < MaxCalls /\ called' = called + 1
      BY <1>2, Zenon DEF callSubscribe, callUnsubscribe, callUnsubscribeAll
    <3>4. \/ \E s \in Subscriptions : posts' = Append(posts, Subscribe(s, hs))
          \/ \E s \in Subscriptions : posts' = Append(posts, Unsubscribe(s, hs))
          \/ posts' = Append(posts, UnsubscribeAll(hs))
      BY <1>2, <3>1, Zenon DEF callSubscribe, callUnsubscribe, callUnsubscribeAll
    <3>5. QED
      BY <3>1, <3>2, <3>3, <3>4, Zenon
  <2>2. UNCHANGED <<now, handlers, groups, told>>
    BY <1>2 DEF callSubscribe, callUnsubscribe, callUnsubscribeAll, client, observed
  <2>3. QED
    BY <2>1, <2>2, HeldCall
<1>3. QED
  BY <1>1, <1>2, Zenon DEF Calling

(* Every step                                                              *)
LEMMA HeldStep ==
    ASSUME Types, Types', HeldInv, [Next]_vars
    PROVE  HeldInv'
<1>1. CASE ConnectionStep \/ Disturbance
  <2>1. CASE runPosted
    <3>1. UNCHANGED <<client, observed, calls>>
      BY <1>1 DEF ConnectionStep, Disturbance
    <3>2. QED
      BY <2>1, <3>1, HeldRunPosted
  <2>2. CASE ~runPosted
    BY <1>1, <2>2, HeldConnection
  <2>3. QED
    BY <2>1, <2>2
<1>2. CASE ClientStep
  <2>1. CASE \/ channelCreated \/ channelFailed \/ preparationFails \/ queueDeclared
             \/ consumerCreated \/ channelErrorHandler
    BY <2>1, HeldPreparing
  <2>2. CASE asyncSubscribe \/ asyncUnsubscribe \/ asyncUnsubscribeAll
    BY <2>2, HeldSubscribe, HeldUnsubscribe, HeldUnsubscribeAll
  <2>3. CASE doSubscribePending \/ moveSubscriptionState
    BY <2>3, HeldPending
  <2>4. CASE exchangeDeclared \/ queueBound \/ queueUnbound
    BY <2>4, HeldAnswered
  <2>5. CASE asyncPublish \/ publishPostponed \/ declaredToPublish \/ boundToPublish \/ answerDropped
    BY <2>5, HeldPublishing
  <2>6. CASE reviveIfReconnected
    BY <2>6, HeldRevive
  <2>7. CASE handler
    BY <2>7, HeldHandler
  <2>8. QED
    BY <1>2, <2>1, <2>2, <2>3, <2>4, <2>5, <2>6, <2>7, Zenon DEF ClientStep
<1>3. CASE Calling
  BY <1>3, HeldCalling
<1>4. CASE UNCHANGED vars
  <2>1. UNCHANGED <<now, posts, handlers, groups, told, called>>
    BY <1>4 DEF vars, connectionVars, context, client, observed, calls
  <2>2. QED
    BY <2>1, NowStays, PostsStay, HeldPlain
<1>5. QED
  BY <1>1, <1>2, <1>3, <1>4, Zenon DEF Next

(* Nobody has called anything at first                                     *)
LEMMA HeldInit ==
    ASSUME Init
    PROVE  HeldInv
<1>1. now = <<>> /\ posts = <<>> /\ groups = <<>> /\ called = 0
  BY DEF Init, ConnectionInit
<1>2. 1..Len(now) = {} /\ 1..Len(posts) = {} /\ 1..Len(groups) = {} /\ 1..called = {}
  BY <1>1
<1>3. \A s \in Subscriptions : 1..Len(handlers[s]) = {}
  BY DEF Init
<1>4. \A t : t \notin Duties(called, Len(groups))
  BY <1>2, DutyFacts
<1>5. PICK own : own = [h \in {} |-> {}]
  OBVIOUS
<1>6. own \in [{} -> SUBSET Duties(called, Len(groups))]
  BY <1>5
<1>7. Owning({}, own, called, Len(groups), Revivals)
  BY <1>6 DEF Owning
<1>8. ToldOnce
  BY DEF Init, ToldOnce
<1>9. Held({}, own, own, own, own)
  BY <1>2, <1>3, <1>4, <1>7, <1>8 DEF Held, Queued, Kept, GroupsKept
<1>10. QED
  BY <1>9 DEF HeldInv

(* However handlers are combined, kept and passed on, each call of one is  *)
(* in one place only until it is done                                      *)
THEOREM HeldInvariance == Spec => [](Types /\ OrderInv /\ HeldInv)
<1>1. Init => HeldInv
  BY HeldInit
<1>2. Types /\ Types' /\ HeldInv /\ [Next]_vars => HeldInv'
  BY HeldStep
<1>3. QED
  BY <1>1, <1>2, OrderInvariance, PTL DEF Spec


-----------------------------------------------------------------------------
(* Neither an empty channel nor an empty callback is used                  *)

(* Operations for publishing come from a channel that is READY, those of   *)
(* the preparation from one that is being prepared                         *)
Preparation == {"CREATE_QUEUE", "CREATE_CONSUMER"}
Uses(o) == o.op \notin Tracked
Awaits(o) == o.op \in {"queue", "consume"}
OpFits(o, st) == (Uses(o) => st = "READY") /\ (Awaits(o) => st \in Preparation)
OpFree(o) == ~Uses(o) /\ ~Awaits(o)

(* So do their answers; messages are published when the channel is READY,  *)
(* which a resubscription that was successful implies                      *)
Demands(x, L) ==
    \/ x.do = "publishPostponed"
    \/ x.do = "handler" /\ Notes(x.h) /\ x.ok /\ x.h.g \in L
Fits(x, st, L) == (Demands(x, L) => st = "READY") /\ (x.do = "reply" => OpFits(x.op, st))
Free(x, L) == ~Demands(x, L) /\ (x.do = "reply" => OpFree(x.op))

SafeInv ==
    /\ ~crashed
    /\ channelStatus \in Preparation \cup {"READY"} => channel # 0
    /\ \A i \in 1..Len(ops) : OpFits(ops[i], channelStatus)
    /\ \A i \in 1..Len(now) : Fits(now[i], channelStatus, Revivals)

(* What is new in a step fits                                              *)
NowFits ==
    \A j \in 1..Len(now') : \/ Fits(now'[j], channelStatus', Revivals')
                            \/ \E k \in 1..Len(now) : now'[j] = now[k]
OpsFit ==
    \A j \in 1..Len(ops') : \/ OpFits(ops'[j], channelStatus')
                            \/ \E k \in 1..Len(ops) : ops'[j] = ops[k]

(* The status of the channel is kept                                       *)
LEMMA SafeFrame ==
    ASSUME SafeInv, NowFits, OpsFit, ~crashed', UNCHANGED <<channelStatus, channel, Revivals>>
    PROVE  SafeInv'
<1>1. \A i \in 1..Len(ops') : OpFits(ops'[i], channelStatus')
  BY DEF SafeInv, OpsFit
<1>2. \A i \in 1..Len(now') : Fits(now'[i], channelStatus', Revivals')
  BY DEF SafeInv, NowFits
<1>3. QED
  BY <1>1, <1>2 DEF SafeInv

(* What is free fits any status                                            *)
LEMMA FreeFits ==
    /\ \A o, st : OpFree(o) => OpFits(o, st)
    /\ \A x, st, L : Free(x, L) => Fits(x, st, L)
BY DEF OpFree, OpFits, Free, Fits

(* What fits other status than these is free                               *)
LEMMA OutsideFree ==
    /\ \A o, st : OpFits(o, st) /\ st \notin Preparation \cup {"READY"} => OpFree(o)
    /\ \A x, st, L : Fits(x, st, L) /\ st \notin Preparation \cup {"READY"} => Free(x, L)
BY DEF OpFree, OpFits, Free, Fits

(* Items that fit                                                          *)
LEMMA FitItems ==
    /\ \A o, w, st, L : OpFits(o, st) => Fits(Reply(o, w), st, L)
    /\ \A x, st, L : x.do \notin {"publishPostponed", "handler", "reply"} => Fits(x, st, L)
    /\ \A x, L : x.do = "publishPostponed" => Fits(x, "READY", L)
    /\ \A h, st, L : Fits([do |-> "handler", h |-> h, ok |-> FALSE], st, L)
    /\ \A h, b, L : Fits([do |-> "handler", h |-> h, ok |-> b], "READY", L)
    /\ \A h, b, st, L : (Notes(h) => h.g \notin L) => Fits([do |-> "handler", h |-> h, ok |-> b], st, L)
BY DEF Fits, Demands, Reply

(* The function that runs calls what fits                                  *)
LEMMA ThenFits ==
    ASSUME Types, now # <<>>, NEW R, NEW items \in Seq(R), Then(items),
           \A j \in 1..Len(items) : Fits(items[j], channelStatus', Revivals')
    PROVE  NowFits
<1>1. /\ Len(items) \in Nat /\ Len(now) \in Nat /\ Len(now') = Len(items) + Len(now) - 1
      /\ Follows(Len(items) - 1, Len(items), 1)
      /\ \A j \in 1..Len(now') : j <= Len(items) => j \in 1..Len(items) /\ now'[j] = items[j]
  BY Spliced
<1>2. \A j \in 1..Len(now') : j <= Len(items) \/ j > Len(items)
  BY <1>1
<1>3. \A j \in 1..Len(now') : j > Len(items) => \E k \in 1..Len(now) : now'[j] = now[k]
  BY <1>1 DEF Follows
<1>4. \A j \in 1..Len(now') : j <= Len(items) => Fits(now'[j], channelStatus', Revivals')
  BY <1>1
<1>5. QED
  BY <1>2, <1>3, <1>4 DEF NowFits

(* At most two of them                                                     *)
LEMMA ThenFewFit ==
    ASSUME Types, now # <<>>,
           \/ Then(<<>>)
           \/ \E x : Fits(x, channelStatus', Revivals') /\ Then(<<x>>)
           \/ \E x, y : /\ Fits(x, channelStatus', Revivals') /\ Fits(y, channelStatus', Revivals')
                        /\ Then(<<x, y>>)
    PROVE  NowFits
<1>1. CASE Then(<<>>)
  <2>1. <<>> \in Seq({}) /\ 1..Len(<<>>) = {}
    OBVIOUS
  <2>2. QED
    BY <1>1, <2>1, ThenFits
<1>2. CASE \E x : Fits(x, channelStatus', Revivals') /\ Then(<<x>>)
  <2>1. PICK x : Fits(x, channelStatus', Revivals') /\ Then(<<x>>)
    BY <1>2
  <2>2. <<x>> \in Seq({x}) /\ \A j \in 1..Len(<<x>>) : <<x>>[j] = x
    OBVIOUS
  <2>3. QED
    BY <2>1, <2>2, ThenFits
<1>3. CASE \E x, y : /\ Fits(x, channelStatus', Revivals') /\ Fits(y, channelStatus', Revivals')
                     /\ Then(<<x, y>>)
  <2>1. PICK x, y : /\ Fits(x, channelStatus', Revivals') /\ Fits(y, channelStatus', Revivals')
                    /\ Then(<<x, y>>)
    BY <1>3
  <2>2. <<x, y>> \in Seq({x, y}) /\ \A j \in 1..Len(<<x, y>>) : <<x, y>>[j] \in {x, y}
    OBVIOUS
  <2>3. QED
    BY <2>1, <2>2, ThenFits
<1>4. QED
  BY <1>1, <1>2, <1>3

(* A handler that fits is called                                           *)
LEMMA CallFits ==
    ASSUME Types, now # <<>>, NEW T, NEW hs \in Seq(T), NEW b \in BOOLEAN, Then(Call(hs, b)),
           \/ b = FALSE
           \/ channelStatus' = "READY"
           \/ \A j \in 1..Len(hs) : Notes(hs[j]) => hs[j].g \notin Revivals'
    PROVE  NowFits
<1>1. Call(hs, b) \in Seq(Items(T, 0)) /\ Len(Call(hs, b)) = Len(hs) /\ Len(hs) \in Nat
  BY CallTyped
<1>2. \A j \in 1..Len(hs) : Call(hs, b)[j] = [do |-> "handler", h |-> hs[j], ok |-> b]
  BY DEF Call
<1>3. \A j \in 1..Len(hs) : Fits([do |-> "handler", h |-> hs[j], ok |-> b], channelStatus', Revivals')
  BY FitItems
<1>4. \A j \in 1..Len(Call(hs, b)) : Fits(Call(hs, b)[j], channelStatus', Revivals')
  BY <1>1, <1>2, <1>3
<1>5. QED
  BY <1>1, <1>4, ThenFits

(* An operation on the channel                                             *)
LEMMA OperationFits ==
    ASSUME Types, now # <<>>, NEW o, OpFits(o, channelStatus'), Operation(o, <<>>)
    PROVE  NowFits /\ OpsFit
<1>1. CASE /\ Then(<<>>)
           /\ Len(ops) \in Nat /\ Len(ops') = Len(ops) + 1 /\ ops'[Len(ops) + 1] = o
           /\ \A j \in 1..Len(ops) : ops'[j] = ops[j]
  <2>1. \A j \in 1..Len(ops') : j \in 1..Len(ops) \/ j = Len(ops) + 1
    BY <1>1
  <2>2. OpsFit
    BY <1>1, <2>1 DEF OpsFit
  <2>3. QED
    BY <1>1, <2>2, ThenFewFit
<1>2. CASE ops' = ops /\ Then(<<Reply(o, "not sent")>>)
  <2>1. OpsFit
    BY <1>2, Zenon DEF OpsFit
  <2>2. Fits(Reply(o, "not sent"), channelStatus', Revivals')
    BY FitItems, Zenon
  <2>3. QED
    BY <1>2, <2>1, <2>2, ThenFewFit, Zenon
<1>3. QED
  BY <1>1, <1>2, Operated, Zenon


(* Nothing changes in what is executed, or in the operations               *)
LEMMA NowSame ==
    ASSUME now' = now
    PROVE  NowFits
BY DEF NowFits

(* The same for operations                                                 *)
LEMMA OpsSame ==
    ASSUME ops' = ops
    PROVE  OpsFit
BY DEF OpsFit

(* One more function is executed first                                     *)
LEMMA NowPrefixed ==
    ASSUME Types, NEW x, Fits(x, channelStatus', Revivals'), now' = <<x>> \o now
    PROVE  NowFits
<1>1. PICK S : now \in Seq(S)
  BY Single DEF Types, Typed
<1>2. PICK R : R = S \cup {x}
  OBVIOUS
<1>3. now \in Seq(R) /\ x \in R
  BY <1>1, <1>2, LargerSeq
<1>4. /\ Len(now') = Len(now) + 1 /\ now'[1] = x /\ Len(now) \in Nat
      /\ \A j \in 1..Len(now) : now'[j + 1] = now[j]
  BY <1>3, Prefixed
<1>5. \A j \in 1..Len(now') : j = 1 \/ (j - 1 \in 1..Len(now) /\ j = (j - 1) + 1)
  BY <1>4
<1>6. \A j \in 1..Len(now') : j = 1 \/ \E k \in 1..Len(now) : now'[j] = now[k]
  BY <1>4, <1>5
<1>7. QED
  BY <1>4, <1>6 DEF NowFits

(* Only these functions are executed                                       *)
LEMMA NowOnly ==
    ASSUME NEW x, NEW y, Fits(x, channelStatus', Revivals'), Fits(y, channelStatus', Revivals'),
           now' \in Seq({x, y})
    PROVE  NowFits
<1>1. \A j \in 1..Len(now') : now'[j] = x \/ now'[j] = y
  OBVIOUS
<1>2. QED
  BY <1>1 DEF NowFits

(* An operation is answered                                                *)
LEMMA OpsLess ==
    ASSUME Types, NEW i \in 1..Len(ops), ops' = OpsWithout(i)
    PROVE  OpsFit
<1>1. PICK S : ops \in Seq(S)
  BY DEF Types, Typed
<1>2. Len(ops) \in Nat /\ Len(ops) - 1 \in Nat /\ Len(ops') = Len(ops) - 1
  BY <1>1 DEF OpsWithout
<1>3. \A j \in 1..(Len(ops) - 1) : /\ j \in 1..Len(ops) /\ j + 1 \in 1..Len(ops)
                                   /\ ops'[j] = ops[j] \/ ops'[j] = ops[j + 1]
  BY <1>2 DEF OpsWithout
<1>4. QED
  BY <1>2, <1>3 DEF OpsFit

(* Connection, library and broker leave the client alone                   *)
LEMMA SafeConnection ==
    ASSUME Types, Types', TidyInv, SafeInv, ConnectionStep \/ Disturbance
    PROVE  SafeInv'
<1>0. UNCHANGED <<crashed, channelStatus, channel, groups>> /\ UNCHANGED Revivals
  <2>1. UNCHANGED <<crashed, channelStatus, channel, groups>>
    BY DEF ConnectionStep, Disturbance, client, observed
  <2>2. QED
    BY <2>1 DEF Revivals
<1>1. ~crashed'
  BY <1>0 DEF SafeInv
<1>2. SUFFICES NowFits /\ OpsFit
  BY <1>0, <1>1, SafeFrame
<1>3. \A i \in 1..Len(ops) : OpFits(ops[i], channelStatus')
  BY <1>0 DEF SafeInv
<1>4. /\ \A b : Fits(Inform(b), channelStatus', Revivals')
      /\ Fits(Do("createChannel"), channelStatus', Revivals')
      /\ Fits(ChannelResult(0), channelStatus', Revivals')
      /\ Fits(Do("reviveIfReconnected"), channelStatus', Revivals')
      /\ Fits(Do("fail"), channelStatus', Revivals')
      /\ \A c, w : Fits(ChannelError(c, w), channelStatus', Revivals')
  <2>1. /\ \A b : Inform(b).do = "informReconnection" /\ Do("createChannel").do = "createChannel"
        /\ ChannelResult(0).do = "channelCreated" /\ Do("reviveIfReconnected").do = "reviveIfReconnected"
        /\ Do("fail").do = "fail" /\ \A c, w : ChannelError(c, w).do = "channelError"
    BY DEF Inform, Do, ChannelResult, ChannelError
  <2>2. QED
    BY <2>1, FitItems
<1>5. ASSUME NEW b \in BOOLEAN, callOnComplete(b)
      PROVE  NowFits
  <2>1. PICK x, y : /\ Fits(x, channelStatus', Revivals') /\ Fits(y, channelStatus', Revivals')
                    /\ now' = Repeat(onComplete, x) \o Repeat(pending, y)
    <3>1. Fits(IF b THEN Do("createChannel") ELSE ChannelResult(0), channelStatus', Revivals')
      BY <1>4
    <3>2. QED
      BY <1>4, <1>5, <3>1 DEF callOnComplete
  <2>2. onComplete \in Nat /\ pending \in Nat
    BY DEF Types, TypeOK
  <2>3. Repeat(onComplete, x) \in Seq({x, y}) /\ Repeat(pending, y) \in Seq({x, y})
    BY <2>2 DEF Repeat
  <2>4. now' \in Seq({x, y})
    BY <2>1, <2>3
  <2>5. QED
    BY <2>1, <2>4, NowOnly
<1>6. ASSUME now # <<>>, now' = Tail(now)
      PROVE  NowFits
  <2>1. PICK S : now \in Seq(S)
    BY Single DEF Types, Typed
  <2>2. Tail(now) \in Seq(S)
    BY <1>6, <2>1
  <2>3. <<>> \o Tail(now) = Tail(now)
    BY <2>2
  <2>4. QED
    BY <1>6, <2>3, ThenFewFit DEF Then
<1>7. CASE onReady \/ connectFails
  <2>1. ops' = ops
    BY <1>7 DEF onReady, connectFails, library
  <2>2. now' = now \/ callOnComplete(TRUE) \/ callOnComplete(FALSE)
    BY <1>7 DEF onReady, connectFails
  <2>3. QED
    BY <1>5, <2>1, <2>2, NowSame, OpsSame
<1>8. CASE onLost \/ asyncConnect
  <2>1. ops' = ops /\ now' = now
    BY <1>8 DEF onLost, asyncConnect, context, library
  <2>2. QED
    BY <2>1, NowSame, OpsSame
<1>9. CASE informReconnection(registered)
  <2>1. ops' = ops /\ now # <<>>
    BY <1>9 DEF informReconnection, library, Runs
  <2>2. now' = Tail(now) \/ Then(<<>>) \/ Then(<<Do("reviveIfReconnected")>>)
    BY <1>9 DEF informReconnection, Then
  <2>3. QED
    BY <1>4, <1>6, <2>1, <2>2, OpsSame, ThenFewFit
<1>10. CASE doCreateChannel
  <2>1. now # <<>> /\ now' = Tail(now)
    BY <1>10 DEF doCreateChannel, Runs
  <2>2. PICK S : ops \in Seq(S)
    BY DEF Types, Typed
  <2>3. ops' = ops \/ \E c : ops' = Append(ops, [op |-> "open", ch |-> c, x |-> 0])
    BY <1>10 DEF doCreateChannel
  <2>4. CASE \E c : ops' = Append(ops, [op |-> "open", ch |-> c, x |-> 0])
    <3>1. PICK o : o.op = "open" /\ ops' = Append(ops, o)
      BY <2>4
    <3>2. OpFits(o, channelStatus')
      BY <3>1 DEF OpFits, Uses, Awaits, Tracked
    <3>3. /\ Len(ops) \in Nat /\ Len(ops') = Len(ops) + 1
          /\ \A i \in 1..Len(ops) : ops'[i] = ops[i]
          /\ ops'[Len(ops) + 1] = o
      BY <2>2, <3>1, AppendedAny
    <3>4. \A j \in 1..Len(ops') : j \in 1..Len(ops) \/ j = Len(ops) + 1
      BY <3>3
    <3>5. OpsFit
      BY <3>2, <3>3, <3>4 DEF OpsFit
    <3>6. QED
      BY <1>6, <2>1, <3>5
  <2>5. QED
    BY <1>6, <2>1, <2>3, <2>4, OpsSame
<1>11. CASE runPosted
  <2>1. now' = <<Head(posts)>> /\ ops' = ops /\ posts # <<>>
    BY <1>11 DEF runPosted, library
  <2>2. PICK S : posts \in Seq(S)
    BY DEF Types, Typed
  <2>3. Len(posts) \in Nat \ {0} /\ Head(posts) = posts[1] /\ 1 \in 1..Len(posts)
    BY <2>1, <2>2, EmptySeq
  <2>4. Head(posts).do \in Posted
    BY <2>3 DEF TidyInv, CalmInv
  <2>5. Fits(Head(posts), channelStatus', Revivals')
    BY <2>4, FitItems DEF Posted
  <2>6. PICK x : x = Head(posts)
    OBVIOUS
  <2>7. now' \in Seq({x, x})
    BY <2>1, <2>6
  <2>8. QED
    BY <2>1, <2>5, <2>6, <2>7, NowOnly, OpsSame
<1>12. CASE \E i \in 1..Len(ops) : replySuccess(i)
  <2>1. PICK i \in 1..Len(ops) : ops' = OpsWithout(i) /\ now' = <<Reply(ops[i], "success")>>
    BY <1>12 DEF replySuccess
  <2>2. PICK x : x = Reply(ops[i], "success")
    OBVIOUS
  <2>3. Fits(x, channelStatus', Revivals')
    BY <1>3, <2>2, FitItems
  <2>4. now' \in Seq({x, x})
    BY <2>1, <2>2
  <2>5. QED
    BY <2>1, <2>3, <2>4, NowOnly, OpsLess
<1>13. CASE \E i \in 1..Len(ops), why \in {"retry", "other"} : replyError(i, why)
  <2>1. PICK i \in 1..Len(ops), why \in {"retry", "other"} :
            /\ ops' = OpsWithout(i)
            /\ now' = <<Reply(ops[i], why), ChannelError(ops[i].ch, why)>>
    BY <1>13 DEF replyError
  <2>2. PICK x, y : x = Reply(ops[i], why) /\ y = ChannelError(ops[i].ch, why)
    OBVIOUS
  <2>3. Fits(x, channelStatus', Revivals') /\ Fits(y, channelStatus', Revivals')
    BY <1>3, <1>4, <2>2, FitItems
  <2>4. now' \in Seq({x, y})
    BY <2>1, <2>2
  <2>5. QED
    BY <2>1, <2>3, <2>4, NowOnly, OpsLess
<1>14. CASE \E i \in 1..Len(ops) : failNext(i)
  <2>1. PICK i \in 1..Len(ops) : ops' = OpsWithout(i) /\ now' = <<Reply(ops[i], "error state")>> \o now
    BY <1>14, Zenon DEF failNext
  <2>2. PICK x : x = Reply(ops[i], "error state")
    OBVIOUS
  <2>3. Fits(x, channelStatus', Revivals')
    BY <1>3, <2>2, FitItems
  <2>4. QED
    BY <2>1, <2>2, <2>3, NowPrefixed, OpsLess
<1>15. CASE loseNext
  <2>1. CASE ops = <<>>
    <3>1. now # <<>> /\ now' = Tail(now) /\ ops' = ops
      BY <1>15, <2>1, Zenon DEF loseNext, Runs
    <3>2. QED
      BY <1>6, <3>1, OpsSame
  <2>2. CASE ops # <<>>
    <3>1. ops' = Tail(ops) /\ \E w : now' = <<Reply(Head(ops), w)>> \o now
      BY <1>15, <2>2, Zenon DEF loseNext
    <3>2. PICK S : ops \in Seq(S)
      BY DEF Types, Typed
    <3>3. Len(ops) \in Nat \ {0} /\ Head(ops) = ops[1] /\ 1 \in 1..Len(ops)
      BY <2>2, <3>2, EmptySeq
    <3>4. Len(ops') = Len(ops) - 1 /\ \A j \in 1..(Len(ops) - 1) : ops'[j] = ops[j + 1]
      BY <2>2, <3>1, <3>2, <3>3
    <3>5. \A j \in 1..(Len(ops) - 1) : j + 1 \in 1..Len(ops)
      BY <3>3
    <3>6. OpsFit
      BY <3>4, <3>5 DEF OpsFit
    <3>7. PICK w : now' = <<Reply(Head(ops), w)>> \o now
      BY <3>1
    <3>8. PICK x : x = Reply(Head(ops), w)
      OBVIOUS
    <3>9. Fits(x, channelStatus', Revivals')
      BY <1>3, <3>3, <3>8, FitItems
    <3>10. QED
      BY <3>6, <3>7, <3>8, <3>9, NowPrefixed
  <2>3. QED
    BY <2>1, <2>2
<1>16. CASE connectionBreaks
  <2>1. ops' = ops /\ now' = <<Do("fail")>>
    BY <1>16 DEF connectionBreaks
  <2>2. PICK x : x = Do("fail")
    OBVIOUS
  <2>3. now' \in Seq({x, x})
    BY <2>1, <2>2
  <2>4. QED
    BY <1>4, <2>1, <2>2, <2>3, NowOnly, OpsSame
<1>17. QED
  BY <1>7, <1>8, <1>9, <1>10, <1>11, <1>12, <1>13, <1>14, <1>15, <1>16, Zenon DEF ConnectionStep, Disturbance

(* Calls from any thread                                                   *)
LEMMA SafeCalling ==
    ASSUME SafeInv, Calling
    PROVE  SafeInv'
<1>1. UNCHANGED <<crashed, channelStatus, channel, groups, now, ops>>
  BY DEF Calling, callSubscribe, callUnsubscribe, callUnsubscribeAll, callPublish, client, observed, library
<1>2. UNCHANGED Revivals
  BY <1>1 DEF Revivals
<1>3. ~crashed'
  BY <1>1 DEF SafeInv
<1>4. QED
  BY <1>1, <1>2, <1>3, NowSame, OpsSame, SafeFrame


(* The status of the channel changes where nothing else depends on it      *)
LEMMA SafeMoved ==
    ASSUME Types, now # <<>>, NEW R, NEW items \in Seq(R), Then(items),
           \A j \in 1..Len(items) : Fits(items[j], channelStatus', Revivals'),
           \A i \in 2..Len(now) : Free(now[i], Revivals),
           OpsFit, \A i \in 1..Len(ops) : OpFree(ops[i]),
           UNCHANGED Revivals, ~crashed',
           channelStatus' \in Preparation \cup {"READY"} => channel' # 0
    PROVE  SafeInv'
<1>1. /\ Len(items) \in Nat /\ Len(now) \in Nat /\ Len(now') = Len(items) + Len(now) - 1
      /\ Follows(Len(items) - 1, Len(items), 2)
      /\ \A j \in 1..Len(now') : j <= Len(items) => j \in 1..Len(items) /\ now'[j] = items[j]
  BY Spliced
<1>2. \A j \in 1..Len(now') : j <= Len(items) \/ j > Len(items)
  BY <1>1
<1>3. \A j \in 1..Len(now') : j > Len(items) => \E k \in 2..Len(now) : now'[j] = now[k]
  BY <1>1 DEF Follows
<1>4. \A i \in 2..Len(now) : Fits(now[i], channelStatus', Revivals')
  BY FreeFits
<1>5. \A j \in 1..Len(now') : j <= Len(items) => Fits(now'[j], channelStatus', Revivals')
  BY <1>1
<1>6. \A j \in 1..Len(now') : Fits(now'[j], channelStatus', Revivals')
  BY <1>2, <1>3, <1>4, <1>5
<1>7. \A j \in 1..Len(ops') : OpFits(ops'[j], channelStatus')
  BY FreeFits DEF OpsFit
<1>8. QED
  BY <1>6, <1>7 DEF SafeInv

(* The same, with at most one function called                              *)
LEMMA SafeMovedFew ==
    ASSUME Types, now # <<>>,
           Then(<<>>) \/ \E x : Fits(x, channelStatus', Revivals') /\ Then(<<x>>),
           \A i \in 2..Len(now) : Free(now[i], Revivals),
           OpsFit, \A i \in 1..Len(ops) : OpFree(ops[i]),
           UNCHANGED Revivals, ~crashed',
           channelStatus' \in Preparation \cup {"READY"} => channel' # 0
    PROVE  SafeInv'
<1>1. CASE Then(<<>>)
  <2>1. <<>> \in Seq({}) /\ 1..Len(<<>>) = {}
    OBVIOUS
  <2>2. QED
    BY <1>1, <2>1, SafeMoved
<1>2. CASE \E x : Fits(x, channelStatus', Revivals') /\ Then(<<x>>)
  <2>1. PICK x : Fits(x, channelStatus', Revivals') /\ Then(<<x>>)
    BY <1>2
  <2>2. <<x>> \in Seq({x}) /\ \A j \in 1..Len(<<x>>) : <<x>>[j] = x
    OBVIOUS
  <2>3. QED
    BY <2>1, <2>2, SafeMoved
<1>3. QED
  BY <1>1, <1>2

(* A token is executed: all else is free                                   *)
LEMMA TokenRuns ==
    ASSUME Types, TidyInv, SafeInv, now # <<>>, IsToken(Head(now))
    PROVE  /\ \A i \in 2..Len(now) : Free(now[i], Revivals)
           /\ \A i \in 1..Len(ops) : OpFree(ops[i])
           /\ channelStatus \notin {"REQUEST", "READY"} /\ preparation # "none"
<1>1. Len(now) \in Nat \ {0} /\ now[1] = Head(now)
  BY First
<1>2. /\ \A i \in 1..Len(ops) : ~Prepares(ops[i])
      /\ \A i \in 1..Len(now) : IsToken(now[i]) => i = 1
      /\ channelStatus \notin {"REQUEST", "READY"} /\ preparation # "none"
  BY <1>1, HeadIsToken DEF TidyInv
<1>3. \A i \in 1..Len(ops) : OpFree(ops[i])
  BY <1>2 DEF SafeInv, OpFits, OpFree, Awaits, Prepares
<1>4. \A i \in 2..Len(now) : i \in 1..Len(now) /\ ~IsToken(now[i])
  BY <1>1, <1>2
<1>5. \A i \in 2..Len(now) : Free(now[i], Revivals)
  BY <1>2, <1>4 DEF SafeInv, Fits, OpFits, Free, OpFree, Awaits, IsToken, Prepares
<1>6. QED
  BY <1>2, <1>3, <1>5

(* The preparation of the channel                                          *)
LEMMA SafePreparing ==
    ASSUME Types, Types', TidyInv, SafeInv,
           channelCreated \/ channelFailed \/ preparationFails \/ queueDeclared \/ consumerCreated
    PROVE  SafeInv'
<1>0. UNCHANGED groups /\ now # <<>>
  BY Zenon DEF channelCreated, channelFailed, preparationFails, queueDeclared, consumerCreated, Answered, Runs
<1>1. UNCHANGED Revivals
  BY <1>0 DEF Revivals
<1>2. IsToken(Head(now))
  BY Zenon DEF channelCreated, channelFailed, preparationFails, queueDeclared, consumerCreated, Answered, Runs,
               Answer, IsToken, Prepares
<1>3. /\ \A i \in 2..Len(now) : Free(now[i], Revivals)
      /\ \A i \in 1..Len(ops) : OpFree(ops[i])
      /\ channelStatus \notin {"REQUEST", "READY"} /\ preparation # "none"
  BY <1>0, <1>2, TokenRuns
<1>4. /\ \A st, L : Fits(Do("createChannel"), st, L) /\ Fits(Do("doSubscribePending"), st, L)
      /\ \A L : Fits(Do("publishPostponed"), "READY", L)
  <2>1. /\ Do("createChannel").do = "createChannel" /\ Do("doSubscribePending").do = "doSubscribePending"
        /\ Do("publishPostponed").do = "publishPostponed"
    BY DEF Do
  <2>2. QED
    BY <2>1, FitItems
<1>5. callPreparation(FALSE) => ~crashed' /\ Then(<<>>)
  BY <1>3 DEF callPreparation
<1>6. callPreparation(TRUE) => ~crashed' /\ (Then(<<Do("doSubscribePending")>>) \/ Then(<<Do("publishPostponed")>>))
  BY <1>3 DEF callPreparation
<1>7. ~crashed
  BY DEF SafeInv
<1>8. CASE channelCreated
  <2>1. PICK o, c : o.op = "queue" /\ ops' = Append(ops, o) /\ channel' = c /\ c = Answer.op.ch
    BY <1>8 DEF channelCreated
  <2>2. channelStatus' = "CREATE_QUEUE" /\ Then(<<>>) /\ crashed' = crashed
    BY <1>8 DEF channelCreated, observed
  <2>3. c \in 1..created /\ created \in Nat
    <3>1. Runs("reply") /\ Answer.op.op = "open"
      BY <1>8 DEF channelCreated, Answered
    <3>2. PICK T : TypeOK /\ Typed(T)
      BY DEF Types
    <3>3. QED
      BY <2>1, <3>1, <3>2, AnswerTypes DEF TypeOK
  <2>4. PICK S : ops \in Seq(S)
    BY DEF Types, Typed
  <2>5. /\ Len(ops) \in Nat /\ Len(ops') = Len(ops) + 1
        /\ \A i \in 1..Len(ops) : ops'[i] = ops[i]
        /\ ops'[Len(ops) + 1] = o
    BY <2>1, <2>4, AppendedAny
  <2>6. \A j \in 1..Len(ops') : j \in 1..Len(ops) \/ j = Len(ops) + 1
    BY <2>5
  <2>7. OpFits(o, channelStatus')
    BY <2>1, <2>2 DEF OpFits, Uses, Awaits, Tracked, Preparation
  <2>8. OpsFit
    BY <2>5, <2>6, <2>7 DEF OpsFit
  <2>9. channel' # 0
    BY <2>1, <2>3
  <2>10. QED
    BY <1>0, <1>1, <1>3, <1>7, <2>2, <2>8, <2>9, SafeMovedFew
<1>9. CASE channelFailed
  <2>1. channelStatus' = "REQUEST" /\ callPreparation(FALSE) /\ ops' = ops
    BY <1>9, Zenon DEF channelFailed, library
  <2>2. channelStatus' \notin Preparation \cup {"READY"}
    BY <2>1 DEF Preparation
  <2>3. QED
    BY <1>0, <1>1, <1>3, <1>5, <2>1, <2>2, OpsSame, SafeMovedFew
<1>10. CASE preparationFails
  <2>1. ops' = ops
    BY <1>10, Zenon DEF preparationFails, library
  <2>2. \/ asyncPrepareChannel(preparation) /\ crashed' = crashed
        \/ channelStatus' = "REQUEST" /\ callPreparation(FALSE)
    BY <1>10, Zenon DEF preparationFails
  <2>3. channelStatus' \notin Preparation \cup {"READY"}
    BY <2>2 DEF Preparation, asyncPrepareChannel
  <2>4. ~crashed' /\ (Then(<<>>) \/ Then(<<Do("createChannel")>>))
    <3>1. asyncPrepareChannel(preparation) => Then(<<Do("createChannel")>>)
      BY DEF asyncPrepareChannel
    <3>2. crashed' = crashed => ~crashed'
      BY <1>7
    <3>3. QED
      BY <1>5, <2>2, <3>1, <3>2, Zenon
  <2>5. QED
    BY <1>0, <1>1, <1>3, <1>4, <2>1, <2>3, <2>4, OpsSame, SafeMovedFew
<1>11. CASE consumerCreated
  <2>1. channelStatus' = "READY" /\ callPreparation(TRUE) /\ ops' = ops /\ channel' = channel
    BY <1>11, Zenon DEF consumerCreated, library
  <2>2. channel # 0
    <3>1. Head(now).do = "reply" /\ Head(now).op.op = "consume"
      BY <1>11 DEF consumerCreated, Answered, Runs, Answer
    <3>2. Fits(Head(now), channelStatus, Revivals)
      BY <1>0, First DEF SafeInv
    <3>3. QED
      BY <3>1, <3>2 DEF SafeInv, Fits, OpFits, Awaits
  <2>3. QED
    BY <1>0, <1>1, <1>3, <1>4, <1>6, <2>1, <2>2, OpsSame, SafeMovedFew
<1>12. CASE queueDeclared
  <2>1. channel # 0 /\ channelStatus \in Preparation
    <3>1. Head(now).do = "reply" /\ Head(now).op.op = "queue"
      BY <1>12 DEF queueDeclared, Answered, Runs, Answer
    <3>2. Fits(Head(now), channelStatus, Revivals)
      BY <1>0, First DEF SafeInv
    <3>3. QED
      BY <3>1, <3>2 DEF SafeInv, Fits, OpFits, Awaits
  <2>2. PICK o : Awaits(o) /\ ~Uses(o) /\ Operation(o, <<>>)
    <3>1. \A x : Awaits(Op("consume", x)) /\ Awaits(Op("queue", x)) /\ ~Uses(Op("consume", x)) /\ ~Uses(Op("queue", x))
      BY DEF Op, Awaits, Uses, Tracked
    <3>2. QED
      BY <1>12, <3>1 DEF queueDeclared
  <2>3. channelStatus' \in Preparation /\ channel' = channel
    BY <1>12, <2>1 DEF queueDeclared, Preparation
  <2>4. OpFits(o, channelStatus')
    BY <2>2, <2>3 DEF OpFits
  <2>5. ~crashed'
    BY <2>1, <2>2, Zenon DEF Operation
  <2>6. OpsFit
    BY <1>0, <2>2, <2>4, OperationFits
  <2>7. PICK x : Fits(x, channelStatus', Revivals') /\ (Then(<<>>) \/ Then(<<x>>))
    <3>1. Then(<<>>) \/ \E w : Then(<<Reply(o, w)>>)
      BY <1>0, <2>2, Operated, Zenon
    <3>2. \A w : Fits(Reply(o, w), channelStatus', Revivals')
      BY <2>4, FitItems
    <3>3. QED
      BY <3>1, <3>2, Zenon
  <2>8. QED
    BY <1>0, <1>1, <1>3, <2>1, <2>3, <2>5, <2>6, <2>7, SafeMovedFew
<1>13. QED
  BY <1>8, <1>9, <1>10, <1>11, <1>12


(* An operation on a channel that is READY                                 *)
LEMMA SafeOperated ==
    ASSUME Types, SafeInv, now # <<>>, channelStatus = "READY", NEW o, ~Awaits(o), Operation(o, <<>>),
           UNCHANGED <<channelStatus, channel, groups>>
    PROVE  SafeInv'
<1>1. OpFits(o, channelStatus')
  BY DEF OpFits
<1>2. NowFits /\ OpsFit
  BY <1>1, OperationFits
<1>3. channel # 0
  BY DEF SafeInv
<1>4. ~crashed'
  BY <1>3, Zenon DEF Operation
<1>5. UNCHANGED Revivals
  BY DEF Revivals
<1>6. QED
  BY <1>2, <1>4, <1>5, SafeFrame

(* A function that calls nothing, or publishPostponed() if it is READY     *)
LEMMA SafeThen ==
    ASSUME Types, SafeInv, now # <<>>,
           Then(<<>>) \/ (channelStatus = "READY" /\ Then(<<Do("publishPostponed")>>)),
           UNCHANGED <<ops, crashed, channelStatus, channel, groups>>
    PROVE  SafeInv'
<1>1. UNCHANGED Revivals
  BY DEF Revivals
<1>2. ~crashed'
  BY DEF SafeInv
<1>3. CASE Then(<<>>)
  BY <1>1, <1>2, <1>3, OpsSame, ThenFewFit, SafeFrame
<1>4. CASE channelStatus = "READY" /\ Then(<<Do("publishPostponed")>>)
  <2>1. Do("publishPostponed").do = "publishPostponed"
    BY DEF Do
  <2>2. Fits(Do("publishPostponed"), channelStatus', Revivals')
    BY <1>4, <2>1, FitItems
  <2>3. QED
    BY <1>1, <1>2, <1>4, <2>2, OpsSame, ThenFewFit, SafeFrame
<1>5. QED
  BY <1>3, <1>4

(* A function that calls a handler                                         *)
LEMMA SafeCalled ==
    ASSUME Types, SafeInv, now # <<>>, NEW T, NEW hs \in Seq(T), NEW b \in BOOLEAN, Then(Call(hs, b)),
           \/ b = FALSE
           \/ channelStatus = "READY"
           \/ \A j \in 1..Len(hs) : Notes(hs[j]) => hs[j].g \notin Revivals,
           UNCHANGED <<ops, crashed, channelStatus, channel, Revivals>>
    PROVE  SafeInv'
<1>1. ~crashed'
  BY DEF SafeInv
<1>2. NowFits
  BY CallFits
<1>3. QED
  BY <1>1, <1>2, OpsSame, SafeFrame

(* The preparation of a channel begins                                     *)
LEMMA SafePrepare ==
    ASSUME Types, SafeInv, now # <<>>, channelStatus = "REQUEST", NEW callback, asyncPrepareChannel(callback),
           UNCHANGED <<ops, crashed, groups>>
    PROVE  SafeInv'
<1>1. UNCHANGED Revivals
  BY DEF Revivals
<1>2. channelStatus \notin Preparation \cup {"READY"}
  BY DEF Preparation
<1>3. Len(now) \in Nat
  BY First
<1>4. \A i \in 2..Len(now) : i \in 1..Len(now)
  BY <1>3
<1>5. /\ \A i \in 1..Len(ops) : OpFree(ops[i])
      /\ \A i \in 2..Len(now) : Free(now[i], Revivals)
  BY <1>2, <1>4, OutsideFree DEF SafeInv
<1>6. channelStatus' \notin Preparation \cup {"READY"} /\ ~crashed'
  BY DEF asyncPrepareChannel, Preparation, SafeInv
<1>7. Then(<<Do("createChannel")>>)
  BY DEF asyncPrepareChannel
<1>8. Fits(Do("createChannel"), channelStatus', Revivals')
  <2>1. Do("createChannel").do = "createChannel"
    BY DEF Do
  <2>2. QED
    BY <2>1, FitItems
<1>9. QED
  BY <1>1, <1>5, <1>6, <1>7, <1>8, OpsSame, SafeMovedFew

(* The function that runs fits the status                                  *)
LEMMA HeadFits ==
    ASSUME Types, SafeInv, now # <<>>
    PROVE  Fits(Head(now), channelStatus, Revivals)
BY First DEF SafeInv

(* Publishing                                                              *)
LEMMA SafePublishing ==
    ASSUME Types, SafeInv,
           asyncPublish \/ publishPostponed \/ declaredToPublish \/ boundToPublish \/ answerDropped
              \/ channelErrorHandler
    PROVE  SafeInv'
<1>1. now # <<>> /\ UNCHANGED <<channel, groups>>
  BY Zenon DEF asyncPublish, publishPostponed, declaredToPublish, boundToPublish, answerDropped, Answered, Runs,
               channelErrorHandler, client
<1>2. Fits(Head(now), channelStatus, Revivals)
  BY <1>1, HeadFits
<1>3. \A e : ~Awaits(Op("bind to publish", e)) /\ ~Awaits(Op("declare to publish", e))
  BY Zenon DEF Awaits, Op
<1>4. ASSUME NEW e, asyncPrepareExchangeThenPublish(e)
      PROVE  \E o : ~Awaits(o) /\ Operation(o, <<>>)
  BY <1>3, <1>4, Zenon DEF asyncPrepareExchangeThenPublish
<1>5. CASE asyncPublish
  <2>1. \/ channelStatus = "REQUEST" /\ asyncPrepareChannel("publish") /\ UNCHANGED <<ops, crashed>>
        \/ /\ channelStatus = "READY" /\ UNCHANGED channelStatus
           /\ \E e : asyncPrepareExchangeThenPublish(e)
        \/ Then(<<>>) /\ UNCHANGED <<ops, crashed, channelStatus>>
    BY <1>5, Zenon DEF asyncPublish
  <2>2. QED
    BY <1>1, <1>4, <2>1, SafePrepare, SafeOperated, SafeThen
<1>6. CASE publishPostponed
  <2>1. channelStatus = "READY" /\ UNCHANGED channelStatus
    <3>1. Head(now).do = "publishPostponed" /\ UNCHANGED channelStatus
      BY <1>6, Zenon DEF publishPostponed, Runs
    <3>2. QED
      BY <1>2, <3>1 DEF Fits, Demands
  <2>2. \/ \E e : asyncPrepareExchangeThenPublish(e)
        \/ Then(<<>>) /\ UNCHANGED <<ops, crashed>>
        \/ UNCHANGED <<now, ops, crashed>>
    BY <1>6, Zenon DEF publishPostponed
  <2>3. CASE UNCHANGED <<now, ops, crashed>>
    <3>1. UNCHANGED Revivals /\ ~crashed'
      BY <1>1, <2>3 DEF Revivals, SafeInv
    <3>2. QED
      BY <1>1, <2>1, <2>3, <3>1, NowSame, OpsSame, SafeFrame
  <2>4. QED
    BY <1>1, <1>4, <2>1, <2>2, <2>3, SafeOperated, SafeThen
<1>7. CASE declaredToPublish \/ boundToPublish
  <2>1. channelStatus = "READY" /\ UNCHANGED channelStatus
    <3>1. Head(now).do = "reply" /\ UNCHANGED channelStatus
      BY <1>7, Zenon DEF declaredToPublish, boundToPublish, Answered, Runs
    <3>2. Head(now).op.op \notin Tracked
      BY <1>7, Zenon DEF declaredToPublish, boundToPublish, Answered, Runs, Answer, Tracked
    <3>3. QED
      BY <1>2, <3>1, <3>2 DEF Fits, OpFits, Uses
  <2>2. \/ \E e : Operation(Op("bind to publish", e), <<>>)
        \/ /\ Then(<<>>) \/ Then(<<Do("publishPostponed")>>)
           /\ UNCHANGED <<ops, crashed>>
    <3>1. CASE boundToPublish
      BY <3>1, Zenon DEF boundToPublish, library, observed
    <3>2. CASE declaredToPublish
      <4>1. \/ \E e : Operation(Op("bind to publish", e), <<>>)
            \/ /\ Then(<<>>) \/ Then(<<Do("publishPostponed")>>)
               /\ UNCHANGED ops /\ crashed' = (channel = 0)
        BY <3>2, Zenon DEF declaredToPublish
      <4>2. channel # 0 /\ ~crashed /\ crashed \in BOOLEAN
        BY <2>1, HasClientTypes DEF SafeInv, Types, ClientTypes
      <4>3. crashed' = (channel = 0) => crashed' = crashed
        BY <4>2
      <4>4. QED
        BY <4>1, <4>3, Zenon
    <3>3. QED
      BY <1>7, <3>1, <3>2, Zenon
  <2>3. \/ \E o : ~Awaits(o) /\ Operation(o, <<>>)
        \/ /\ Then(<<>>) \/ Then(<<Do("publishPostponed")>>)
           /\ UNCHANGED <<ops, crashed>>
    BY <1>3, <2>2, Zenon
  <2>4. QED
    BY <1>1, <2>1, <2>3, SafeOperated, SafeThen
<1>8. CASE answerDropped \/ channelErrorHandler
  <2>1. Then(<<>>) /\ UNCHANGED <<ops, crashed, channelStatus>>
    BY <1>8 DEF answerDropped, channelErrorHandler, library, client, observed
  <2>2. QED
    BY <1>1, <2>1, SafeThen
<1>9. QED
  BY <1>5, <1>6, <1>7, <1>8

(* Subscriptions that are not handled with a channel yet: it is not READY  *)
LEMMA StatusReady ==
    ASSUME TidyInv, NEW s \in Subscriptions, subscriptions[s] \notin {"none", "PENDING"}
    PROVE  channelStatus = "READY"
BY DEF TidyInv, WorkInv

(* Pending subscriptions, and exchanges and queues of subscriptions        *)
LEMMA SafePending ==
    ASSUME Types, TidyInv, SafeInv, doSubscribePending \/ moveSubscriptionState
    PROVE  SafeInv'
<1>1. now # <<>> /\ UNCHANGED <<channel, groups, channelStatus>>
  BY DEF doSubscribePending, moveSubscriptionState, Runs
<1>2. CASE moveSubscriptionState
  <2>1. PICK o : ~Awaits(o) /\ Operation(o, <<>>)
    <3>1. \A s : ~Awaits(Op("bind", s)) /\ ~Awaits(Op("declare", s))
      BY DEF Awaits, Op
    <3>2. QED
      BY <1>2, <3>1 DEF moveSubscriptionState
  <2>2. Head(now).do = "moveSubscriptionState"
    BY <1>2 DEF moveSubscriptionState, Runs
  <2>3. PICK T : TypeOK /\ Typed(T)
    BY DEF Types
  <2>4. Head(now) \in Items(T, created) /\ created \in Nat
    BY <1>1, <2>2, <2>3, Running
  <2>5. Head(now).s \in Subscriptions
    BY <2>2, <2>4, ItemFacts
  <2>6. now[1] = Head(now) /\ 1 \in 1..Len(now)
    BY <1>1, First
  <2>7. channelStatus = "READY"
    BY <2>2, <2>5, <2>6 DEF TidyInv, WorkInv, Moves
  <2>8. QED
    BY <1>1, <2>1, <2>7, SafeOperated
<1>3. CASE doSubscribePending
  <2> DEFINE todo == {s \in Subscriptions : subscriptions[s] = "PENDING"}
             order == SetToSeq(todo)
             items == [i \in 1..Len(order) |-> Move(order[i])]
  <2>1. Then(items) /\ UNCHANGED <<ops, crashed>>
    BY <1>3 DEF doSubscribePending, library, observed
  <2>2. Len(order) \in Nat
    BY Listed
  <2>3. \A j \in 1..Len(order) : items[j].do = "moveSubscriptionState"
    BY DEF Move
  <2> HIDE DEF order
  <2>4. items \in Seq({items[i] : i \in 1..Len(order)}) /\ Len(items) = Len(order)
    BY <2>2
  <2> HIDE DEF items
  <2>5. \A j \in 1..Len(items) : Fits(items[j], channelStatus', Revivals')
    BY <2>3, <2>4, FitItems
  <2>6. NowFits
    BY <1>1, <2>1, <2>4, <2>5, ThenFits
  <2>7. UNCHANGED Revivals /\ ~crashed'
    BY <1>1, <2>1 DEF Revivals, SafeInv
  <2>8. QED
    BY <1>1, <2>1, <2>6, <2>7, OpsSame, SafeFrame
<1>4. QED
  BY <1>2, <1>3


(* Handlers of unsubscriptions are not parts of a revival                  *)
LEMMA HeldHandlers ==
    ASSUME HeldInv
    PROVE  /\ \A i \in 1..Len(now) : now[i].do \in {"asyncUnsubscribe", "asyncUnsubscribeAll"} =>
                 /\ now[i].hs # <<>>
                 /\ \A j \in 1..Len(now[i].hs) : Notes(now[i].hs[j]) => now[i].hs[j].g \notin Revivals
           /\ \A g \in 1..Len(groups) : \A j \in 1..Len(groups[g].hs) :
                 Notes(groups[g].hs[j]) => groups[g].hs[j].g \notin Revivals
<1>1. PICK T, own, at, of, ix : Held(T, own, at, of, ix)
  BY DEF HeldInv
<1>2. ASSUME NEW i \in 1..Len(now), now[i].do \in {"asyncUnsubscribe", "asyncUnsubscribeAll"}
      PROVE  /\ now[i].hs # <<>>
             /\ \A j \in 1..Len(now[i].hs) : Notes(now[i].hs[j]) => now[i].hs[j].g \notin Revivals
  <2>1. PICK x : x = now[i]
    OBVIOUS
  <2>2. x.do \in Combining /\ x.do # "asyncSubscribe" /\ Bears(x) /\ Borne(x) = x
    BY <1>2, <2>1 DEF Bears, Borne, Combining
  <2>3. x \in T
    <3>1. Borne(x) \in T
      BY <1>1, <2>1, <2>2 DEF Held, Queued
    <3>2. QED
      BY <2>2, <3>1
  <2>4. PartOwns(x, T, own, Revivals)
    BY <1>1, <2>3 DEF Held, Owning
  <2>5. x.hs # <<>> /\ \A j \in 1..Len(x.hs) : Notes(x.hs[j]) => x.hs[j].g \notin Revivals
    BY <2>2, <2>4 DEF PartOwns
  <2>6. QED
    BY <2>1, <2>5
<1>3. \A g \in 1..Len(groups) : \A j \in 1..Len(groups[g].hs) :
         Notes(groups[g].hs[j]) => groups[g].hs[j].g \notin Revivals
  BY <1>1 DEF Held, GroupsKept
<1>4. QED
  BY <1>2, <1>3

(* asyncSubscribe()                                                        *)
LEMMA SafeSubscribe ==
    ASSUME Types, TidyInv, SafeInv, asyncSubscribe
    PROVE  SafeInv'
<1>1. PICK c : c = Head(now) /\ c = Answer /\ now # <<>> /\ c.do = "asyncSubscribe" /\ c.do \in Combining
  BY DEF asyncSubscribe, Runs, Answer, Combining
<1>2. PICK S : c.hs \in Seq(S) /\ c.s \in Subscriptions
  BY <1>1, HandedTypes
<1>3. UNCHANGED <<ops, crashed, channel, groups>>
  BY DEF asyncSubscribe, library
<1>4. \/ Then(<<>>) /\ UNCHANGED channelStatus
      \/ subscriptions[c.s] = "READY" /\ Then(Call(c.hs, TRUE)) /\ UNCHANGED channelStatus
      \/ channelStatus = "REQUEST" /\ asyncPrepareChannel("subscribe")
      \/ Then(<<Do("doSubscribePending")>>) /\ UNCHANGED channelStatus
  BY <1>1, Zenon DEF asyncSubscribe
<1>5. CASE Then(<<>>) /\ UNCHANGED channelStatus
  BY <1>1, <1>3, <1>5, SafeThen
<1>6. CASE subscriptions[c.s] = "READY" /\ Then(Call(c.hs, TRUE)) /\ UNCHANGED channelStatus
  <2>1. channelStatus = "READY"
    BY <1>2, <1>6, StatusReady
  <2>2. UNCHANGED Revivals
    BY <1>3 DEF Revivals
  <2>3. QED
    BY <1>1, <1>2, <1>3, <1>6, <2>1, <2>2, SafeCalled
<1>7. CASE channelStatus = "REQUEST" /\ asyncPrepareChannel("subscribe")
  BY <1>1, <1>3, <1>7, SafePrepare
<1>8. CASE Then(<<Do("doSubscribePending")>>) /\ UNCHANGED channelStatus
  <2>1. Do("doSubscribePending").do = "doSubscribePending"
    BY DEF Do
  <2>2. Fits(Do("doSubscribePending"), channelStatus', Revivals')
    BY <2>1, FitItems
  <2>3. NowFits
    BY <1>1, <1>8, <2>2, ThenFewFit
  <2>4. UNCHANGED Revivals /\ ~crashed'
    BY <1>3 DEF Revivals, SafeInv
  <2>5. QED
    BY <1>3, <1>8, <2>3, <2>4, OpsSame, SafeFrame
<1>9. QED
  BY <1>4, <1>5, <1>6, <1>7, <1>8

(* asyncUnsubscribe()                                                      *)
LEMMA SafeUnsubscribe ==
    ASSUME Types, TidyInv, HeldInv, SafeInv, asyncUnsubscribe
    PROVE  SafeInv'
<1>1. PICK c : c = Head(now) /\ c = Answer /\ now # <<>> /\ c.do = "asyncUnsubscribe" /\ c.do \in Combining
  BY DEF asyncUnsubscribe, Runs, Answer, Combining
<1>2. PICK S : c.hs \in Seq(S) /\ c.s \in Subscriptions
  BY <1>1, HandedTypes
<1>3. UNCHANGED <<channelStatus, channel, groups>>
  BY DEF asyncUnsubscribe
<1>4. \/ Then(Call(c.hs, TRUE)) /\ UNCHANGED <<ops, crashed>>
      \/ Then(<<>>) /\ UNCHANGED <<ops, crashed>>
      \/ subscriptions[c.s] = "READY" /\ Operation(Op("unbind", c.s), <<>>)
  BY <1>1, Zenon DEF asyncUnsubscribe
<1>5. CASE Then(Call(c.hs, TRUE)) /\ UNCHANGED <<ops, crashed>>
  <2>1. now[1] = c /\ 1 \in 1..Len(now)
    BY <1>1, First
  <2>2. \A j \in 1..Len(c.hs) : Notes(c.hs[j]) => c.hs[j].g \notin Revivals
    BY <1>1, <2>1, HeldHandlers
  <2>3. UNCHANGED Revivals
    BY <1>3 DEF Revivals
  <2>4. QED
    BY <1>1, <1>2, <1>3, <1>5, <2>2, <2>3, SafeCalled
<1>6. CASE Then(<<>>) /\ UNCHANGED <<ops, crashed>>
  BY <1>1, <1>3, <1>6, SafeThen
<1>7. CASE subscriptions[c.s] = "READY" /\ Operation(Op("unbind", c.s), <<>>)
  <2>1. channelStatus = "READY"
    BY <1>2, <1>7, StatusReady
  <2>2. PICK o : ~Awaits(o) /\ Operation(o, <<>>)
    <3>1. ~Awaits(Op("unbind", c.s))
      BY DEF Awaits, Op
    <3>2. QED
      BY <1>7, <3>1
  <2>3. QED
    BY <1>1, <1>3, <2>1, <2>2, SafeOperated
<1>8. QED
  BY <1>4, <1>5, <1>6, <1>7

(* asyncUnsubscribeAll(): its group is none of a revival                   *)
LEMMA SafeUnsubscribeAll ==
    ASSUME Types, TidyInv, HeldInv, SafeInv, asyncUnsubscribeAll
    PROVE  SafeInv'
<1>1. PICK c : c = Head(now) /\ c = Answer /\ now # <<>> /\ c.do = "asyncUnsubscribeAll" /\ c.do \in Combining
  BY DEF asyncUnsubscribeAll, Runs, Answer, Combining
<1>2. PICK S : c.hs \in Seq(S)
  BY <1>1, HandedTypes
<1>3. UNCHANGED <<ops, crashed, channelStatus, channel>>
  BY DEF asyncUnsubscribeAll, library, observed
<1>4. now[1] = c /\ 1 \in 1..Len(now)
  BY <1>1, First
<1>5. c.hs # <<>> /\ \A j \in 1..Len(c.hs) : Notes(c.hs[j]) => c.hs[j].g \notin Revivals
  BY <1>1, <1>4, HeldHandlers
<1>6. \/ Then(Call(c.hs, TRUE)) /\ UNCHANGED groups
      \/ Then(<<>>) /\ \E k : groups' = Append(groups, [left |-> k, ok |-> TRUE, hs |-> c.hs])
  BY <1>1, Zenon DEF asyncUnsubscribeAll
<1>7. CASE Then(Call(c.hs, TRUE)) /\ UNCHANGED groups
  <2>1. UNCHANGED Revivals
    BY <1>7 DEF Revivals
  <2>2. QED
    BY <1>1, <1>2, <1>3, <1>5, <1>7, <2>1, SafeCalled
<1>8. CASE Then(<<>>) /\ \E k : groups' = Append(groups, [left |-> k, ok |-> TRUE, hs |-> c.hs])
  <2>1. PICK r : r.hs = c.hs /\ groups' = Append(groups, r)
    BY <1>8
  <2>2. PICK G : groups \in Seq(G)
    BY DEF Types, Typed
  <2>3. /\ Len(groups) \in Nat /\ Len(groups') = Len(groups) + 1
        /\ \A i \in 1..Len(groups) : groups'[i] = groups[i]
        /\ groups'[Len(groups) + 1] = r
    BY <2>1, <2>2, AppendedAny
  <2>4. /\ \A i \in 1..Len(groups') : i \in 1..Len(groups) \/ i = Len(groups) + 1
        /\ \A i \in 1..Len(groups) : i \in 1..Len(groups')
    BY <2>3
  <2>5. UNCHANGED Revivals
    <3>1. \A g : g \in 1..Len(groups') /\ groups'[g].hs = <<>> <=> g \in 1..Len(groups) /\ groups[g].hs = <<>>
      BY <1>5, <2>1, <2>3, <2>4
    <3>2. QED
      BY <3>1, Zenon DEF Revivals
  <2>6. NowFits
    BY <1>1, <1>8, ThenFewFit
  <2>7. ~crashed'
    BY <1>3 DEF SafeInv
  <2>8. QED
    BY <1>3, <2>5, <2>6, <2>7, OpsSame, SafeFrame
<1>9. QED
  BY <1>6, <1>7, <1>8

(* Answers to what a subscription needs                                    *)
LEMMA SafeAnswered ==
    ASSUME Types, TidyInv, SafeInv, exchangeDeclared \/ queueBound \/ queueUnbound
    PROVE  SafeInv'
<1>1. Runs("reply") /\ Answer.op.op \in {"declare", "bind", "unbind"}
  BY Zenon DEF exchangeDeclared, queueBound, queueUnbound, Answered
<1>2. now # <<>> /\ channelStatus = "READY" /\ Answer.op.x \in Subscriptions
  BY <1>1, AnswerIsWork
<1>3. UNCHANGED <<ops, crashed, channelStatus, channel, groups>>
  <2>1. CASE exchangeDeclared \/ queueUnbound
    BY <2>1, Zenon DEF exchangeDeclared, queueUnbound, library, observed
  <2>2. CASE queueBound
    <3>1. UNCHANGED <<ops, channelStatus, channel, groups>>
      BY <2>2, Zenon DEF queueBound, library
    <3>2. crashed' \in BOOLEAN /\ (crashed' => channel = 0)
      BY <2>2, Zenon DEF queueBound
    <3>3. channel # 0 /\ ~crashed /\ crashed \in BOOLEAN
      BY <1>2, HasClientTypes DEF SafeInv, Types, ClientTypes
    <3>4. QED
      BY <3>1, <3>2, <3>3
  <2>3. QED
    BY <2>1, <2>2
<1>4. UNCHANGED Revivals
  BY <1>3 DEF Revivals
<1>5. PICK s \in Subscriptions : s = Answer.op.x
  BY <1>2
<1>6. PICK T : handlers[s] \in Seq(T)
  BY DEF Types, Typed
<1>7. Success \in BOOLEAN
  BY DEF Success
<1>8. \/ Then(<<>>) \/ Then(<<Do("publishPostponed")>>)
      \/ Then(<<Move(s), Do("publishPostponed")>>)
      \/ \E b \in BOOLEAN : Then(Call(handlers[s], b))
  <2>1. CASE exchangeDeclared
    BY <1>5, <2>1, Zenon DEF exchangeDeclared, Report
  <2>2. CASE queueBound
    BY <1>5, <2>2, Zenon DEF queueBound, Report
  <2>3. CASE queueUnbound
    BY <1>5, <1>7, <2>3, Zenon DEF queueUnbound, Report
  <2>4. QED
    BY <2>1, <2>2, <2>3
<1>9. CASE Then(<<>>) \/ Then(<<Do("publishPostponed")>>)
  BY <1>2, <1>3, <1>9, SafeThen
<1>10. CASE \E b \in BOOLEAN : Then(Call(handlers[s], b))
  BY <1>2, <1>3, <1>4, <1>6, <1>10, SafeCalled
<1>11. CASE Then(<<Move(s), Do("publishPostponed")>>)
  <2>1. Move(s).do = "moveSubscriptionState" /\ Do("publishPostponed").do = "publishPostponed"
    BY DEF Move, Do
  <2>2. Fits(Move(s), channelStatus', Revivals') /\ Fits(Do("publishPostponed"), channelStatus', Revivals')
    BY <1>2, <1>3, <2>1, FitItems
  <2>3. NowFits
    BY <1>2, <1>11, <2>2, ThenFewFit
  <2>4. ~crashed'
    BY <1>3 DEF SafeInv
  <2>5. QED
    BY <1>3, <1>4, <2>3, <2>4, OpsSame, SafeFrame
<1>12. QED
  BY <1>8, <1>9, <1>10, <1>11


(* A group succeeds only if each of its parts does                         *)
LEMMA GroupOk ==
    ASSUME NEW S, groups \in Seq([left : SUBSET Subscriptions, ok : BOOLEAN, hs : Seq(S)]),
           NEW g \in 1..Len(groups), NEW s, NEW b \in BOOLEAN,
           groups' = [groups EXCEPT ![g].left = @ \ {s}, ![g].ok = @ /\ b]
    PROVE  groups'[g].ok \in BOOLEAN /\ (groups'[g].ok => b)
<1>0. PICK G : G = [left : SUBSET Subscriptions, ok : BOOLEAN, hs : Seq(S)] /\ groups \in Seq(G)
  BY Zenon
<1>1. PICK old : old = groups[g]
  OBVIOUS
<1>2. old \in G
  <2>1. groups \in Seq(G)
    BY <1>0, Zenon
  <2>2. QED
    BY <1>1, <2>1, ElementOfSeq, Zenon
<1>3. PICK new : new = [old EXCEPT !.left = @ \ {s}, !.ok = @ /\ b]
  BY Zenon
<1>4. new.ok = (old.ok /\ b) /\ old.ok \in BOOLEAN
  BY <1>0, <1>2, <1>3
<1>5. groups' = [groups EXCEPT ![g] = new]
  BY <1>1, <1>3
<1>6. groups'[g] = new
  <2>1. DOMAIN groups = 1..Len(groups)
    BY <1>0
  <2>2. QED
    BY <1>0, <1>5, <2>1
<1>7. (old.ok /\ b) \in BOOLEAN /\ ((old.ok /\ b) => b)
  OBVIOUS
<1>8. QED
  BY <1>4, <1>6, <1>7, Zenon

(* A part of a handler is executed: messages are published when all        *)
(* resubscriptions were successful, on a channel that is READY             *)
LEMMA SafeHandler ==
    ASSUME Types, HeldInv, SafeInv, handler
    PROVE  SafeInv'
<1>1. PICK c, h : /\ now # <<>> /\ c = Head(now) /\ c.do = "handler" /\ h = c.h
                  /\ \/ Then(<<>>) /\ UNCHANGED groups
                     \/ /\ Notes(h)
                        /\ groups' = [groups EXCEPT ![h.g].left = @ \ {h.s}, ![h.g].ok = @ /\ c.ok]
                        /\ \/ Then(<<>>)
                           \/ Then(Call(groups'[h.g].hs, groups'[h.g].ok))
                           \/ groups'[h.g].hs = <<>> /\ groups'[h.g].ok /\ Then(<<Do("publishPostponed")>>)
  BY HandlerCases, Zenon
<1>2. UNCHANGED <<ops, crashed, channelStatus, channel>>
  BY Zenon DEF handler, library
<1>3. CASE Then(<<>>) /\ UNCHANGED groups
  BY <1>1, <1>2, <1>3, SafeThen
<1>4. ASSUME Notes(h),
             groups' = [groups EXCEPT ![h.g].left = @ \ {h.s}, ![h.g].ok = @ /\ c.ok],
             \/ Then(<<>>)
             \/ Then(Call(groups'[h.g].hs, groups'[h.g].ok))
             \/ groups'[h.g].hs = <<>> /\ groups'[h.g].ok /\ Then(<<Do("publishPostponed")>>)
      PROVE  SafeInv'
  <2>1. PICK T : TypeOK /\ Typed(T)
    BY DEF Types
  <2>2. c \in Items(T, created) /\ created \in Nat
    BY <1>1, <2>1, Running
  <2>3. h \in T /\ c.ok \in BOOLEAN
    BY <1>1, <2>2, ItemFacts
  <2>4. PICK g, s, b : g = h.g /\ s = h.s /\ b = c.ok /\ b \in BOOLEAN /\ g \in 1..Len(groups)
    <3>1. h \in Parts(T, Len(groups))
      BY <2>1, <2>3 DEF Typed
    <3>2. h.g \in 1..Len(groups)
      BY <1>4, <3>1, Zenon DEF Parts, Repeated, Notes
    <3>3. QED
      BY <2>3, <3>2
  <2>5. /\ groups \in Seq([left : SUBSET Subscriptions, ok : BOOLEAN, hs : Seq(T)])
        /\ groups' = [groups EXCEPT ![g].left = @ \ {s}, ![g].ok = @ /\ b]
    BY <1>4, <2>1, <2>4, Zenon DEF Typed
  <2>6. /\ Len(groups') = Len(groups) /\ groups'[g].hs = groups[g].hs /\ groups[g].hs \in Seq(T)
        /\ \A i \in 1..Len(groups) : i # g => groups'[i] = groups[i]
    BY <2>4, <2>5, GroupNoted, Zenon
  <2>7. groups'[g].ok \in BOOLEAN /\ (groups'[g].ok => b)
    BY <2>4, <2>5, GroupOk, Zenon
  <2>8. UNCHANGED Revivals
    <3>1. \A i \in 1..Len(groups) : groups'[i].hs = groups[i].hs
      BY <2>6, Zenon
    <3>2. QED
      BY <2>6, <3>1, Zenon DEF Revivals
  <2>9. CASE Then(<<>>)
    <3>1. NowFits
      BY <1>1, <2>9, ThenFewFit
    <3>2. ~crashed'
      BY <1>2 DEF SafeInv
    <3>3. QED
      BY <1>2, <2>8, <3>1, <3>2, OpsSame, SafeFrame
  <2>10. CASE Then(Call(groups'[h.g].hs, groups'[h.g].ok))
    <3>1. PICK hs, ok : hs = groups[g].hs /\ ok = groups'[g].ok /\ hs \in Seq(T) /\ ok \in BOOLEAN
      BY <2>6, <2>7, Zenon
    <3>2. Then(Call(hs, ok))
      BY <2>4, <2>6, <2>10, <3>1, Zenon
    <3>3. \A j \in 1..Len(hs) : Notes(hs[j]) => hs[j].g \notin Revivals
      BY <2>4, <3>1, HeldHandlers, Zenon
    <3>4. QED
      BY <1>1, <1>2, <2>8, <3>1, <3>2, <3>3, SafeCalled
  <2>11. CASE groups'[h.g].hs = <<>> /\ groups'[h.g].ok /\ Then(<<Do("publishPostponed")>>)
    <3>1. groups[g].hs = <<>> /\ b
      BY <2>4, <2>6, <2>7, <2>11, Zenon
    <3>2. h.g \in Revivals
      BY <2>4, <3>1, Zenon DEF Revivals
    <3>3. channelStatus = "READY"
      <4>1. Fits(c, channelStatus, Revivals)
        BY <1>1, HeadFits
      <4>2. c.ok
        BY <2>4, <3>1, Zenon
      <4>3. Demands(c, Revivals)
        BY <1>1, <1>4, <3>2, <4>2, Zenon DEF Demands
      <4>4. QED
        BY <4>1, <4>3, Zenon DEF Fits
    <3>4. Do("publishPostponed").do = "publishPostponed"
      BY DEF Do
    <3>5. Fits(Do("publishPostponed"), channelStatus', Revivals')
      BY <1>2, <3>3, <3>4, FitItems
    <3>6. NowFits
      BY <1>1, <2>11, <3>5, ThenFewFit, Zenon
    <3>7. ~crashed'
      BY <1>2 DEF SafeInv
    <3>8. QED
      BY <1>2, <2>8, <3>6, <3>7, OpsSame, SafeFrame
  <2>12. QED
    BY <1>4, <2>9, <2>10, <2>11, Zenon
<1>5. QED
  BY <1>1, <1>3, <1>4, Zenon

(* reviveIfReconnected() with nothing else under way                       *)
LEMMA SafeRevive ==
    ASSUME Types, Types', TidyInv, SafeInv, reviveIfReconnected, ~Overlaps
    PROVE  SafeInv'
<1>1. now # <<>> /\ Head(now).do \in Informs
  BY DEF reviveIfReconnected, Runs, Informs
<1>2. \A j \in 1..Len(now) : now[j].do \in Announcing
  BY <1>1, HeadInforms
<1>3. ops' = ops /\ ops = <<>> /\ crashed' = crashed
  BY DEF reviveIfReconnected, Overlaps
<1>4. 1..Len(ops') = {} /\ ~crashed'
  BY <1>3 DEF SafeInv
<1>5. \A x : x.do \in Announcing => Fits(x, channelStatus', Revivals')
  BY FitItems DEF Announcing, Informs
<1>6. channelStatus' \notin Preparation \cup {"READY"}
  BY DEF reviveIfReconnected, asyncPrepareChannel, Preparation
<1>7. NowFits
  <2>1. Then(<<>>) \/ Then(<<Do("createChannel")>>)
    BY DEF reviveIfReconnected, asyncPrepareChannel
  <2>2. Do("createChannel").do \in Announcing
    BY DEF Do, Announcing
  <2>3. QED
    BY <1>1, <1>5, <2>1, <2>2, ThenFewFit
<1>8. \A j \in 1..Len(now') : Fits(now'[j], channelStatus', Revivals')
  BY <1>2, <1>5, <1>7 DEF NowFits
<1>9. QED
  BY <1>4, <1>6, <1>8 DEF SafeInv

(* Every step, unless a revival overlaps                                   *)
LEMMA SafeStep ==
    ASSUME Types, Types', TidyInv, HeldInv, SafeInv, [Next]_vars, "overlap" \notin mishaps'
    PROVE  SafeInv'
<1>1. CASE UNCHANGED vars
  <2>1. UNCHANGED <<crashed, channelStatus, channel, groups, now, ops>>
    BY <1>1 DEF vars, connectionVars, library, context, client, observed
  <2>2. UNCHANGED Revivals /\ ~crashed'
    BY <2>1 DEF Revivals, SafeInv
  <2>3. QED
    BY <2>1, <2>2, NowSame, OpsSame, SafeFrame
<1>2. CASE ConnectionStep \/ Disturbance
  BY <1>2, SafeConnection
<1>3. CASE Calling
  BY <1>3, SafeCalling
<1>4. CASE ClientStep
  <2>1. CASE channelCreated \/ channelFailed \/ preparationFails \/ queueDeclared \/ consumerCreated
    BY <2>1, SafePreparing
  <2>2. CASE \/ asyncPublish \/ publishPostponed \/ declaredToPublish \/ boundToPublish \/ answerDropped
             \/ channelErrorHandler
    BY <2>2, SafePublishing
  <2>3. CASE asyncSubscribe \/ asyncUnsubscribe \/ asyncUnsubscribeAll
    BY <2>3, SafeSubscribe, SafeUnsubscribe, SafeUnsubscribeAll
  <2>4. CASE doSubscribePending \/ moveSubscriptionState
    BY <2>4, SafePending
  <2>5. CASE exchangeDeclared \/ queueBound \/ queueUnbound
    BY <2>5, SafeAnswered
  <2>6. CASE reviveIfReconnected
    <3>1. ~Overlaps
      BY <2>6 DEF reviveIfReconnected, Note
    <3>2. QED
      BY <2>6, <3>1, SafeRevive
  <2>7. CASE handler
    BY <2>7, SafeHandler
  <2>8. QED
    BY <1>4, <2>1, <2>2, <2>3, <2>4, <2>5, <2>6, <2>7, Zenon DEF ClientStep
<1>5. QED
  BY <1>1, <1>2, <1>3, <1>4, Zenon DEF Next

(* It holds until a revival overlaps with something else                   *)
CalmlySafe == "overlap" \notin mishaps => SafeInv

(* Operations find their channel and callbacks are not called twice, until *)
(* a revival overlaps with something else                                  *)
THEOREM SafeInvariance == Spec => [](Types /\ BoundInv /\ HeldInv /\ CalmlySafe)
<1>1. Init => CalmlySafe
  <2> SUFFICES ASSUME Init PROVE SafeInv
    BY DEF CalmlySafe
  <2>1. 1..Len(ops) = {} /\ 1..Len(now) = {} /\ ~crashed /\ channelStatus \notin Preparation \cup {"READY"}
    BY DEF Init, ConnectionInit, Preparation
  <2>2. QED
    BY <2>1 DEF SafeInv
<1>2. Types /\ Types' /\ BoundInv /\ HeldInv /\ CalmlySafe /\ [Next]_vars => CalmlySafe'
  <2> SUFFICES ASSUME Types, Types', BoundInv, HeldInv, CalmlySafe, [Next]_vars, "overlap" \notin mishaps'
               PROVE  SafeInv'
    BY DEF CalmlySafe
  <2>1. mishaps \subseteq mishaps'
    <3>1. CASE UNCHANGED vars
      BY <3>1 DEF vars, observed
    <3>2. CASE Next
      BY <3>2, MishapsStay DEF Types
    <3>3. QED
      BY <3>1, <3>2
  <2>2. TidyInv /\ SafeInv
    BY <2>1 DEF BoundInv, CalmlySafe
  <2>3. QED
    BY <2>2, SafeStep
<1>3. QED
  BY <1>1, <1>2, Invariance, HeldInvariance, PTL DEF Spec

(* A handler is called at most once, however often it is passed on to      *)
(* another operation or to a resubscription (AmqpClient.cc), and neither   *)
(* an empty callback nor an empty channel is used, with the exception of a *)
(* revival that meets something under way                                  *)
THEOREM HandlersCalledOnce == Spec => []HandlersOnce
<1>1. Types /\ BoundInv /\ HeldInv /\ CalmlySafe => HandlersOnce
  <2> SUFFICES ASSUME HeldInv, CalmlySafe, "overlap" \notin mishaps
               PROVE  ~crashed /\ \A n \in 1..MaxCalls : told[n] <= 1
    BY DEF HandlersOnce
  <2>1. ToldOnce
    BY DEF HeldInv, Held
  <2>2. QED
    BY <2>1 DEF ToldOnce, CalmlySafe, SafeInv
<1>2. QED
  BY <1>1, SafeInvariance, PTL
=============================================================================
