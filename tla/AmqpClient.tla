----------------------------- MODULE AmqpClient -----------------------------
(***************************************************************************)
(* karabo::net::AmqpClient (net/AmqpClient.cc): it subscribes to and       *)
(* publishes to exchanges via a channel of its AmqpConnection, and revives *)
(* channel, subscriptions and postponed messages after an error of the     *)
(* channel or a loss of the connection.                                    *)
(*                                                                         *)
(* A handler is a sequence of what it does, since handlers get combined:   *)
(* it tells the caller of an operation the result, repeats an operation,   *)
(* or notes a resubscription of reviveIfReconnected() as done.             *)
(***************************************************************************)
EXTENDS AmqpConnection, FiniteSets, SequencesExt

CONSTANTS
    Subscriptions, \* pairs of exchange and routing key
    Exchanges,
    ExchangeOf,    \* the exchange of a subscription, and of a message
    MaxPostponed,  \* messages that m_postponedPubMessages can hold
    MaxMessages,   \* bound: messages 1, 2... that are published
    MaxCalls,      \* bound: calls of asyncSubscribe() and asyncUnsubscribe()
    MaxEvents      \* bound: calls, messages and faults altogether

ASSUME ClientAssumption ==
    /\ IsFiniteSet(Subscriptions) /\ MaxPostponed \in Nat \ {0}
    /\ MaxMessages \in Nat /\ MaxCalls \in Nat /\ MaxEvents \in Nat
    /\ ExchangeOf \in [Subscriptions \cup 1..MaxMessages -> Exchanges]

VARIABLES
    channelStatus,  \* m_channelStatus
    channel,        \* m_channel, 0 if there is none
    guarded,        \* the channel whose errors channelErrorHandler() gets
    preparation,    \* m_channelPreparationCallback
    registered,     \* registered to be informed about a reconnection
    exchanges,      \* m_exchanges
    subscriptions,  \* m_subscriptions: status
    handlers,       \* m_subscriptions: handler
    postponed,      \* m_postponedPubMessages
    groups,         \* doneFlags and commonEc of reviveIfReconnected() and asyncUnsubscribeAll()
    bound,          \* the bindings that the broker has, per channel
    published,      \* messages that were published
    called, told,   \* calls so far, and how often their handlers were called
    messages,       \* calls of asyncPublish() so far
    wanted,         \* history: subscriptions asked for and not given up again
    crashed,        \* history: an empty handler or channel was used
    mishaps         \* history: see Mishaps

(* "overlap": reviveIfReconnected() met something under way, see Overlaps; *)
(* "given up": preparing a channel failed, and not since the connection    *)
(* was lost; "overlooked": a subscription was left to the preparation of a *)
(* channel that asyncPublish() had begun                                   *)
Mishaps == {"overlap", "given up", "overlooked"}

client == <<channelStatus, channel, guarded, preparation, registered, exchanges,
            subscriptions, handlers, postponed, groups>>
observed == <<bound, published, told, crashed, mishaps>>
calls == <<called, messages, wanted>>
vars == <<connectionVars, client, observed, calls>>

Init ==
    /\ ConnectionInit
    /\ channelStatus = "REQUEST" /\ channel = 0 /\ guarded = 0
    /\ preparation = "none" /\ registered = FALSE
    /\ exchanges = [e \in Exchanges |-> "none"]
    /\ subscriptions = [s \in Subscriptions |-> "none"]
    /\ handlers = [s \in Subscriptions |-> <<>>]
    /\ postponed = <<>> /\ groups = <<>>
    /\ bound = {} /\ published = <<>>
    /\ called = 0 /\ messages = 0 /\ told = [n \in 1..MaxCalls |-> 0] /\ wanted = {}
    /\ crashed = FALSE /\ mishaps = {}

(* Parts of handlers, and calling a handler                                *)
Tell(n) == [do |-> "tell", n |-> n]
OneDone(g, s) == [do |-> "one done", g |-> g, s |-> s]
Subscribe(s, hs) == [do |-> "asyncSubscribe", s |-> s, hs |-> hs]
Unsubscribe(s, hs) == [do |-> "asyncUnsubscribe", s |-> s, hs |-> hs]
UnsubscribeAll(hs) == [do |-> "asyncUnsubscribeAll", hs |-> hs]
Publish(m) == [do |-> "asyncPublish", m |-> m]
Call(hs, ok) == [i \in 1..Len(hs) |-> [do |-> "handler", h |-> hs[i], ok |-> ok]]

Note(happens, mishap) == mishaps' = IF happens THEN mishaps \cup {mishap} ELSE mishaps

(* The rest of the running function, after what it calls first             *)
Then(items) == now' = items \o Tail(now)

(* An operation on m_channel: a channel that is not usable refuses it      *)
Operation(o, items) ==
    /\ crashed' = (channel = 0)
    /\ IF channel \in usable
       THEN ops' = Append(ops, o) /\ Then(items)
       ELSE Then(<<Reply(o, "not sent")>> \o items) /\ UNCHANGED ops

Op(op, x) == [op |-> op, ch |-> channel, x |-> x]

-----------------------------------------------------------------------------
(* Calls from other threads, which post to the io context - as does        *)
(* dispatch() of asyncUnsubscribeAll(), for it is called by                *)
(* AmqpBroker::stopReading(), which waits for it in another thread         *)

MayHappen == called + messages + faults < MaxEvents

callSubscribe(s) ==
    /\ MayHappen /\ called < MaxCalls /\ called' = called + 1
    /\ posts' = Append(posts, Subscribe(s, <<Tell(called')>>))
    /\ wanted' = wanted \cup {s}
    /\ UNCHANGED <<connection, library, now, client, observed, messages>>

callUnsubscribe(s) ==
    /\ MayHappen /\ called < MaxCalls /\ called' = called + 1
    /\ posts' = Append(posts, Unsubscribe(s, <<Tell(called')>>))
    /\ wanted' = wanted \ {s}
    /\ UNCHANGED <<connection, library, now, client, observed, messages>>

callUnsubscribeAll ==
    /\ MayHappen /\ called < MaxCalls /\ called' = called + 1
    /\ posts' = Append(posts, UnsubscribeAll(<<Tell(called')>>))
    /\ UNCHANGED <<connection, library, now, client, observed, messages, wanted>>

callPublish ==
    /\ MayHappen /\ messages < MaxMessages /\ messages' = messages + 1
    /\ posts' = Append(posts, Publish(messages'))
    /\ UNCHANGED <<connection, library, now, client, observed, called, wanted>>

-----------------------------------------------------------------------------
(* Preparation of the channel                                              *)

asyncPrepareChannel(callback) ==
    /\ channelStatus' = "CREATE"
    /\ preparation' = callback /\ registered' = TRUE
    /\ Then(<<Do("createChannel")>>)

(* The callback is called and erased; errors are only logged by it         *)
callPreparation(ok) ==
    /\ preparation' = "none"
    /\ crashed' = (preparation = "none")
    /\ Then(CASE ~ok -> <<>>
              [] ok /\ preparation = "subscribe" -> <<Do("doSubscribePending")>>
              [] OTHER -> <<Do("publishPostponed")>>)

Answer == Head(now)
Answered(op) == Runs("reply") /\ Answer.op.op = op
Success == Answer.why = "success"

(* A channel is there: m_channel, replaced, is closed.  moveChannelState() *)
channelCreated ==
    /\ Answered("open") /\ Success
    /\ channel' = Answer.op.ch /\ channelStatus' = "CREATE_QUEUE"
    /\ usable' = usable \ {channel}
    /\ ops' = Append(ops, [op |-> "queue", ch |-> Answer.op.ch, x |-> 0])
    /\ Then(<<>>)
    /\ UNCHANGED <<connection, created, posts, faults, guarded, preparation, registered,
                   exchanges, subscriptions, handlers, postponed, groups, observed, calls>>

channelFailed ==
    /\ \/ Answered("open") /\ ~Success
       \/ Runs("channelCreated")
    /\ channelStatus' = "REQUEST"
    /\ callPreparation(FALSE)
    /\ Note(Answered("open") /\ Answer.why = "other", "given up")
    /\ UNCHANGED <<connection, library, posts, channel, guarded, registered, exchanges,
                   subscriptions, handlers, postponed, groups, bound, published, told,
                   calls>>

(* declareQueue() and consume() fail, or the queue has a consumer already  *)
(* and the name is changed.  Errors that other instances cause make it     *)
(* start again, others are reported to the callback.                       *)
preparationFails ==
    /\ Answered("queue") \/ Answered("consume")
    /\ ~Success
    /\ channel' = IF Answered("queue") /\ Answer.why = "retry" THEN channel ELSE 0
    /\ IF Answer.why = "retry"
       THEN asyncPrepareChannel(preparation) /\ UNCHANGED <<crashed, mishaps>>
       ELSE /\ channelStatus' = "REQUEST"
            /\ callPreparation(FALSE)
            /\ Note(Answer.why = "other", "given up")
            /\ UNCHANGED registered
    /\ UNCHANGED <<connection, library, posts, guarded, exchanges, subscriptions, handlers,
                   postponed, groups, bound, published, told, calls>>

queueDeclared ==
    /\ Answered("queue") /\ Success
    /\ \/ channelStatus' = "CREATE_CONSUMER" /\ Operation(Op("consume", 0), <<>>) /\ UNCHANGED faults
       \/ Fault(3) /\ Operation(Op("queue", 0), <<>>) /\ UNCHANGED channelStatus
    /\ UNCHANGED <<connection, created, usable, posts, channel, guarded, preparation,
                   registered, exchanges, subscriptions, handlers, postponed, groups, bound,
                   published, told, mishaps, calls>>

consumerCreated ==
    /\ Answered("consume") /\ Success
    /\ channelStatus' = "READY" /\ guarded' = channel
    /\ callPreparation(TRUE)
    /\ UNCHANGED <<connection, library, posts, channel, registered, exchanges, subscriptions,
                   handlers, postponed, groups, bound, published, told, mishaps, calls>>

(* channelErrorHandler(), after the handlers of the failed operations      *)
(* (mutant: it leaves all errors to the reconnection)                      *)
NeverRevives(error) == FALSE

MustRevive(error) ==
    channelStatus = "READY" /\ channel \notin usable /\ error.why # "connection lost"

channelErrorHandler ==
    /\ Runs("channelError") /\ (\A i \in 1..Len(ops) : ops[i].ch # Answer.ch)
    /\ Then(<<>>)
    /\ posts' = IF Answer.ch = guarded /\ MustRevive(Answer)
                THEN Append(posts, Do("reviveIfReconnected")) ELSE posts
    /\ UNCHANGED <<connection, library, client, observed, calls>>

-----------------------------------------------------------------------------
(* Subscriptions                                                           *)

Unready == {"PENDING", "CHECK_EXCHANGE", "DECLARE_EXCHANGE", "BIND_QUEUE"}

(* It is left to a preparation that will not treat it                      *)
Overlooked(s) ==
    /\ subscriptions[s] = "none"
    /\ channelStatus \notin {"REQUEST", "READY"} /\ preparation # "subscribe"

asyncSubscribe ==
    /\ Runs("asyncSubscribe")
    /\ Note(Overlooked(Answer.s), "overlooked")
    /\ LET s == Answer.s
           hs == Answer.hs
       IN \/ /\ subscriptions[s] \in Unready
             /\ handlers' = [handlers EXCEPT ![s] = @ \o hs]
             /\ Then(<<>>)
             /\ UNCHANGED <<channelStatus, preparation, registered, subscriptions>>
          \/ /\ subscriptions[s] = "READY"
             /\ Then(Call(hs, TRUE))
             /\ UNCHANGED <<channelStatus, preparation, registered, subscriptions, handlers>>
          \/ /\ subscriptions[s] = "UNBIND_QUEUE"
             /\ handlers' = [handlers EXCEPT ![s] = Append(@, Subscribe(s, hs))]
             /\ Then(<<>>)
             /\ UNCHANGED <<channelStatus, preparation, registered, subscriptions>>
          \/ /\ subscriptions[s] = "none"
             /\ subscriptions' = [subscriptions EXCEPT ![s] = "PENDING"]
             /\ handlers' = [handlers EXCEPT ![s] = hs]
             /\ IF channelStatus = "REQUEST" THEN asyncPrepareChannel("subscribe")
                ELSE /\ Then(IF channelStatus = "READY" THEN <<Do("doSubscribePending")>>
                                                        ELSE <<>>)
                     /\ UNCHANGED <<channelStatus, preparation, registered>>
    /\ UNCHANGED <<connection, library, posts, channel, guarded, exchanges, postponed, groups,
                   bound, published, told, crashed, calls>>

asyncUnsubscribe ==
    /\ Runs("asyncUnsubscribe")
    /\ LET s == Answer.s
           hs == Answer.hs
           e == ExchangeOf[s]
       IN \/ /\ subscriptions[s] = "none"
             /\ Then(Call(hs, TRUE))
             /\ UNCHANGED <<ops, subscriptions, handlers, exchanges, crashed>>
          \/ /\ subscriptions[s] \in Unready \cup {"UNBIND_QUEUE"}
             /\ handlers' = [handlers EXCEPT ![s] = Append(@, Unsubscribe(s, hs))]
             /\ Then(<<>>)
             /\ UNCHANGED <<ops, subscriptions, exchanges, crashed>>
          \/ /\ subscriptions[s] = "READY"
             /\ subscriptions' = [subscriptions EXCEPT ![s] = "UNBIND_QUEUE"]
             /\ handlers' = [handlers EXCEPT ![s] = hs]
             /\ exchanges' = [exchanges EXCEPT ![e] = IF @ = "PUBLISHABLE" THEN @ ELSE "none"]
             /\ Operation(Op("unbind", s), <<>>)
    /\ UNCHANGED <<connection, created, usable, posts, faults, channelStatus, channel, guarded,
                   preparation, registered, postponed, groups, bound, published, told,
                   mishaps, calls>>

(* Each subscription there is gets unsubscribed, after what is posted so   *)
(* far: that undoes a subscribing asked for since the call, too.  The      *)
(* handler is called after the last one.                                   *)
asyncUnsubscribeAll ==
    /\ Runs("asyncUnsubscribeAll")
    /\ LET known == {s \in Subscriptions : subscriptions[s] # "none"}
           order == SetToSeq(known)
           g == Len(groups) + 1
       IN IF known = {}
          THEN Then(Call(Answer.hs, TRUE)) /\ UNCHANGED <<posts, groups, wanted>>
          ELSE /\ groups' = Append(groups, [left |-> known, ok |-> TRUE, hs |-> Answer.hs])
               /\ posts' = posts \o [i \in 1..Len(order) |->
                                        Unsubscribe(order[i], <<OneDone(g, order[i])>>)]
               /\ wanted' = wanted \ known
               /\ Then(<<>>)
    /\ UNCHANGED <<connection, library, channelStatus, channel, guarded, preparation, registered,
                   exchanges, subscriptions, handlers, postponed, observed, called, messages>>

Move(s) == [do |-> "moveSubscriptionState", s |-> s]

doSubscribePending ==
    /\ Runs("doSubscribePending")
    /\ LET todo == {s \in Subscriptions : subscriptions[s] = "PENDING"}
           order == SetToSeq(todo)
       IN /\ subscriptions' = [s \in Subscriptions |->
                                  IF s \in todo THEN "CHECK_EXCHANGE" ELSE subscriptions[s]]
          /\ Then([i \in 1..Len(order) |-> Move(order[i])])
    /\ UNCHANGED <<connection, library, posts, channelStatus, channel, guarded, preparation,
                   registered, exchanges, handlers, postponed, groups, observed, calls>>

(* moveSubscriptionState() for a subscription that checks its exchange, or *)
(* that has its exchange now                                               *)
moveSubscriptionState ==
    /\ Runs("moveSubscriptionState")
    /\ LET s == Answer.s
           e == ExchangeOf[s]
           ready == \/ subscriptions[s] = "BIND_QUEUE"
                    \/ exchanges[e] \in {"DECLARED", "BINDING", "PUBLISHABLE"}
       IN IF ready
          THEN /\ subscriptions' = [subscriptions EXCEPT ![s] = "BIND_QUEUE"]
               /\ Operation(Op("bind", s), <<>>)
               /\ UNCHANGED exchanges
          ELSE /\ subscriptions' = [subscriptions EXCEPT ![s] = "DECLARE_EXCHANGE"]
               /\ exchanges' = [exchanges EXCEPT ![e] = "DECLARING"]
               /\ Operation(Op("declare", s), <<>>)
    /\ UNCHANGED <<connection, created, usable, posts, faults, channelStatus, channel, guarded,
                   preparation, registered, handlers, postponed, groups, bound, published,
                   told, mishaps, calls>>

(* The handler of a subscription is called and erased (mutant: it is kept) *)
ReportKeeping(s, ok) ==
    /\ UNCHANGED handlers
    /\ Then(Call(handlers[s], ok))

Report(s, ok) ==
    /\ handlers' = [handlers EXCEPT ![s] = <<>>]
    /\ Then(Call(handlers[s], ok))

exchangeDeclared ==
    /\ Answered("declare")
    /\ LET s == Answer.op.x
           e == ExchangeOf[s]
       IN IF Success
          THEN /\ exchanges' = [exchanges EXCEPT ![e] =
                                   IF @ \in {"none", "DECLARING"} THEN "DECLARED" ELSE @]
               /\ IF subscriptions[s] = "none"
                  THEN Then(<<Do("publishPostponed")>>) /\ UNCHANGED subscriptions
                  ELSE /\ subscriptions' = [subscriptions EXCEPT ![s] = "BIND_QUEUE"]
                       /\ Then(<<Move(s), Do("publishPostponed")>>)
               /\ UNCHANGED handlers
          ELSE /\ exchanges' = [exchanges EXCEPT ![e] = "none"]
               /\ Report(s, FALSE)
               /\ UNCHANGED subscriptions
    /\ UNCHANGED <<connection, library, posts, channelStatus, channel, guarded, preparation,
                   registered, postponed, groups, observed, calls>>

(* A missing exchange, or an error of the channel, makes it revive         *)
queueBound ==
    /\ Answered("bind")
    /\ LET s == Answer.op.x
       IN /\ bound' = IF Success THEN bound \cup {<<Answer.op.ch, s>>} ELSE bound
          /\ crashed' = (subscriptions[s] # "none" /\ channel = 0
                            /\ Answer.why \in {"retry", "error state"})
          /\ CASE subscriptions[s] = "none" \/ Answer.why \in {"retry", "error state"} ->
                     Then(<<>>) /\ UNCHANGED <<subscriptions, handlers>>
               [] subscriptions[s] # "none" /\ Success ->
                     /\ subscriptions' = [subscriptions EXCEPT ![s] = "READY"]
                     /\ Report(s, TRUE)
               [] OTHER -> Report(s, FALSE) /\ UNCHANGED subscriptions
    /\ UNCHANGED <<connection, library, posts, channelStatus, channel, guarded, preparation,
                   registered, exchanges, postponed, groups, published, told, mishaps, calls>>

(* A subscription is kept if unbinding fails, unless the connection is lost *)
queueUnbound ==
    /\ Answered("unbind")
    /\ LET s == Answer.op.x
       IN /\ bound' = IF Success THEN bound \ {<<Answer.op.ch, s>>} ELSE bound
          /\ IF subscriptions[s] = "none"
             THEN Then(<<>>) /\ UNCHANGED <<subscriptions, handlers>>
             ELSE /\ subscriptions' = [subscriptions EXCEPT ![s] =
                                 IF Answer.why \in {"success", "connection lost"} THEN "none" ELSE "READY"]
                  /\ Report(s, Success)
    /\ UNCHANGED <<connection, library, posts, channelStatus, channel, guarded, preparation,
                   registered, exchanges, postponed, groups, published, told, crashed,
                   mishaps, calls>>

-----------------------------------------------------------------------------
(* Publishing                                                              *)

(* queueMessage(): the oldest message is dropped if there are too many     *)
queueMessage(m) ==
    postponed' = Append(IF Len(postponed) = MaxPostponed THEN Tail(postponed) ELSE postponed, m)

(* The exchange is declared, and bound to the own queue so that it stays   *)
asyncPrepareExchangeThenPublish(e) ==
    IF exchanges[e] = "DECLARED"
    THEN /\ exchanges' = [exchanges EXCEPT ![e] = "BINDING"]
         /\ Operation(Op("bind to publish", e), <<>>)
    ELSE /\ exchanges' = [exchanges EXCEPT ![e] = "DECLARING"]
         /\ Operation(Op("declare to publish", e), <<>>)

(* May a message overtake the postponed ones? (mutant: yes)                *)
DirectAlways(e) == exchanges[e] = "PUBLISHABLE"

Direct(e) == exchanges[e] = "PUBLISHABLE" /\ postponed = <<>>

asyncPublish ==
    /\ Runs("asyncPublish")
    /\ LET m == Answer.m
           e == ExchangeOf[m]
       IN \/ /\ channelStatus = "REQUEST"
             /\ queueMessage(m) /\ asyncPrepareChannel("publish")
             /\ UNCHANGED <<ops, exchanges, published, crashed>>
          \/ /\ channelStatus = "READY" /\ exchanges[e] \in {"none", "DECLARED"}
             /\ queueMessage(m) /\ asyncPrepareExchangeThenPublish(e)
             /\ UNCHANGED <<channelStatus, preparation, registered, published>>
          \/ /\ channelStatus = "READY" /\ Direct(e) /\ channel \in usable
             /\ published' = Append(published, m) /\ Then(<<>>)
             /\ UNCHANGED <<ops, channelStatus, preparation, registered, exchanges,
                            postponed, crashed>>
          \/ /\ \/ channelStatus \in {"CREATE", "CREATE_QUEUE", "CREATE_CONSUMER"}
                \/ channelStatus = "READY" /\ exchanges[e] \notin {"none", "DECLARED"}
                      /\ ~ (Direct(e) /\ channel \in usable)
             /\ queueMessage(m) /\ Then(<<>>)
             /\ UNCHANGED <<ops, channelStatus, preparation, registered, exchanges,
                            published, crashed>>
    /\ UNCHANGED <<connection, created, usable, posts, faults, channel, guarded, subscriptions,
                   handlers, groups, bound, told, mishaps, calls>>

(* publishPostponed(), message by message.  publish() of the library fails *)
(* only on a channel that is not usable, and no message is too big.        *)
publishPostponed ==
    /\ Runs("publishPostponed")
    /\ LET m == Head(postponed)
           e == ExchangeOf[m]
           publishes == postponed # <<>> /\ exchanges[e] = "PUBLISHABLE" /\ channel \in usable
           prepares == postponed # <<>> /\ exchanges[e] \in {"none", "DECLARED"}
       IN \/ /\ publishes
             /\ published' = Append(published, m) /\ postponed' = Tail(postponed)
             /\ UNCHANGED <<now, ops, exchanges, crashed>>
          \/ /\ prepares
             /\ asyncPrepareExchangeThenPublish(e)
             /\ UNCHANGED <<published, postponed>>
          \/ /\ ~publishes /\ ~prepares
             /\ Then(<<>>)
             /\ UNCHANGED <<ops, exchanges, published, postponed, crashed>>
    /\ UNCHANGED <<connection, created, usable, posts, faults, channelStatus, channel, guarded,
                   preparation, registered, subscriptions, handlers, groups, bound, told,
                   mishaps, calls>>

declaredToPublish ==
    /\ Answered("declare to publish")
    /\ LET e == Answer.op.x
       IN IF Success
          THEN /\ exchanges' = [exchanges EXCEPT ![e] = "BINDING"]
               /\ Operation(Op("bind to publish", e), <<>>)
          ELSE /\ exchanges' = [exchanges EXCEPT ![e] = "none"]
               /\ Then(IF channel \in usable THEN <<Do("publishPostponed")>> ELSE <<>>)
               /\ crashed' = (channel = 0) /\ UNCHANGED ops
    /\ UNCHANGED <<connection, created, usable, posts, faults, channelStatus, channel, guarded,
                   preparation, registered, subscriptions, handlers, postponed, groups, bound,
                   published, told, mishaps, calls>>

boundToPublish ==
    /\ Answered("bind to publish")
    /\ IF Success
       THEN /\ exchanges' = [exchanges EXCEPT ![Answer.op.x] = "PUBLISHABLE"]
            /\ Then(<<Do("publishPostponed")>>)
       ELSE Then(<<>>) /\ UNCHANGED exchanges
    /\ UNCHANGED <<connection, library, posts, channelStatus, channel, guarded, preparation,
                   registered, subscriptions, handlers, postponed, groups, observed, calls>>

-----------------------------------------------------------------------------
(* Reviving                                                                *)

(* Old subscriptions are cleared, they come back by asyncSubscribe()       *)
(* (mutant: they are kept)                                                 *)
KeptSubscriptions == subscriptions

ClearedSubscriptions == [s \in Subscriptions |-> "none"]

UserTasks == {"asyncSubscribe", "asyncUnsubscribe", "asyncUnsubscribeAll", "asyncPublish"}

(* A call of the user waits to be executed - of any kind, for it might use *)
(* the channel status in between -, a channel is still usable, prepared or *)
(* waiting to be created, or an operation was not answered yet             *)
Overlaps ==
    \/ \E i \in 1..Len(posts) : posts[i].do \in UserTasks
    \/ preparation # "none" \/ pending > 0 \/ channel \in usable \/ ops # <<>>

reviveIfReconnected ==
    /\ Runs("reviveIfReconnected")
    /\ LET known == {s \in Subscriptions : subscriptions[s] # "none"}
           order == SetToSeq(known)
           g == Len(groups) + 1
       IN /\ groups' = IF known = {} THEN groups ELSE Append(groups, [left |-> known, ok |-> TRUE, hs |-> <<>>])
          /\ posts' = posts \o [i \in 1..Len(order) |->
                  Subscribe(order[i], Append(handlers[order[i]], OneDone(g, order[i])))]
          /\ IF known # {}
             THEN /\ channelStatus' = "REQUEST" /\ preparation' = "none"
                  /\ Then(<<>>) /\ UNCHANGED registered
             ELSE asyncPrepareChannel("publish")
    /\ channel' = 0 /\ usable' = usable \ {channel}
    /\ exchanges' = [e \in Exchanges |-> "none"]
    /\ subscriptions' = ClearedSubscriptions
    /\ handlers' = [s \in Subscriptions |-> <<>>]
    /\ Note(Overlaps, "overlap")
    /\ UNCHANGED <<connection, created, ops, faults, guarded, postponed, bound, published,
                   told, crashed, calls>>

(* A part of a handler is executed.  When all resubscriptions are done and *)
(* none has failed, the postponed messages are published; when all         *)
(* unsubscriptions are done, their common handler is called.               *)
handler ==
    /\ Runs("handler")
    /\ LET h == Answer.h IN
       \/ /\ h.do = "tell"
          /\ told' = [told EXCEPT ![h.n] = @ + 1]
          /\ Then(<<>>)
          /\ UNCHANGED <<posts, groups>>
       \/ /\ h.do = "one done"
          /\ groups' = [groups EXCEPT ![h.g].left = @ \ {h.s}, ![h.g].ok = @ /\ Answer.ok]
          /\ LET group == groups'[h.g] IN
             Then(CASE group.left # {} -> <<>>
                    [] group.left = {} /\ group.hs # <<>> -> Call(group.hs, group.ok)
                    [] group.left = {} /\ group.hs = <<>> ->
                          IF group.ok THEN <<Do("publishPostponed")>> ELSE <<>>)
          /\ UNCHANGED <<posts, told>>
       \/ /\ h.do \in {"asyncSubscribe", "asyncUnsubscribe"}
          /\ posts' = Append(posts, h) /\ Then(<<>>)
          /\ UNCHANGED <<groups, told>>
    /\ UNCHANGED <<connection, library, channelStatus, channel, guarded, preparation,
                   registered, exchanges, subscriptions, handlers, postponed, bound,
                   published, crashed, mishaps, calls>>

(* The library may drop the answer to a channel that was destructed        *)
answerDropped ==
    /\ Runs("reply") /\ Answer.op.op # "open" /\ Answer.op.ch # channel
    /\ Then(<<>>)
    /\ UNCHANGED <<connection, library, posts, client, observed, calls>>

-----------------------------------------------------------------------------
ConnectionStep ==
    /\ \/ onReady \/ onLost \/ asyncConnect \/ informReconnection(registered)
       \/ doCreateChannel \/ runPosted
       \/ \E i \in 1..Len(ops) : replySuccess(i) \/ failNext(i)
       \/ loseNext
    /\ UNCHANGED <<client, observed, calls>>

ClientStep ==
    \/ channelCreated \/ channelFailed \/ preparationFails \/ queueDeclared
    \/ consumerCreated \/ channelErrorHandler
    \/ asyncSubscribe \/ asyncUnsubscribe \/ asyncUnsubscribeAll
    \/ doSubscribePending \/ moveSubscriptionState
    \/ exchangeDeclared \/ queueBound \/ queueUnbound
    \/ asyncPublish \/ publishPostponed \/ declaredToPublish \/ boundToPublish
    \/ reviveIfReconnected \/ handler \/ answerDropped

Disturbance ==
    /\ MayHappen
    /\ \/ connectFails \/ connectionBreaks
       \/ \E i \in 1..Len(ops), why \in {"retry", "other"} : replyError(i, why)
    /\ UNCHANGED <<client, observed, calls>>

Calling ==
    \/ \E s \in Subscriptions : callSubscribe(s) \/ callUnsubscribe(s)
    \/ callUnsubscribeAll \/ callPublish

Next == ~crashed /\ (ConnectionStep \/ ClientStep \/ Disturbance \/ Calling)

Spec == Init /\ [][Next]_vars

(* The thread of the io context runs, the broker answers                   *)
FairSpec == Spec /\ WF_vars(~crashed /\ (ConnectionStep \/ ClientStep))

-----------------------------------------------------------------------------
(* Types of all variables                                                  *)
TypeOK ==
    /\ state \in {"Unknown", "Started", "Ready", "Error", "Lost"}
    /\ urlIndex \in 0..(Urls - 1) /\ onComplete \in Nat /\ pending \in Nat
    /\ timers \in Nat /\ broken \in BOOLEAN /\ faults \in 0..MaxFaults
    /\ created \in Nat /\ usable \subseteq 1..created
    /\ channel \in 0..created /\ guarded \in 0..created
    /\ channelStatus \in {"REQUEST", "CREATE", "CREATE_QUEUE", "CREATE_CONSUMER", "READY"}
    /\ preparation \in {"none", "subscribe", "publish"} /\ registered \in BOOLEAN
    /\ exchanges \in [Exchanges -> {"none", "DECLARING", "DECLARED", "BINDING", "PUBLISHABLE"}]
    /\ subscriptions \in [Subscriptions -> Unready \cup {"none", "READY", "UNBIND_QUEUE"}]
    /\ postponed \in Seq(1..MaxMessages) /\ Len(postponed) <= MaxPostponed
    /\ bound \subseteq (0..created) \X Subscriptions
    /\ published \in Seq(1..MaxMessages) /\ messages \in 0..MaxMessages
    /\ called \in 0..MaxCalls /\ told \in [1..MaxCalls -> Nat]
    /\ wanted \subseteq Subscriptions /\ crashed \in BOOLEAN /\ mishaps \subseteq Mishaps

(* A subscription counts as READY exactly if the broker has bound the      *)
(* queue of the current channel for it, so that messages get delivered:    *)
(* through channels and connections that are lost in the middle of it, and *)
(* subscribing and unsubscribing that overtake each other.  Excepted is    *)
(* what follows a reviveIfReconnected() that Overlaps: that met a call     *)
(* still waiting, a channel in use or in preparation (AmqpClient.cc:311,   *)
(* "Not sure whether/how that can happen") or an unanswered operation.     *)
SubscribedIsBound ==
    (channel \in usable /\ now = <<>> /\ "overlap" \notin mishaps) =>
        \A s \in Subscriptions :
            /\ subscriptions[s] = "READY" => <<channel, s>> \in bound
            /\ <<channel, s>> \in bound => subscriptions[s] \in {"READY", "UNBIND_QUEUE"}

(* Messages are published in the order of asyncPublish(), whether they are *)
(* postponed for the channel, for their exchange, for the messages before  *)
(* or for the next connection (AmqpClient.cc:299).                         *)
PublishedInOrder ==
    \A i, j \in 1..Len(published) : i < j => published[i] < published[j]

(* A handler is called once, however often it was passed on to another     *)
(* operation or to a resubscription, and neither an empty callback nor an  *)
(* empty channel is used; excepted is what follows a reviveIfReconnected() *)
(* that Overlaps, as in SubscribedIsBound.                                 *)
HandlersOnce ==
    "overlap" \notin mishaps => ~crashed /\ \A n \in 1..MaxCalls : told[n] <= 1

(* Every call is answered, the subscriptions that are wanted come back     *)
(* after every loss of a channel or of the connection, attempts to         *)
(* reconnect that fail and a further loss while they come back included,   *)
(* and postponed messages get published - unless one of the mishaps has    *)
(* happened.  Not wanted is what asyncUnsubscribeAll() has undone.         *)
Resubscribes ==
    [](mishaps = {}) =>
        <>[](/\ \A s \in wanted : subscriptions[s] = "READY"
             /\ postponed = <<>>
             /\ \A n \in 1..called : told[n] = 1)
=============================================================================
