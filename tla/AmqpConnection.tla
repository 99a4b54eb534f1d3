--------------------------- MODULE AmqpConnection ---------------------------
(***************************************************************************)
(* karabo::net::AmqpConnection (net/AmqpConnection.cc): the connection to  *)
(* the message broker, its reconnection, and the creation of channels.     *)
(*                                                                         *)
(* Everything runs in the single thread of the io context.  "posts" are    *)
(* the functions posted to it; each one is executed to its end before the  *)
(* next.  What a function calls in turn is put into "now", which is worked *)
(* on before anything else happens.  The AMQP library and the broker are   *)
(* external: operations on a channel are answered in their order, an error *)
(* makes a channel unusable and fails its other operations as well, and a  *)
(* lost connection fails all operations of all channels.                   *)
(***************************************************************************)
EXTENDS Integers, Sequences

CONSTANTS
    Urls,      \* number of broker addresses, m_urls
    MaxFaults  \* bound: lost connections, failing attempts and operations, see Fault

ASSUME ConnectionAssumption == Urls \in Nat \ {0} /\ MaxFaults \in Nat

VARIABLES
    state,      \* m_state; "Started" stands for the states until it is ready
    urlIndex,   \* m_urlIndex
    onComplete, \* m_onConnectionComplete: how many informReconnection() it calls
    pending,    \* m_pendingOnChannelCreations: how many
    timers,     \* running timers of triggerReconnection()
    broken,     \* the connection is lost, but onLost() is not yet called
    created,    \* number of channels so far: their names
    usable,     \* usable channels
    ops,        \* operations of channels that are not answered yet
    posts, now, \* functions to execute, see above
    faults      \* faults so far

connection == <<state, urlIndex, onComplete, pending, timers, broken>>
library == <<created, usable, ops, faults>>
context == <<posts, now>>
connectionVars == <<connection, library, context>>

(* A client is created when AmqpBroker::connect() has connected, so the    *)
(* eUnknown of the constructor has passed.  Nobody closes the connection   *)
(* but its destructor, hence no eConnectionClosed.                         *)
ConnectionInit ==
    /\ state = "Ready" /\ urlIndex = 0 /\ onComplete = 0 /\ pending = 0 /\ timers = 0
    /\ broken = FALSE
    /\ created = 0 /\ usable = {} /\ ops = <<>> /\ faults = 0
    /\ posts = <<>> /\ now = <<>>

Do(what) == [do |-> what]
Inform(ok) == [do |-> "informReconnection", ok |-> ok]
ChannelResult(c) == [do |-> "channelCreated", ch |-> c]
Repeat(n, item) == [i \in 1..n |-> item]

(* The function that is executed next                                      *)
Runs(what) == now # <<>> /\ Head(now).do = what

(* Something fails that need not fail: a loss counts more than an attempt  *)
(* to connect that fails                                                   *)
Fault(weight) == faults + weight <= MaxFaults /\ faults' = faults + weight

-----------------------------------------------------------------------------
(* callOnComplete(): informs who waits for the connection, and treats the  *)
(* channels that were asked for meanwhile                                  *)
callOnComplete(ok) ==
    /\ now' = Repeat(onComplete, Inform(ok))
                \o Repeat(pending, IF ok THEN Do("createChannel") ELSE ChannelResult(0))
    /\ onComplete' = 0 /\ pending' = 0

onReady ==
    /\ now = <<>> /\ state = "Started"
    /\ state' = "Ready"
    /\ callOnComplete(TRUE)
    /\ UNCHANGED <<urlIndex, timers, broken, library, posts>>

(* An attempt fails, and the next address is tried: onDetached(), onError() *)
(* for refused credentials or doAsyncConnect() for an invalid address calls *)
(* callOnComplete()                                                         *)
connectFails ==
    /\ now = <<>> /\ state = "Started" /\ Fault(1)
    /\ IF urlIndex + 1 < Urls
       THEN urlIndex' = urlIndex + 1 /\ UNCHANGED <<state, now, onComplete, pending>>
       ELSE urlIndex' = 0 /\ state' = "Unknown" /\ callOnComplete(FALSE)
    /\ UNCHANGED <<timers, broken, created, usable, ops, posts>>

onLost ==
    /\ now = <<>> /\ broken
    /\ broken' = FALSE /\ state' = "Lost"
    /\ timers' = timers + 1
    /\ UNCHANGED <<urlIndex, onComplete, pending, library, context>>

(* The timer of triggerReconnection() calls asyncConnect().  A connection  *)
(* that is given up for a new one is not reported as lost any more.        *)
asyncConnect ==
    /\ now = <<>> /\ timers > 0
    /\ timers' = timers - 1
    /\ IF state = "Ready"
       THEN posts' = Append(posts, Inform(TRUE)) /\ UNCHANGED <<state, onComplete, broken>>
       ELSE /\ state' = "Started" /\ broken' = FALSE
            /\ onComplete' = IF state = "Started" THEN onComplete + 1 ELSE 1
            /\ UNCHANGED posts
    /\ UNCHANGED <<urlIndex, pending, library, now>>

(* informReconnection(): clients that are registered revive                *)
informReconnection(registered) ==
    /\ Runs("informReconnection")
    /\ IF Head(now).ok
       THEN /\ now' = (IF registered THEN <<Do("reviveIfReconnected")>> ELSE <<>>) \o Tail(now)
            /\ UNCHANGED timers
       ELSE now' = Tail(now) /\ timers' = timers + 1
    /\ UNCHANGED <<state, urlIndex, onComplete, pending, broken, library, posts>>

(* doCreateChannel()                                                       *)
doCreateChannel ==
    /\ Runs("createChannel") /\ now' = Tail(now)
    /\ CASE state = "Ready" /\ ~broken ->
              /\ created' = created + 1
              /\ ops' = Append(ops, [op |-> "open", ch |-> created + 1, x |-> 0])
              /\ UNCHANGED <<state, pending, posts>>
         [] state \in {"Unknown", "Started"} ->
              /\ pending' = pending + 1 /\ state' = "Started"
              /\ UNCHANGED <<created, ops, posts>>
         [] OTHER ->
              /\ posts' = Append(posts, ChannelResult(0))
              /\ UNCHANGED <<state, pending, created, ops>>
    /\ UNCHANGED <<urlIndex, onComplete, timers, broken, usable, faults>>

(* A function is taken from the queue of the io context                    *)
runPosted ==
    /\ now = <<>> /\ posts # <<>>
    /\ now' = <<Head(posts)>> /\ posts' = Tail(posts)
    /\ UNCHANGED <<connection, library>>

-----------------------------------------------------------------------------
(* Library and broker (external)                                           *)

Reply(op, why) == [do |-> "reply", op |-> op, why |-> why]

IsFirst(i) == \A j \in 1..(i - 1) : ops[j].ch # ops[i].ch

OpsWithout(i) == [j \in 1..(Len(ops) - 1) |-> IF j < i THEN ops[j] ELSE ops[j + 1]]

replySuccess(i) ==
    /\ now = <<>> /\ ~broken /\ IsFirst(i)
    /\ ops' = OpsWithout(i)
    /\ usable' = IF ops[i].op = "open" THEN usable \cup {ops[i].ch} ELSE usable
    /\ now' = <<Reply(ops[i], "success")>>
    /\ UNCHANGED <<connection, created, posts, faults>>

ChannelError(c, why) == [do |-> "channelError", ch |-> c, why |-> why]

(* The errors that an operation can have                                   *)
Errors(op) == CASE op = "queue" -> {"retry", "other"}   \* RESOURCE_LOCKED
                [] op = "consume" -> {"retry", "other"} \* ACCESS_REFUSED, NOT_FOUND
                [] op = "bind" -> {"retry", "other"}    \* NOT_FOUND
                [] OTHER -> {"other"}

replyError(i, why) ==
    /\ now = <<>> /\ ~broken /\ IsFirst(i) /\ Fault(3)
    /\ why \in Errors(ops[i].op)
    /\ usable' = usable \ {ops[i].ch}
    /\ ops' = OpsWithout(i)
    /\ now' = <<Reply(ops[i], why), ChannelError(ops[i].ch, why)>>
    /\ UNCHANGED <<connection, created, posts>>

(* Before the error of a channel is reported, its other operations fail    *)
failNext(i) ==
    /\ Runs("channelError") /\ ops[i].ch = Head(now).ch /\ IsFirst(i)
    /\ ops' = OpsWithout(i)
    /\ now' = <<Reply(ops[i], "error state")>> \o now
    /\ UNCHANGED <<connection, created, usable, posts, faults>>

(* "connection lost" for all operations, maybe with a call of onError(),   *)
(* and later onLost()                                                      *)
connectionBreaks ==
    /\ now = <<>> /\ state = "Ready" /\ ~broken /\ Fault(3)
    /\ broken' = TRUE
    /\ state' \in {"Ready", "Error"}
    /\ usable' = {}
    /\ now' = <<Do("fail")>>
    /\ UNCHANGED <<urlIndex, onComplete, pending, timers, created, ops, posts>>

loseNext ==
    /\ Runs("fail")
    /\ IF ops = <<>>
       THEN now' = Tail(now) /\ UNCHANGED ops
       ELSE ops' = Tail(ops) /\ now' = <<Reply(Head(ops), "connection lost")>> \o now
    /\ UNCHANGED <<connection, created, usable, posts, faults>>
=============================================================================
