---------------------------- MODULE RequestReply ----------------------------
(***************************************************************************)
(* Requests between instances, karabo::xms::SignalSlotable                 *)
(* (xms/SignalSlotable.cc and .hh): a request is sent to a slot of another *)
(* instance, the slot is executed on some thread of the event loop there   *)
(* and the reply is sent back, or an error if the slot throws.  The        *)
(* requestor waits for the reply (receive) or registers handlers           *)
(* (receiveAsync); both have a timeout that races with the reply.          *)
(*                                                                         *)
(* There is one requesting and one answering instance.  The broker may     *)
(* lose a message or refuse it, which makes the sender throw; it keeps the *)
(* order of replies, which the requestor treats one after the other, on    *)
(* the strand of their sender.  AsyncReply objects are used after the slot *)
(* that created them has ended, as SignalSlotable.hh:563 demands.          *)
(***************************************************************************)
EXTENDS Integers, Sequences

CONSTANTS
    Async, Sync,  \* reply ids of requests by receiveAsync() and by receive()
    Threads,      \* threads of the event loop of the answering instance
    None, Null,   \* no entry in a map; an empty pointer
    MaxLost       \* bound: messages that the broker loses or refuses

ASSUME RequestsAssumption == Async \cap Sync = {} /\ None # Null
ASSUME NamesAssumption == {None, Null} \cap (Async \cup Sync) = {}
ASSUME LostAssumption == MaxLost \in Nat

VARIABLES
    pc,           \* how far the thread of the requestor got
    slotInstances,\* m_slotInstances: reply slots
    errorHandles, \* m_receiveAsyncErrorHandles: timer and error handler
    unheard,      \* the requests whose error handler is empty
    timer,        \* the timer of registerErrorHandler()
    bmc,          \* m_receivedRepliesBMC: who waits
    received,     \* m_receivedReplies
    handling,     \* handleReply(): the step it has to do next, and the reply
    outcome,      \* history: what the requestor was told, in order
    requests,     \* requests on their way to the slot
    replies,      \* replies on their way back
    placed,       \* m_replies: the reply placed on each thread
    later,        \* AsyncReply objects: the requests they will answer
    lost,         \* number of lost and refused messages
    spoilt        \* history: threads with a slot that placed a reply and threw

requestor == <<pc, slotInstances, errorHandles, unheard, timer, bmc, received, handling,
               outcome>>
answerer == <<placed, later, spoilt>>
requestVars == <<requestor, answerer, requests, replies, lost>>

Requests == Async \cup Sync

Idle == [step |-> "idle", to |-> None, of |-> None]

RequestInit ==
    /\ pc = [r \in Requests |-> "new"]
    /\ slotInstances = {} /\ errorHandles = {}
    /\ unheard \in SUBSET Async
    /\ timer = [r \in Async |-> "off"]
    /\ bmc = {} /\ received = {}
    /\ handling = Idle
    /\ outcome = [r \in Requests |-> <<>>]
    /\ requests = {} /\ replies = <<>>
    /\ placed = [t \in Threads |-> None]
    /\ later = {}
    /\ lost = 0
    /\ spoilt = {}

Tell(r, what) == outcome' = [outcome EXCEPT ![r] = Append(@, what)]

Goto(r, next) == pc' = [pc EXCEPT ![r] = next]

-----------------------------------------------------------------------------
(* The thread of the requestor                                             *)

(* receiveAsync(): the callback becomes a slot, named by the reply id      *)
registerSlot(r) ==
    /\ r \in Async /\ pc[r] = "new"
    /\ slotInstances' = slotInstances \cup {r}
    /\ Goto(r, "slot")
    /\ UNCHANGED <<errorHandles, timer, bmc, received, handling, outcome, answerer,
                   requests, replies, lost, unheard>>

(* registerErrorHandler(): the timer runs before it is in the map.  There  *)
(* is a timeout always (mutant: none if none was asked for)                *)
NoTimer(r) == timer

StartedTimer(r) == [timer EXCEPT ![r] = "running"]

startTimer(r) ==
    /\ r \in Async /\ pc[r] = "slot"
    /\ timer' = StartedTimer(r)
    /\ Goto(r, "timer")
    /\ UNCHANGED <<slotInstances, errorHandles, bmc, received, handling, outcome,
                   answerer, requests, replies, lost, unheard>>

addReceiveAsyncErrorHandles(r) ==
    /\ r \in Async /\ pc[r] = "timer"
    /\ errorHandles' = errorHandles \cup {r}
    /\ Goto(r, "registered")
    /\ UNCHANGED <<slotInstances, timer, bmc, received, handling, outcome, answerer,
                   requests, replies, lost, unheard>>

(* receive(): registerSynchronousReply()                                   *)
registerSynchronousReply(r) ==
    /\ r \in Sync /\ pc[r] = "new"
    /\ bmc' = bmc \cup {r}
    /\ Goto(r, "registered")
    /\ UNCHANGED <<slotInstances, errorHandles, timer, received, handling, outcome,
                   answerer, requests, replies, lost, unheard>>

sendRequest(r) ==
    /\ pc[r] = "registered"
    /\ requests' = requests \cup {r}
    /\ Goto(r, "sent")
    /\ UNCHANGED <<slotInstances, errorHandles, timer, bmc, received, handling, outcome,
                   answerer, replies, lost, unheard>>

(* ... if the broker refuses the message: the exception leaves receive()   *)
(* or receiveAsync(), and all that was registered stays                    *)
sendingFails(r) ==
    /\ pc[r] = "registered" /\ lost < MaxLost
    /\ lost' = lost + 1
    /\ Goto(r, "failed")
    /\ UNCHANGED <<slotInstances, errorHandles, timer, bmc, received, handling, outcome,
                   answerer, requests, replies, unheard>>

(* timedWaitAndPopReceivedReply(), checking the condition under the mutex  *)
(* of the condition variable                                               *)
hasReceivedReply(r) ==
    /\ r \in Sync /\ pc[r] \in {"sent", "awake"}
    /\ Goto(r, IF r \in received THEN "ready" ELSE "asleep")
    /\ UNCHANGED <<slotInstances, errorHandles, timer, bmc, received, handling, outcome,
                   answerer, requests, replies, lost, unheard>>

(* ... it waited long enough: the reply is not looked for again            *)
waitTimesOut(r) ==
    /\ r \in Sync /\ pc[r] = "asleep"
    /\ Goto(r, "late")
    /\ UNCHANGED <<slotInstances, errorHandles, timer, bmc, received, handling, outcome,
                   answerer, requests, replies, lost, unheard>>

(* ... and the end of it, popReceivedReply() included                      *)
receiveResponse(r) ==
    /\ r \in Sync /\ pc[r] \in {"ready", "late"}
    /\ bmc' = bmc \ {r}
    /\ received' = IF pc[r] = "ready" THEN received \ {r} ELSE received
    /\ Tell(r, IF pc[r] = "ready" THEN "reply" ELSE "timeout")
    /\ Goto(r, "over")
    /\ UNCHANGED <<slotInstances, errorHandles, timer, handling, answerer, requests,
                   replies, lost, unheard>>

-----------------------------------------------------------------------------
(* The event loop of the requestor                                         *)

(* removeSlot() also removes the error handler (mutant: only the slot)     *)
KeepErrorHandle(r) == errorHandles

RemovedErrorHandle(r) == errorHandles \ {r}

(* The timer is due and its handler queued: cancel() comes too late now    *)
timerExpires(r) ==
    /\ timer[r] = "running"
    /\ timer' = [timer EXCEPT ![r] = "expired"]
    /\ UNCHANGED <<pc, slotInstances, errorHandles, bmc, received, handling, outcome,
                   answerer, requests, replies, lost, unheard>>

(* If the error handler is empty, the timeout is only logged               *)
receiveAsyncTimeoutHandler(r) ==
    /\ timer[r] = "expired"
    /\ timer' = [timer EXCEPT ![r] = "done"]
    /\ slotInstances' = slotInstances \ {r}
    /\ errorHandles' = RemovedErrorHandle(r)
    /\ Tell(r, "timeout")
    /\ UNCHANGED <<pc, bmc, received, handling, answerer, requests, replies, lost,
                   unheard>>

(* Does handleReply() leave the reply to the timeout? (mutant: cancel()    *)
(* is called without looking at its result)                                *)
IgnoreTooLate(r) == FALSE

TooLate(r) == r \in errorHandles /\ timer[r] # "running"

(* handleReply(), first part: the timer is cancelled                       *)
handleReply ==
    /\ handling = Idle /\ replies # <<>>
    /\ LET m == Head(replies) IN
       /\ handling' = IF TooLate(m.to) THEN Idle
                      ELSE [step |-> "call", to |-> m.to, of |-> m.of]
       /\ timer' = IF m.to \in errorHandles /\ timer[m.to] = "running"
                     THEN [timer EXCEPT ![m.to] = "cancelled"] ELSE timer
    /\ replies' = Tail(replies)
    /\ UNCHANGED <<pc, slotInstances, errorHandles, bmc, received, outcome, answerer,
                   requests, lost, unheard>>

(* Second part: the error handler if there is one, or the callback - and   *)
(* the error handler if the callback throws.  removeSlot() removes both.   *)
callRegisteredSlotFunctions ==
    LET r == handling.to
        errorHandler == r \in errorHandles \ unheard
        asyncErrorHandlerCalled == handling.of = "error" /\ errorHandler IN
    /\ handling.step = "call"
    /\ \/ asyncErrorHandlerCalled /\ Tell(r, "error")
       \/ ~asyncErrorHandlerCalled /\ r \notin slotInstances /\ UNCHANGED outcome
       \/ ~asyncErrorHandlerCalled /\ r \in slotInstances /\ Tell(r, "reply")
       \/ /\ ~asyncErrorHandlerCalled /\ r \in slotInstances
          /\ Tell(r, IF errorHandler THEN "threw, error" ELSE "threw")
    /\ slotInstances' = slotInstances \ {r}
    /\ errorHandles' = RemovedErrorHandle(r)
    /\ handling' = IF r \in bmc THEN [handling EXCEPT !.step = "store"] ELSE Idle
    /\ UNCHANGED <<pc, timer, bmc, received, answerer, requests, replies, lost,
                   unheard>>

(* Third part: the reply is stored under the mutex that the waiting thread *)
(* holds while it checks, and then the thread is woken up                  *)
storeReply ==
    /\ handling.step = "store"
    /\ received' = received \cup {handling.to}
    /\ handling' = [handling EXCEPT !.step = "notify"]
    /\ UNCHANGED <<pc, slotInstances, errorHandles, timer, bmc, outcome, answerer,
                   requests, replies, lost, unheard>>

(* notify_one()                                                            *)
NotifyWaiting(r) == pc[r] = "asleep"

notifyOne ==
    LET r == handling.to IN
    /\ handling.step = "notify"
    /\ pc' = IF NotifyWaiting(r) THEN [pc EXCEPT ![r] = "awake"] ELSE pc
    /\ handling' = Idle
    /\ UNCHANGED <<slotInstances, errorHandles, timer, bmc, received, outcome, answerer,
                   requests, replies, lost, unheard>>

-----------------------------------------------------------------------------
(* The answering instance                                                  *)

(* What a slot may do: nothing, place a reply, create an AsyncReply; and   *)
(* then return or throw                                                    *)
Bodies == {"nothing", "reply", "async"}

PlacedBy(body, r, t) ==
    CASE body = "nothing" -> placed[t]
      [] body = "reply" -> r
      [] body = "async" -> Null

(* sendPotentialReply() of a request: the reply placed on the thread; an   *)
(* empty one if there is none; nothing if an AsyncReply will send it       *)
SentReply(r, p) ==
    IF p = Null THEN <<>>
    ELSE <<[to |-> r, of |-> IF p = None THEN "empty" ELSE p]>>

(* What stays placed when the slot has returned (mutant: it stays there)   *)
KeepPlaced(t, p) == [placed EXCEPT ![t] = p]

ErasePlaced(t, p) == [placed EXCEPT ![t] = None]

(* processSingleSlot() with a slot that returns                            *)
slotReturns(r, t, body) ==
    /\ r \in requests
    /\ requests' = requests \ {r}
    /\ LET p == PlacedBy(body, r, t)
       IN  /\ replies' = replies \o SentReply(r, p)
           /\ placed' = ErasePlaced(t, p)
    /\ later' = IF body = "async" THEN later \cup {r} ELSE later
    /\ spoilt' = spoilt \ {t}
    /\ UNCHANGED <<requestor, lost>>

(* ... and with one that throws: replyException().  What the slot placed   *)
(* before stays in m_replies.                                              *)
slotThrows(r, t, body) ==
    /\ r \in requests
    /\ requests' = requests \ {r}
    /\ replies' = Append(replies, [to |-> r, of |-> "error"])
    /\ placed' = [placed EXCEPT ![t] = PlacedBy(body, r, t)]
    /\ spoilt' = IF body = "nothing" THEN spoilt ELSE spoilt \cup {t}
    /\ UNCHANGED <<requestor, later, lost>>

(* ... and if the reply cannot be sent: sendPotentialReply() throws, and   *)
(* the reply of replyException() gets through or not either                *)
replyNotSent(r, t, body) ==
    /\ r \in requests /\ lost < MaxLost
    /\ SentReply(r, PlacedBy(body, r, t)) # <<>>
    /\ requests' = requests \ {r}
    /\ \/ replies' = Append(replies, [to |-> r, of |-> "error"])
       \/ UNCHANGED replies
    /\ placed' = ErasePlaced(t, r)
    /\ spoilt' = spoilt \ {t}
    /\ lost' = lost + 1
    /\ UNCHANGED <<requestor, later>>

(* AsyncReply::operator() or error(), from whatever thread                 *)
asyncReply(r, t) ==
    /\ r \in later
    /\ later' = later \ {r}
    /\ \/ /\ replies' = replies \o SentReply(r, r)
          /\ placed' = [placed EXCEPT ![t] = None]
          /\ spoilt' = spoilt \ {t}
       \/ /\ replies' = Append(replies, [to |-> r, of |-> "error"])
          /\ UNCHANGED <<placed, spoilt>>
    /\ UNCHANGED <<requestor, requests, lost>>

(* The broker loses a request, or a reply                                  *)
loseMessage ==
    /\ lost < MaxLost
    /\ lost' = lost + 1
    /\ \/ /\ \E r \in requests : requests' = requests \ {r}
          /\ UNCHANGED replies
       \/ /\ replies # <<>> /\ replies' = Tail(replies)
          /\ UNCHANGED requests
    /\ UNCHANGED <<requestor, answerer>>

-----------------------------------------------------------------------------
Requesting(r) ==
    \/ registerSlot(r)
    \/ startTimer(r)
    \/ addReceiveAsyncErrorHandles(r)
    \/ registerSynchronousReply(r)
    \/ sendRequest(r)
    \/ sendingFails(r)
    \/ hasReceivedReply(r)
    \/ waitTimesOut(r)
    \/ receiveResponse(r)

Timing(r) == timerExpires(r) \/ receiveAsyncTimeoutHandler(r)

HandlingReply ==
    \/ handleReply
    \/ callRegisteredSlotFunctions
    \/ storeReply
    \/ notifyOne

Answering ==
    \/ \E r \in Requests, t \in Threads, body \in Bodies :
          slotReturns(r, t, body) \/ slotThrows(r, t, body) \/ replyNotSent(r, t, body)
    \/ \E r \in Requests, t \in Threads : asyncReply(r, t)

RequestNext ==
    \/ \E r \in Requests : Requesting(r)
    \/ \E r \in Async : Timing(r)
    \/ HandlingReply
    \/ Answering
    \/ loseMessage

RequestSpec == RequestInit /\ [][RequestNext]_requestVars

(* Threads that started a request go on, timers expire and the event loop  *)
(* of the requestor runs; nothing is expected of the other instance        *)
RequestFairSpec ==
    /\ RequestSpec
    /\ \A r \in Requests : WF_requestVars(pc[r] # "new" /\ Requesting(r))
    /\ \A r \in Async : WF_requestVars(Timing(r))
    /\ WF_requestVars(HandlingReply)

-----------------------------------------------------------------------------
Reply == [to : Requests, of : Requests \cup {"empty", "error"}]

Told == {"reply", "error", "timeout", "threw", "threw, error"}

(* The variables have the types that the code gives them.                  *)
RequestTypeOK ==
    /\ pc \in [Requests -> {"new", "slot", "timer", "registered", "sent", "asleep",
                            "awake", "ready", "late", "over", "failed"}]
    /\ slotInstances \subseteq Async /\ errorHandles \subseteq Async /\ unheard \subseteq Async
    /\ timer \in [Async -> {"off", "running", "expired", "cancelled", "done"}]
    /\ bmc \subseteq Sync /\ received \subseteq Sync
    /\ \/ handling = Idle
       \/ handling \in [step : {"call", "store", "notify"}, to : Requests,
                        of : Requests \cup {"empty", "error"}]
    /\ outcome \in [Requests -> Seq(Told)]
    /\ requests \subseteq Requests /\ later \subseteq Requests
    /\ replies \in Seq(Reply)
    /\ placed \in [Threads -> Requests \cup {None, Null}]
    /\ lost \in 0..MaxLost
    /\ spoilt \subseteq Threads

(* The requestor is told one thing only (SignalSlotable.cc:499 and :2560): *)
(* reply, remote error or timeout, however the reply races the timer.  The *)
(* callback and the error handler are both called only if the callback     *)
(* throws.  A request that could not be sent is the exception: receive()   *)
(* has thrown then and tells nothing else, but receiveAsync(), which has   *)
(* thrown as well, may still have its timeout handled (:109-114), and only *)
(* the timeout.                                                            *)
OneOutcome ==
    \A r \in Requests :
        /\ Len(outcome[r]) <= 1
        /\ pc[r] = "failed" =>
              outcome[r] = <<>> \/ (r \in Async /\ outcome[r] = <<"timeout">>)

(* When an asynchronous request has ended with its reply, neither its      *)
(* reply slot nor its error handler is left, and not its reply slot if it  *)
(* has ended with the timeout; and no reply is stored for a synchronous    *)
(* request that was not, in the end, waiting for it, nor does it count as  *)
(* waiting.  So only a timeout leaves an error handler (:117) or a reply   *)
(* behind, and only a request that could not be sent a mark to wait (:278).*)
OnlyFailuresLeak ==
    /\ \A r \in Async :
          /\ outcome[r] # <<>> => r \notin slotInstances
          /\ outcome[r] # <<>> /\ outcome[r] # <<"timeout">> => r \notin errorHandles
    /\ \A r \in Sync :
          /\ pc[r] = "over" => r \notin bmc
          /\ pc[r] = "over" /\ outcome[r] # <<"timeout">> => r \notin received
          /\ pc[r] = "failed" => r \notin received

(* The reply that a slot call leads to when it returns                     *)
OwnReply(r, body) ==
    CASE body = "nothing" -> <<[to |-> r, of |-> "empty"]>>
      [] body = "reply" -> <<[to |-> r, of |-> r]>>
      [] body = "async" -> <<>>

(* When a slot returns, its caller gets the reply that this very call      *)
(* placed, an empty one if it placed none, and nothing if it created an    *)
(* AsyncReply - provided that no earlier slot call on the thread placed a  *)
(* reply and then threw: m_replies belongs to the thread, which all slot   *)
(* calls share (SignalSlotable.cc:859).                                    *)
RepliesAreOwn ==
    [][ \A r \in Requests, t \in Threads \ spoilt, body \in Bodies :
           slotReturns(r, t, body) => replies' = replies \o OwnReply(r, body) ]_requestVars

(* Each request that was started ends: with its reply, an error or the     *)
(* timeout - or, if it is synchronous, as it could not be sent.            *)
RequestsEnd ==
    \A r \in Requests :
        (pc[r] # "new") ~> (outcome[r] # <<>> \/ (r \in Sync /\ pc[r] = "failed"))
=============================================================================
