----------------------------- MODULE EventLoop -----------------------------
(***************************************************************************)
(* karabo::net::EventLoop (net/EventLoop.cc): the main thread blocks in    *)
(* run() or work() and pool threads, added and removed at any time, serve  *)
(* the same io_context.  A thread cannot join itself: removeThread() posts *)
(* a function that throws RemoveThreadException, the pool thread that      *)
(* catches it posts its own destruction and ends, and another thread joins *)
(* it.  When the io_context stops, the main thread joins the whole pool.   *)
(*                                                                         *)
(* m_threadMapMutex is held over several steps where a thread is joined    *)
(* under it; elsewhere acquiring it is part of the step that needs it.     *)
(* The io_context (external) is the queue of posted functions, the flag    *)
(* "stopped" and the rule that run() ends when it is out of work.          *)
(***************************************************************************)
EXTENDS Naturals, Sequences, FiniteSets

CONSTANTS
    Main,       \* the thread that calls EventLoop::run() or work()
    Pool,       \* identities of the threads that addThread() can create
    NoThread,   \* nobody: mutex free, nobody to join
    MaxRuns,    \* bound: calls of run() / work()
    MaxRemoves, \* bound: calls of removeThread()
    MaxStops,   \* bound: calls of stop()
    MaxWork     \* bound: ordinary functions posted by users of the loop

ASSUME ThreadsAssumption ==
    IsFiniteSet(Pool) /\ Main \notin Pool /\ NoThread \notin Pool \cup {Main}
ASSUME BoundsAssumption ==
    MaxRuns \in Nat /\ MaxRemoves \in Nat /\ MaxStops \in Nat /\ MaxWork \in Nat

VARIABLES
    running,       \* m_running
    threadMap,     \* keys of m_threadMap
    mutex,         \* holder of m_threadMapMutex
    queue,         \* functions posted to m_ioService
    stopped,       \* m_ioService.stopped()
    workGuard,     \* work() keeps the io_context from running out of work
    pc,            \* where each thread is
    target,        \* the thread that a thread destroys or joins
    stopRequested, \* std::stop_token of each pool thread
    adding,        \* addThread() callers that saw m_running, not yet added
    asked,         \* addThread() calls
    runs, removes, stops, work

calls == <<asked, runs, removes, stops, work>>
io == <<queue, stopped, workGuard>>
vars == <<running, threadMap, mutex, io, pc, target, stopRequested, adding,
          calls>>

Threads == Pool \cup {Main}

(* "locking..." are the places where a thread waits for m_threadMapMutex   *)
(* and no function is complete before it got it.                           *)
Locking == {"lockingRemove", "lockingAdd", "lockingDestroy"}
InHandler == {"lockingAdd", "lockingDestroy", "joining"}
PoolPCs == {"new", "check", "serving", "joining", "done"} \cup Locking
MainPCs ==
    {"off", "check", "serving", "joining", "lockingClear", "clearing",
     "clearJoining"} \cup Locking

Job(what, whom) == [do |-> what, of |-> whom]
Jobs == {Job(what, NoThread) : what \in {"inject", "add", "stop", "work"}}
        \cup {Job("destroy", t) : t \in Pool}

Init ==
    /\ running = FALSE
    /\ threadMap = {}
    /\ mutex = NoThread
    /\ queue = <<>>
    /\ stopped = FALSE
    /\ workGuard = FALSE
    /\ pc = [t \in Threads |-> IF t = Main THEN "off" ELSE "new"]
    /\ target = [t \in Threads |-> NoThread]
    /\ stopRequested = [t \in Pool |-> FALSE]
    /\ adding = 0
    /\ asked = 0
    /\ runs = 0
    /\ removes = 0
    /\ stops = 0
    /\ work = 0

-----------------------------------------------------------------------------
(* Calls from outside the event loop.                                      *)

(* EventLoop::work() (guarded) or run(), then _run() up to its loop        *)
run(guarded) ==
    /\ pc[Main] = "off"
    /\ runs < MaxRuns
    /\ runs' = runs + 1
    /\ workGuard' = guarded
    /\ stopped' = FALSE
    /\ running' = TRUE
    /\ pc' = [pc EXCEPT ![Main] = "check"]
    /\ UNCHANGED <<threadMap, mutex, queue, target, stopRequested, adding,
                   asked, removes, stops, work>>

(* stop(): too early if nothing runs, then it is posted.                   *)
StopNow ==
    IF running
      THEN stopped' = TRUE /\ UNCHANGED queue
      ELSE queue' = Append(queue, Job("stop", NoThread)) /\ UNCHANGED stopped

stop ==
    /\ stops < MaxStops
    /\ stops' = stops + 1
    /\ StopNow
    /\ UNCHANGED <<running, threadMap, mutex, workGuard, pc, target,
                   stopRequested, adding, asked, runs, removes, work>>

(* _addThread(1): m_running is read before the mutex is taken.             *)
addThread ==
    /\ asked < Cardinality(Pool)
    /\ asked' = asked + 1
    /\ IF running
         THEN adding' = adding + 1 /\ UNCHANGED queue
         ELSE queue' = Append(queue, Job("add", NoThread)) /\ UNCHANGED adding
    /\ UNCHANGED <<running, threadMap, mutex, stopped, workGuard, pc, target,
                   stopRequested, runs, removes, stops, work>>

(* A function posted to the loop calls addThread() when it is executed.    *)
postAddingWork ==
    /\ asked < Cardinality(Pool)
    /\ asked' = asked + 1
    /\ queue' = Append(queue, Job("add", NoThread))
    /\ UNCHANGED <<running, threadMap, mutex, stopped, workGuard, pc, target,
                   stopRequested, adding, runs, removes, stops, work>>

(* The lambda "add" under the mutex: a new thread starts to serve.         *)
addLocked ==
    /\ adding > 0
    /\ mutex = NoThread
    /\ adding' = adding - 1
    /\ \E n \in Pool :
          /\ pc[n] = "new"
          /\ pc' = [pc EXCEPT ![n] = "check"]
          /\ threadMap' = threadMap \cup {n}
    /\ UNCHANGED <<running, mutex, io, target, stopRequested, calls>>

removeThread ==
    /\ removes < MaxRemoves
    /\ removes' = removes + 1
    /\ queue' = Append(queue, Job("inject", NoThread))
    /\ UNCHANGED <<running, threadMap, mutex, stopped, workGuard, pc, target,
                   stopRequested, adding, asked, runs, stops, work>>

postWork ==
    /\ work < MaxWork
    /\ work' = work + 1
    /\ queue' = Append(queue, Job("work", NoThread))
    /\ UNCHANGED <<running, threadMap, mutex, stopped, workGuard, pc, target,
                   stopRequested, adding, asked, runs, removes, stops>>

-----------------------------------------------------------------------------
(* The loops around runProtected().                                        *)

(* _run(): while (ret) { if (stopped) break; ret = runProtected(); }       *)
checkMain ==
    /\ pc[Main] = "check"
    /\ pc' = [pc EXCEPT ![Main] = IF stopped THEN "lockingClear" ELSE "serving"]
    /\ running' = (running /\ ~stopped)
    /\ UNCHANGED <<threadMap, mutex, io, target, stopRequested, adding, calls>>

(* The lambda of the jthread: stop requested, or runProtected()            *)
checkPool(t) ==
    /\ pc[t] = "check"
    /\ pc' = [pc EXCEPT ![t] = IF stopRequested[t] THEN "done" ELSE "serving"]
    /\ UNCHANGED <<running, threadMap, mutex, io, target, stopRequested,
                   adding, calls>>

(* A plausible slip: a pool thread ignores what runProtected() returns.    *)
AfterRegularExitAgain(t) == IF t = Main THEN "lockingClear" ELSE "serving"

AfterRegularExit(t) == IF t = Main THEN "lockingClear" ELSE "done"

(* m_ioService.run() returns: "Regular exit"                               *)
serveEnd(t) ==
    /\ pc[t] = "serving"
    /\ stopped
    /\ pc' = [pc EXCEPT ![t] = AfterRegularExit(t)]
    /\ running' = (running /\ t # Main)
    /\ UNCHANGED <<threadMap, mutex, io, target, stopRequested, adding, calls>>

(* io_context: no function is pending or executed and nothing guards it.   *)
outOfWork ==
    /\ ~stopped
    /\ ~workGuard
    /\ queue = <<>>
    /\ \E t \in Threads : pc[t] = "serving"
    /\ \A t \in Threads : pc[t] \notin InHandler
    /\ stopped' = TRUE
    /\ UNCHANGED <<running, threadMap, mutex, queue, workGuard, pc, target,
                   stopRequested, adding, calls>>

(* io_context: the next function is due.                                   *)
Takes(t, what) ==
    /\ pc[t] = "serving"
    /\ ~stopped
    /\ queue # <<>>
    /\ Head(queue).do = what

(* An ordinary function returns, or throws what runProtected() catches.    *)
serveWork(t) ==
    /\ Takes(t, "work")
    /\ queue' = Tail(queue)
    /\ \E next \in {"serving", "check"} : pc' = [pc EXCEPT ![t] = next]
    /\ UNCHANGED <<running, threadMap, mutex, stopped, workGuard, target,
                   stopRequested, adding, calls>>

(* The posted stop() is executed.                                          *)
serveStop(t) ==
    /\ Takes(t, "stop")
    /\ IF running
         THEN stopped' = TRUE /\ queue' = Tail(queue)
         ELSE queue' = Append(Tail(queue), Head(queue)) /\ UNCHANGED stopped
    /\ UNCHANGED <<running, threadMap, mutex, workGuard, pc, target,
                   stopRequested, adding, calls>>

(* asyncInjectException() throws, runProtected() catches and locks, ...    *)
serveInject(t) ==
    /\ Takes(t, "inject")
    /\ queue' = Tail(queue)
    /\ pc' = [pc EXCEPT ![t] = "lockingRemove"]
    /\ UNCHANGED <<running, threadMap, mutex, stopped, workGuard, target,
                   stopRequested, adding, calls>>

(* A plausible slip: the main thread passes it on with nobody to remove.   *)
RepostRemovalAlone(t) ==
    queue' = Append(queue, IF t \in threadMap THEN Job("destroy", t)
                                              ELSE Job("inject", NoThread))

RepostRemoval(t) ==
    queue' = IF t \in threadMap THEN Append(queue, Job("destroy", t))
             ELSE IF threadMap # {} THEN Append(queue, Job("inject", NoThread))
             ELSE queue

(* ... a pool thread asks another one to destroy it and ends; the main     *)
(* thread injects the exception again if there is a thread to remove.      *)
removeSelf(t) ==
    /\ pc[t] = "lockingRemove"
    /\ mutex = NoThread
    /\ RepostRemoval(t)
    /\ pc' = [pc EXCEPT ![t] = IF t \in threadMap THEN "done" ELSE "check"]
    /\ UNCHANGED <<running, threadMap, mutex, stopped, workGuard, target,
                   stopRequested, adding, calls>>

(* A function that adds a thread: waits for the mutex, then adds.          *)
serveAdd(t) ==
    /\ Takes(t, "add")
    /\ queue' = Tail(queue)
    /\ pc' = [pc EXCEPT ![t] = "lockingAdd"]
    /\ UNCHANGED <<running, threadMap, mutex, stopped, workGuard, target,
                   stopRequested, adding, calls>>

addInHandler(t) ==
    /\ pc[t] = "lockingAdd"
    /\ mutex = NoThread
    /\ \E n \in Pool :
          /\ pc[n] = "new"
          /\ pc' = [pc EXCEPT ![n] = "check", ![t] = "serving"]
          /\ threadMap' = threadMap \cup {n}
    /\ UNCHANGED <<running, mutex, io, target, stopRequested, adding, calls>>

(* asyncDestroyThread(id): lock, erase from the map, join under the lock   *)
serveDestroy(t) ==
    /\ Takes(t, "destroy")
    /\ queue' = Tail(queue)
    /\ pc' = [pc EXCEPT ![t] = "lockingDestroy"]
    /\ target' = [target EXCEPT ![t] = Head(queue).of]
    /\ UNCHANGED <<running, threadMap, mutex, stopped, workGuard,
                   stopRequested, adding, calls>>

asyncDestroyThread(t) ==
    /\ pc[t] = "lockingDestroy"
    /\ mutex = NoThread
    /\ threadMap' = threadMap \ {target[t]}
    /\ IF target[t] \in threadMap
         THEN /\ mutex' = t
              /\ pc' = [pc EXCEPT ![t] = "joining"]
              /\ stopRequested' = [stopRequested EXCEPT ![target[t]] = TRUE]
         ELSE /\ pc' = [pc EXCEPT ![t] = "serving"]
              /\ UNCHANGED <<mutex, stopRequested>>
    /\ UNCHANGED <<running, io, target, adding, calls>>

(* A plausible slip: the thread is deleted without being joined.           *)
JoinedNot(t) == TRUE

(* join() returns when the thread has ended.                               *)
Joined(t) == pc[target[t]] = "done"

destroyed(t) ==
    /\ pc[t] = "joining"
    /\ Joined(t)
    /\ mutex' = NoThread
    /\ pc' = [pc EXCEPT ![t] = "serving"]
    /\ UNCHANGED <<running, threadMap, io, target, stopRequested, adding, calls>>

-----------------------------------------------------------------------------
(* clearThreadPool(): the main thread joins all others under the mutex.    *)
clearLock ==
    /\ pc[Main] = "lockingClear"
    /\ mutex = NoThread
    /\ mutex' = Main
    /\ pc' = [pc EXCEPT ![Main] = "clearing"]
    /\ UNCHANGED <<running, threadMap, io, target, stopRequested, adding, calls>>

clearNext ==
    /\ pc[Main] = "clearing"
    /\ \E t \in threadMap :
          /\ stopRequested' = [stopRequested EXCEPT ![t] = TRUE]
          /\ target' = [target EXCEPT ![Main] = t]
    /\ pc' = [pc EXCEPT ![Main] = "clearJoining"]
    /\ UNCHANGED <<running, threadMap, mutex, io, adding, calls>>

clearJoined ==
    /\ pc[Main] = "clearJoining"
    /\ Joined(Main)
    /\ threadMap' = threadMap \ {target[Main]}
    /\ pc' = [pc EXCEPT ![Main] = "clearing"]
    /\ UNCHANGED <<running, mutex, io, target, stopRequested, adding, calls>>

clearEnd ==
    /\ pc[Main] = "clearing"
    /\ threadMap = {}
    /\ mutex' = NoThread
    /\ pc' = [pc EXCEPT ![Main] = "off"]
    /\ UNCHANGED <<running, threadMap, io, target, stopRequested, adding, calls>>

-----------------------------------------------------------------------------
Serve(t) ==
    \/ serveWork(t)
    \/ serveStop(t)
    \/ serveInject(t)
    \/ serveAdd(t)
    \/ serveDestroy(t)

ThreadStep(t) ==
    \/ Serve(t)
    \/ serveEnd(t)
    \/ removeSelf(t)
    \/ addInHandler(t)
    \/ asyncDestroyThread(t)
    \/ destroyed(t)

MainStep == checkMain \/ clearLock \/ clearNext \/ clearJoined \/ clearEnd

Users ==
    \/ \E guarded \in BOOLEAN : run(guarded)
    \/ stop
    \/ addThread
    \/ postAddingWork
    \/ removeThread
    \/ postWork

Next ==
    \/ Users
    \/ addLocked
    \/ outOfWork
    \/ MainStep
    \/ \E t \in Pool : checkPool(t)
    \/ \E t \in Threads : ThreadStep(t)

(* Threads make progress and the mutex is eventually granted to whoever    *)
(* waits for it while it is free; an idle pool thread gets functions that  *)
(* keep being posted (what std::this_thread::yield() in runProtected() is  *)
(* there for).  Nobody has to call anything.                               *)
Fairness ==
    /\ WF_vars(MainStep)
    /\ WF_vars(addLocked)
    /\ WF_vars(outOfWork)
    /\ \A t \in Pool : WF_vars(checkPool(t)) /\ SF_vars(Serve(t))
    /\ \A t \in Threads : WF_vars(ThreadStep(t))

Spec == Init /\ [][Next]_vars /\ Fairness

-----------------------------------------------------------------------------
(* Every variable has its type; the main thread is never in m_threadMap and*)
(* never the one to be destroyed.                                          *)
TypeOK ==
    /\ running \in BOOLEAN
    /\ threadMap \subseteq Pool
    /\ mutex \in Threads \cup {NoThread}
    /\ queue \in Seq(Jobs)
    /\ stopped \in BOOLEAN
    /\ workGuard \in BOOLEAN
    /\ pc \in [Threads -> PoolPCs \cup MainPCs]
    /\ target \in [Threads -> Pool \cup {NoThread}]
    /\ stopRequested \in [Pool -> BOOLEAN]
    /\ adding \in Nat
    /\ asked \in 0..Cardinality(Pool)
    /\ runs \in 0..MaxRuns
    /\ removes \in 0..MaxRemoves
    /\ stops \in 0..MaxStops
    /\ work \in 0..MaxWork

(* Threads are removed as asked (_removeThread(), asyncDestroyThread() and *)
(* clearThreadPool()).  A std::jthread object is only deleted, i.e. its    *)
(* entry in m_threadMap erased, after its thread was joined, whoever gets  *)
(* to it first.  And until the loop stops for the first time, removeThread *)
(* ends at most as many threads as it was asked to, however often the main *)
(* thread catches the exception and passes it on.                          *)
RemovedAsAsked ==
    /\ \A u \in Pool :
          pc[u] # "new" /\ u \notin threadMap =>
              \/ pc[u] = "done"
              \/ \E t \in Threads : pc[t] = "joining" /\ target[t] = u
    /\ runs <= 1 /\ ~stopped =>
          Cardinality({t \in Pool : pc[t] = "done"}) <= removes

InjectInFlight ==
    \/ \E i \in 1..Len(queue) : queue[i].do = "inject"
    \/ \E t \in Threads : pc[t] = "lockingRemove"

(* A thread that is added when the loop has just stopped ends at once and  *)
(* stays in m_threadMap; with such an entry left the main thread, alone in *)
(* a later run(), would pass the exception to itself forever.              *)
DeadThreadInMap == \E t \in threadMap : pc[t] = "done"

(* removeThread() takes effect: the exception does not circulate forever   *)
(* between the main thread and the queue while there are pool threads.     *)
RemovalSettles ==
    <>[](~InjectInFlight \/ DeadThreadInMap \/ stopped \/ pc[Main] = "off")

(* stop() unblocks run(), if at that moment no thread is on its way to     *)
(* lock m_threadMapMutex.                                                  *)
StopUnblocksQuietLoop ==
    (stopped /\ pc[Main] # "off" /\ \A t \in Threads : pc[t] \notin Locking)
        ~> pc[Main] = "off"

(* "Stop the event loop, canceling any remaining work, i.e. unblocking     *)
(* run()" (EventLoop.hh): whatever the threads are doing.                  *)
StopUnblocksRun == (stopped /\ pc[Main] # "off") ~> pc[Main] = "off"
=============================================================================
