-------------------------- MODULE EventLoopProofs --------------------------
(***************************************************************************)
(* Proofs about the event loop (EventLoop) and the strands that run on it  *)
(* (Strand).                                                               *)
(*                                                                         *)
(* About EventLoop for any finite number of pool threads and any number of *)
(* calls: its types, and that threads are removed as asked.                *)
(*                                                                         *)
(* RemovedAsAsked is not inductive.  That an entry only leaves m_threadMap *)
(* when its thread has ended needs to know that whoever is to be destroyed *)
(* has ended already when its destruction is posted (DestroyInv).  That no *)
(* more threads end than were asked to needs the exceptions on their way   *)
(* to be counted with the threads that ended (FirstRunInv), and that until *)
(* the first stop nobody else asks a living thread to end.                 *)
(***************************************************************************)
EXTENDS EventLoop, Strand, TLAPS, FiniteSetTheorems

(* The places in the queue of the functions that throw                     *)
(* RemoveThreadException.                                                  *)
Injects(q) == {i \in 1..Len(q) : q[i].do = "inject"}

(* The threads that caught the exception, and those that have ended.       *)
Leaving == {t \in Threads : pc[t] \in {"lockingRemove", "done"}}

PCInv == pc[Main] \in MainPCs /\ \A t \in Pool : pc[t] \in PoolPCs

(* Whoever is to be destroyed by a function of queue q is one of "ended".  *)
OnlyEnded(q, ended) ==
    \A i \in 1..Len(q) : q[i].do = "destroy" => q[i].of \in ended

Ended == {t \in Pool : pc[t] = "done"}

DestroyInv ==
    /\ OnlyEnded(queue, Ended)
    /\ \A t \in Threads :
          pc[t] \in {"lockingDestroy", "joining"} =>
              target[t] \in Pool /\ pc[target[t]] = "done"

MapInv ==
    /\ \A u \in threadMap : pc[u] # "new"
    /\ \A u \in Pool : pc[u] # "new" /\ u \notin threadMap => pc[u] = "done"
    /\ pc[Main] = "clearJoining" => target[Main] \in Pool

FirstRunInv ==
    /\ running => runs > 0
    /\ runs = 0 =>
          /\ ~stopped
          /\ pc[Main] = "off"
          /\ adding = 0
          /\ \A t \in Pool : pc[t] = "new"
    /\ runs <= 1 /\ ~stopped =>
          /\ pc[Main] \notin {"lockingClear", "clearing", "clearJoining"}
          /\ pc[Main] = "off" => runs = 0
          /\ \A t \in Pool : stopRequested[t] => pc[t] = "done"

(* Every thread that ended, and every exception on its way to end one, was *)
(* asked for by a removeThread().                                          *)
CountInv ==
    runs <= 1 /\ ~stopped =>
        Cardinality(Leaving) + Cardinality(Injects(queue)) <= removes

Inv == TypeOK /\ PCInv /\ DestroyInv /\ MapInv /\ FirstRunInv /\ CountInv

-----------------------------------------------------------------------------
(* The functions that the model posts are functions of the queue.          *)
LEMMA JobTypes ==
    /\ \A what \in {"inject", "add", "stop", "work"} :
          Job(what, NoThread) \in Jobs
    /\ \A t \in Pool : Job("destroy", t) \in Jobs
    /\ \A j \in Jobs : j.do = "destroy" => j.of \in Pool
    /\ \A what, whom : Job(what, whom).do = what /\ Job(what, whom).of = whom
<1>1. \A what \in {"inject", "add", "stop", "work"} :
        Job(what, NoThread) \in Jobs
  BY DEF Jobs
<1>2. \A t \in Pool : Job("destroy", t) \in Jobs
  BY DEF Jobs
<1>3. \A what, whom : Job(what, whom).do = what /\ Job(what, whom).of = whom
  BY DEF Job
<1>4. ASSUME NEW j \in Jobs, j.do = "destroy" PROVE j.of \in Pool
  <2>1. CASE \E what \in {"inject", "add", "stop", "work"} :
               j = Job(what, NoThread)
    BY <2>1, <1>3, <1>4
  <2>2. CASE \E t \in Pool : j = Job("destroy", t)
    BY <2>2, <1>3
  <2> QED
    BY <2>1, <2>2 DEF Jobs
<1> QED
  BY <1>1, <1>2, <1>3, <1>4

(* Taking the next function, or posting one, leaves a queue.               *)
LEMMA QueueTypes ==
    /\ \A q \in Seq(Jobs), j \in Jobs : Append(q, j) \in Seq(Jobs)
    /\ \A q \in Seq(Jobs) :
          q # <<>> => Head(q) \in Jobs /\ Tail(q) \in Seq(Jobs)
  OBVIOUS

(* Initially everything has its type and nothing was posted or added.      *)
LEMMA InitInv == Init => Inv
<1> SUFFICES ASSUME Init PROVE Inv
  OBVIOUS
<1>1. Cardinality(Pool) \in Nat
  BY ThreadsAssumption, FS_CardinalityType
<1>2. TypeOK
  <2>1. <<>> \in Seq(Jobs)
    OBVIOUS
  <2>2. pc \in [Threads -> PoolPCs \cup MainPCs]
    BY DEF Init, PoolPCs, MainPCs
  <2>3. target \in [Threads -> Pool \cup {NoThread}]
    BY DEF Init
  <2>4. stopRequested \in [Pool -> BOOLEAN]
    BY DEF Init
  <2>5. /\ asked \in 0..Cardinality(Pool) /\ runs \in 0..MaxRuns
        /\ removes \in 0..MaxRemoves /\ stops \in 0..MaxStops
        /\ work \in 0..MaxWork
    BY <1>1, BoundsAssumption DEF Init
  <2>6. /\ running \in BOOLEAN /\ stopped \in BOOLEAN /\ workGuard \in BOOLEAN
        /\ threadMap \subseteq Pool /\ mutex \in Threads \cup {NoThread}
        /\ queue \in Seq(Jobs) /\ adding \in Nat
    BY <2>1 DEF Init
  <2> QED
    BY <2>2, <2>3, <2>4, <2>5, <2>6 DEF TypeOK
<1>3. PCInv
  BY ThreadsAssumption DEF Init, PCInv, PoolPCs, MainPCs, Threads
<1>4. DestroyInv
  BY DEF Init, DestroyInv, OnlyEnded
<1>5. MapInv
  BY ThreadsAssumption DEF Init, MapInv, Threads
<1>6. FirstRunInv
  BY ThreadsAssumption DEF Init, FirstRunInv, Threads
<1>7. CountInv
  <2>1. Leaving = {} /\ Injects(queue) = {}
    BY ThreadsAssumption DEF Init, Leaving, Injects
  <2> QED
    <3>1. removes = 0
      BY DEF Init
    <3>2. Cardinality(Leaving) = 0 /\ Cardinality(Injects(queue)) = 0
      BY <2>1, FS_EmptySet
    <3> QED
      BY <3>1, <3>2 DEF CountInv
<1> QED
  BY <1>2, <1>3, <1>4, <1>5, <1>6, <1>7 DEF Inv

-----------------------------------------------------------------------------
(* Every step keeps the types.                                             *)
LEMMA TypeStep == Inv /\ [Next]_vars => TypeOK'
<1> SUFFICES ASSUME Inv, [Next]_vars PROVE TypeOK'
  OBVIOUS
<1> USE ThreadsAssumption, BoundsAssumption
<1>1. Cardinality(Pool) \in Nat
  BY FS_CardinalityType
<1>2. TypeOK /\ PCInv
  BY DEF Inv
<1>3. Main \in Threads /\ Pool \subseteq Threads
  BY DEF Threads
<1>4. {"check", "serving", "joining", "done", "off", "lockingClear", "clearing",
       "clearJoining"} \cup Locking \subseteq PoolPCs \cup MainPCs
  BY DEF PoolPCs, MainPCs
<1>5. \A t \in Threads : \A p \in {"check", "serving", "joining", "done", "off",
          "lockingClear", "clearing", "clearJoining"} \cup Locking :
        [pc EXCEPT ![t] = p] \in [Threads -> PoolPCs \cup MainPCs]
  BY <1>2, <1>4 DEF TypeOK
<1>6. {"lockingRemove", "lockingAdd", "lockingDestroy"} \subseteq Locking
  BY DEF Locking
<1>7. CASE UNCHANGED vars
  BY <1>7, <1>2 DEF TypeOK, vars, io, calls
<1>8. CASE Users
  <2>1. CASE \E guarded \in BOOLEAN : run(guarded)
    <3>1. PICK guarded \in BOOLEAN : run(guarded)
      BY <2>1
    <3>2. runs' \in 0..MaxRuns
      BY <3>1, <1>2 DEF run, TypeOK
    <3>3. pc' \in [Threads -> PoolPCs \cup MainPCs]
      BY <3>1, <1>3, <1>5 DEF run
    <3> QED
      BY <3>1, <3>2, <3>3, <1>2 DEF run, TypeOK
  <2>2. CASE stop
    <3>1. CASE running
      BY <2>2, <3>1, <1>1, <1>2 DEF stop, StopNow, TypeOK
    <3>2. CASE ~running
      <4>1. queue' \in Seq(Jobs)
        BY <2>2, <3>2, <1>2, JobTypes, QueueTypes DEF stop, StopNow, TypeOK
      <4> QED
        BY <2>2, <3>2, <4>1, <1>1, <1>2 DEF stop, StopNow, TypeOK
    <3> QED
      BY <3>1, <3>2
  <2>3. CASE addThread
    <3>1. CASE running
      BY <2>3, <3>1, <1>1, <1>2 DEF addThread, TypeOK
    <3>2. CASE ~running
      <4>1. queue' \in Seq(Jobs)
        <5>1. queue' = Append(queue, Job("add", NoThread))
          BY <2>3, <3>2 DEF addThread
        <5>2. queue \in Seq(Jobs)
          BY <1>2 DEF TypeOK
        <5> QED
          BY <5>1, <5>2, JobTypes, QueueTypes
      <4> QED
        BY <2>3, <3>2, <4>1, <1>1, <1>2 DEF addThread, TypeOK
    <3> QED
      BY <3>1, <3>2
  <2>4. CASE postAddingWork
    BY <2>4, <1>1, <1>2, JobTypes, QueueTypes DEF postAddingWork, TypeOK
  <2>5. CASE removeThread
    BY <2>5, <1>1, <1>2, JobTypes, QueueTypes DEF removeThread, TypeOK
  <2>6. CASE postWork
    BY <2>6, <1>1, <1>2, JobTypes, QueueTypes DEF postWork, TypeOK
  <2> QED
    BY <1>8, <2>1, <2>2, <2>3, <2>4, <2>5, <2>6 DEF Users
<1>9. CASE addLocked
  <2>1. PICK n \in Pool : /\ pc[n] = "new"
                          /\ pc' = [pc EXCEPT ![n] = "check"]
                          /\ threadMap' = threadMap \cup {n}
    BY <1>9 DEF addLocked
  <2> QED
    BY <1>9, <2>1, <1>1, <1>2, <1>3, <1>5 DEF addLocked, TypeOK, io, calls
<1>10. CASE outOfWork
  BY <1>10, <1>2 DEF outOfWork, TypeOK, calls
<1>11. CASE MainStep
  <2>1. CASE checkMain
    BY <2>1, <1>2, <1>3, <1>5 DEF checkMain, TypeOK, io, calls
  <2>2. CASE clearLock
    BY <2>2, <1>2, <1>3, <1>5 DEF clearLock, TypeOK, io, calls
  <2>3. CASE clearNext
    BY <2>3, <1>2, <1>3, <1>5 DEF clearNext, TypeOK, io, calls
  <2>4. CASE clearJoined
    BY <2>4, <1>2, <1>3, <1>5 DEF clearJoined, TypeOK, io, calls
  <2>5. CASE clearEnd
    BY <2>5, <1>2, <1>3, <1>5 DEF clearEnd, TypeOK, io, calls
  <2> QED
    BY <1>11, <2>1, <2>2, <2>3, <2>4, <2>5 DEF MainStep
<1>12. CASE \E t \in Pool : checkPool(t)
  BY <1>12, <1>2, <1>3, <1>5 DEF checkPool, TypeOK, io, calls
<1>13. ASSUME NEW t \in Threads, ThreadStep(t) PROVE TypeOK'
  <2>1. CASE serveWork(t)
    BY <2>1, <1>2, <1>5, QueueTypes DEF serveWork, Takes, TypeOK, calls
  <2>2. CASE serveStop(t)
    <3>1. queue' \in Seq(Jobs)
      <4>1. CASE running
        BY <2>2, <4>1, <1>2, QueueTypes DEF serveStop, Takes, TypeOK
      <4>2. CASE ~running
        <5>1. queue' = Append(Tail(queue), Head(queue)) /\ queue # <<>>
          BY <2>2, <4>2 DEF serveStop, Takes
        <5>2. queue \in Seq(Jobs)
          BY <1>2 DEF TypeOK
        <5> QED
          BY <5>1, <5>2, QueueTypes
      <4> QED
        BY <4>1, <4>2
    <3>2. stopped' \in BOOLEAN
      BY <2>2, <1>2 DEF serveStop, TypeOK
    <3> QED
      BY <2>2, <3>1, <3>2, <1>2 DEF serveStop, TypeOK, calls
  <2>3. CASE serveInject(t)
    BY <2>3, <1>2, <1>5, <1>6, QueueTypes DEF serveInject, Takes, TypeOK, calls
  <2>4. CASE serveAdd(t)
    BY <2>4, <1>2, <1>5, <1>6, QueueTypes DEF serveAdd, Takes, TypeOK, calls
  <2>5. CASE serveDestroy(t)
    BY <2>5, <1>2, <1>5, <1>6, QueueTypes, JobTypes
    DEF serveDestroy, Takes, TypeOK, calls
  <2>6. CASE serveEnd(t)
    BY <2>6, <1>2, <1>5 DEF serveEnd, AfterRegularExit, TypeOK, io, calls
  <2>7. CASE removeSelf(t)
    BY <2>7, <1>2, <1>5, QueueTypes, JobTypes
    DEF removeSelf, RepostRemoval, TypeOK, calls
  <2>8. CASE addInHandler(t)
    <3>1. PICK n \in Pool :
            /\ pc[n] = "new"
            /\ pc' = [pc EXCEPT ![n] = "check", ![t] = "serving"]
            /\ threadMap' = threadMap \cup {n}
      BY <2>8 DEF addInHandler
    <3>2. pc' \in [Threads -> PoolPCs \cup MainPCs]
      BY <3>1, <1>2, <1>4 DEF TypeOK
    <3> QED
      BY <2>8, <3>1, <3>2, <1>2 DEF addInHandler, TypeOK, io, calls
  <2>9. CASE asyncDestroyThread(t)
    <3>1. target[t] \in threadMap => target[t] \in Pool
      BY <1>2 DEF TypeOK
    <3>2. CASE target[t] \in threadMap
      <4>1. stopRequested' \in [Pool -> BOOLEAN]
        BY <2>9, <3>1, <3>2, <1>2 DEF asyncDestroyThread, TypeOK
      <4>2. pc' \in [Threads -> PoolPCs \cup MainPCs] /\ mutex' \in Threads
        BY <2>9, <3>2, <1>5 DEF asyncDestroyThread
      <4> QED
        BY <2>9, <4>1, <4>2, <1>2 DEF asyncDestroyThread, TypeOK, io, calls
    <3>3. CASE target[t] \notin threadMap
      BY <2>9, <3>3, <1>2, <1>5 DEF asyncDestroyThread, TypeOK, io, calls
    <3> QED
      BY <3>2, <3>3
  <2>10. CASE destroyed(t)
    BY <2>10, <1>2, <1>5 DEF destroyed, TypeOK, io, calls
  <2> QED
    BY <1>13, <2>1, <2>2, <2>3, <2>4, <2>5, <2>6, <2>7, <2>8, <2>9, <2>10
    DEF ThreadStep, Serve
<1> QED
  BY <1>7, <1>8, <1>9, <1>10, <1>11, <1>12, <1>13 DEF Next

(* The main thread and the pool threads stay in their own loops.           *)
LEMMA PCStep == Inv /\ [Next]_vars => PCInv'
<1> SUFFICES ASSUME Inv, [Next]_vars PROVE PCInv'
  OBVIOUS
<1>1. /\ pc \in [Threads -> PoolPCs \cup MainPCs]
      /\ threadMap \subseteq Pool
      /\ Main \in Threads /\ Main \notin Pool
      /\ \A t \in Pool : t \in Threads /\ t # Main
      /\ \A t \in Threads : t = Main \/ t \in Pool
  BY ThreadsAssumption DEF Inv, TypeOK, Threads
<1>2. pc[Main] \in MainPCs /\ \A t \in Pool : pc[t] \in PoolPCs
  BY DEF Inv, PCInv
<1>7. CASE UNCHANGED vars
  BY <1>7, <1>1, <1>2 DEF PCInv, MainPCs, PoolPCs, Locking, vars, io
<1>8. CASE Users
  <2>1. CASE \E guarded \in BOOLEAN : run(guarded)
    BY <2>1, <1>1, <1>2 DEF run, PCInv, MainPCs, PoolPCs, Locking
  <2>2. CASE stop
    BY <2>2, <1>1, <1>2 DEF stop, StopNow, PCInv, MainPCs, PoolPCs, Locking
  <2>3. CASE addThread
    BY <2>3, <1>1, <1>2 DEF addThread, PCInv, MainPCs, PoolPCs, Locking
  <2>4. CASE postAddingWork
    BY <2>4, <1>1, <1>2 DEF postAddingWork, PCInv, MainPCs, PoolPCs, Locking
  <2>5. CASE removeThread
    BY <2>5, <1>1, <1>2 DEF removeThread, PCInv, MainPCs, PoolPCs, Locking
  <2>6. CASE postWork
    BY <2>6, <1>1, <1>2 DEF postWork, PCInv, MainPCs, PoolPCs, Locking
  <2> QED
    BY <1>8, <2>1, <2>2, <2>3, <2>4, <2>5, <2>6 DEF Users
<1>9. CASE addLocked
  BY <1>9, <1>1, <1>2 DEF addLocked, PCInv, MainPCs, PoolPCs, Locking, io
<1>10. CASE outOfWork
  BY <1>10, <1>1, <1>2 DEF outOfWork, PCInv, MainPCs, PoolPCs, Locking
<1>11. CASE MainStep
  <2>1. CASE checkMain
    BY <2>1, <1>1, <1>2 DEF checkMain, PCInv, MainPCs, PoolPCs, Locking, io
  <2>2. CASE clearLock
    BY <2>2, <1>1, <1>2 DEF clearLock, PCInv, MainPCs, PoolPCs, Locking, io
  <2>3. CASE clearNext
    BY <2>3, <1>1, <1>2 DEF clearNext, PCInv, MainPCs, PoolPCs, Locking, io
  <2>4. CASE clearJoined
    BY <2>4, <1>1, <1>2 DEF clearJoined, Joined, PCInv, MainPCs, PoolPCs, Locking, io
  <2>5. CASE clearEnd
    BY <2>5, <1>1, <1>2 DEF clearEnd, PCInv, MainPCs, PoolPCs, Locking, io
  <2> QED
    BY <1>11, <2>1, <2>2, <2>3, <2>4, <2>5 DEF MainStep
<1>12. ASSUME NEW t \in Pool, checkPool(t) PROVE PCInv'
  BY <1>12, <1>1, <1>2 DEF checkPool, PCInv, MainPCs, PoolPCs, Locking, io
<1>13. ASSUME NEW t \in Threads, ThreadStep(t) PROVE PCInv'
  <2>1. CASE serveWork(t)
    BY <2>1, <1>1, <1>2 DEF serveWork, Takes, PCInv, MainPCs, PoolPCs, Locking
  <2>2. CASE serveStop(t)
    BY <2>2, <1>1, <1>2 DEF serveStop, Takes, PCInv, MainPCs, PoolPCs, Locking
  <2>3. CASE serveInject(t)
    BY <2>3, <1>1, <1>2 DEF serveInject, Takes, PCInv, MainPCs, PoolPCs, Locking
  <2>4. CASE serveAdd(t)
    BY <2>4, <1>1, <1>2 DEF serveAdd, Takes, PCInv, MainPCs, PoolPCs, Locking
  <2>5. CASE serveDestroy(t)
    BY <2>5, <1>1, <1>2 DEF serveDestroy, Takes, PCInv, MainPCs, PoolPCs, Locking
  <2>6. CASE serveEnd(t)
    BY <2>6, <1>1, <1>2 DEF serveEnd, AfterRegularExit, PCInv, MainPCs, PoolPCs, Locking, io
  <2>7. CASE removeSelf(t)
    BY <2>7, <1>1, <1>2 DEF removeSelf, RepostRemoval, PCInv, MainPCs, PoolPCs, Locking
  <2>8. CASE addInHandler(t)
    BY <2>8, <1>1, <1>2 DEF addInHandler, PCInv, MainPCs, PoolPCs, Locking, io
  <2>9. CASE asyncDestroyThread(t)
    BY <2>9, <1>1, <1>2 DEF asyncDestroyThread, PCInv, MainPCs, PoolPCs, Locking, io
  <2>10. CASE destroyed(t)
    BY <2>10, <1>1, <1>2 DEF destroyed, Joined, PCInv, MainPCs, PoolPCs, Locking, io
  <2> QED
    BY <1>13, <2>1, <2>2, <2>3, <2>4, <2>5, <2>6, <2>7, <2>8, <2>9, <2>10
    DEF ThreadStep, Serve
<1> QED
  BY <1>7, <1>8, <1>9, <1>10, <1>11, <1>12, <1>13 DEF Next

(* A thread that has ended never serves again, and one that was started is *)
(* never as good as new: what join() waits for stays true.                 *)
EndsOnce ==
    \A u \in Pool :
        /\ pc[u] = "done" => pc'[u] = "done"
        /\ pc[u] # "new" => pc'[u] # "new"

(* Every step keeps a thread's end (the loop of the jthread's lambda).     *)
LEMMA Finality == Inv /\ [Next]_vars => EndsOnce
<1> SUFFICES ASSUME Inv, [Next]_vars PROVE EndsOnce
  OBVIOUS
<1>1. /\ pc \in [Threads -> PoolPCs \cup MainPCs]
      /\ threadMap \subseteq Pool
      /\ Main \in Threads /\ Main \notin Pool
      /\ \A t \in Pool : t \in Threads /\ t # Main
      /\ \A t \in Threads : t = Main \/ t \in Pool
  BY ThreadsAssumption DEF Inv, TypeOK, Threads
<1>7. CASE UNCHANGED vars
  BY <1>7, <1>1 DEF EndsOnce, vars, io
<1>8. CASE Users
  <2>1. CASE \E guarded \in BOOLEAN : run(guarded)
    BY <2>1, <1>1 DEF run, EndsOnce
  <2>2. CASE stop
    BY <2>2, <1>1 DEF stop, StopNow, EndsOnce
  <2>3. CASE addThread
    BY <2>3, <1>1 DEF addThread, EndsOnce
  <2>4. CASE postAddingWork
    BY <2>4, <1>1 DEF postAddingWork, EndsOnce
  <2>5. CASE removeThread
    BY <2>5, <1>1 DEF removeThread, EndsOnce
  <2>6. CASE postWork
    BY <2>6, <1>1 DEF postWork, EndsOnce
  <2> QED
    BY <1>8, <2>1, <2>2, <2>3, <2>4, <2>5, <2>6 DEF Users
<1>9. CASE addLocked
  BY <1>9, <1>1 DEF addLocked, EndsOnce, io
<1>10. CASE outOfWork
  BY <1>10, <1>1 DEF outOfWork, EndsOnce
<1>11. CASE MainStep
  <2>1. CASE checkMain
    BY <2>1, <1>1 DEF checkMain, EndsOnce, io
  <2>2. CASE clearLock
    BY <2>2, <1>1 DEF clearLock, EndsOnce, io
  <2>3. CASE clearNext
    BY <2>3, <1>1 DEF clearNext, EndsOnce, io
  <2>4. CASE clearJoined
    BY <2>4, <1>1 DEF clearJoined, Joined, EndsOnce, io
  <2>5. CASE clearEnd
    BY <2>5, <1>1 DEF clearEnd, EndsOnce, io
  <2> QED
    BY <1>11, <2>1, <2>2, <2>3, <2>4, <2>5 DEF MainStep
<1>12. ASSUME NEW t \in Pool, checkPool(t) PROVE EndsOnce
  BY <1>12, <1>1 DEF checkPool, EndsOnce, io
<1>13. ASSUME NEW t \in Threads, ThreadStep(t) PROVE EndsOnce
  <2>1. CASE serveWork(t)
    BY <2>1, <1>1 DEF serveWork, Takes, EndsOnce
  <2>2. CASE serveStop(t)
    BY <2>2, <1>1 DEF serveStop, Takes, EndsOnce
  <2>3. CASE serveInject(t)
    BY <2>3, <1>1 DEF serveInject, Takes, EndsOnce
  <2>4. CASE serveAdd(t)
    BY <2>4, <1>1 DEF serveAdd, Takes, EndsOnce
  <2>5. CASE serveDestroy(t)
    BY <2>5, <1>1 DEF serveDestroy, Takes, EndsOnce
  <2>6. CASE serveEnd(t)
    BY <2>6, <1>1 DEF serveEnd, AfterRegularExit, EndsOnce, io
  <2>7. CASE removeSelf(t)
    BY <2>7, <1>1 DEF removeSelf, RepostRemoval, EndsOnce
  <2>8. CASE addInHandler(t)
    BY <2>8, <1>1 DEF addInHandler, EndsOnce, io
  <2>9. CASE asyncDestroyThread(t)
    BY <2>9, <1>1 DEF asyncDestroyThread, EndsOnce, io
  <2>10. CASE destroyed(t)
    BY <2>10, <1>1 DEF destroyed, Joined, EndsOnce, io
  <2> QED
    BY <1>13, <2>1, <2>2, <2>3, <2>4, <2>5, <2>6, <2>7, <2>8, <2>9, <2>10
    DEF ThreadStep, Serve
<1> QED
  BY <1>7, <1>8, <1>9, <1>10, <1>11, <1>12, <1>13 DEF Next

(* m_threadMap holds threads that were started, and all that have not ended*)
LEMMA MapStep == Inv /\ [Next]_vars => MapInv'
<1> SUFFICES ASSUME Inv, [Next]_vars PROVE MapInv'
  OBVIOUS
<1>1. /\ pc \in [Threads -> PoolPCs \cup MainPCs]
      /\ threadMap \subseteq Pool
      /\ Main \in Threads /\ Main \notin Pool
      /\ \A t \in Pool : t \in Threads /\ t # Main
      /\ \A t \in Threads : t = Main \/ t \in Pool
  BY ThreadsAssumption DEF Inv, TypeOK, Threads
<1>2. /\ target \in [Threads -> Pool \cup {NoThread}]
      /\ NoThread \notin Pool
  BY ThreadsAssumption DEF Inv, TypeOK
<1>3. pc[Main] \in MainPCs
  BY DEF Inv, PCInv
<1>4. MapInv
  BY DEF Inv
<1>5. \A v \in Threads :
        pc[v] \in {"lockingDestroy", "joining"} =>
            target[v] \in Pool /\ pc[target[v]] = "done"
  BY DEF Inv, DestroyInv
<1>7. CASE UNCHANGED vars
  BY <1>7, <1>1, <1>2, <1>3, <1>4, <1>5 DEF MapInv, MainPCs, Locking, vars, io, calls
<1>8. CASE Users
  <2>1. CASE \E guarded \in BOOLEAN : run(guarded)
    BY <2>1, <1>1, <1>2, <1>3, <1>4, <1>5 DEF run, MapInv, MainPCs, Locking
  <2>2. CASE stop
    BY <2>2, <1>1, <1>2, <1>3, <1>4, <1>5 DEF stop, StopNow, MapInv, MainPCs, Locking
  <2>3. CASE addThread
    BY <2>3, <1>1, <1>2, <1>3, <1>4, <1>5 DEF addThread, MapInv, MainPCs, Locking
  <2>4. CASE postAddingWork
    BY <2>4, <1>1, <1>2, <1>3, <1>4, <1>5 DEF postAddingWork, MapInv, MainPCs, Locking
  <2>5. CASE removeThread
    BY <2>5, <1>1, <1>2, <1>3, <1>4, <1>5 DEF removeThread, MapInv, MainPCs, Locking
  <2>6. CASE postWork
    BY <2>6, <1>1, <1>2, <1>3, <1>4, <1>5 DEF postWork, MapInv, MainPCs, Locking
  <2> QED
    BY <1>8, <2>1, <2>2, <2>3, <2>4, <2>5, <2>6 DEF Users
<1>9. CASE addLocked
  BY <1>9, <1>1, <1>2, <1>3, <1>4, <1>5 DEF addLocked, MapInv, MainPCs, Locking, io, calls
<1>10. CASE outOfWork
  BY <1>10, <1>1, <1>2, <1>3, <1>4, <1>5 DEF outOfWork, MapInv, MainPCs, Locking, calls
<1>11. CASE MainStep
  <2>1. CASE checkMain
    BY <2>1, <1>1, <1>2, <1>3, <1>4, <1>5 DEF checkMain, MapInv, MainPCs, Locking, io, calls
  <2>2. CASE clearLock
    BY <2>2, <1>1, <1>2, <1>3, <1>4, <1>5 DEF clearLock, MapInv, MainPCs, Locking, io, calls
  <2>3. CASE clearNext
    BY <2>3, <1>1, <1>2, <1>3, <1>4, <1>5 DEF clearNext, MapInv, MainPCs, Locking, io, calls
  <2>4. CASE clearJoined
    BY <2>4, <1>1, <1>2, <1>3, <1>4, <1>5 DEF clearJoined, Joined, MapInv, MainPCs, Locking, io, calls
  <2>5. CASE clearEnd
    BY <2>5, <1>1, <1>2, <1>3, <1>4, <1>5 DEF clearEnd, MapInv, MainPCs, Locking, io, calls
  <2> QED
    BY <1>11, <2>1, <2>2, <2>3, <2>4, <2>5 DEF MainStep
<1>12. ASSUME NEW t \in Pool, checkPool(t) PROVE MapInv'
  BY <1>12, <1>1, <1>2, <1>3, <1>4, <1>5 DEF checkPool, MapInv, MainPCs, Locking, io, calls
<1>13. ASSUME NEW t \in Threads, ThreadStep(t) PROVE MapInv'
  <2>1. CASE serveWork(t)
    BY <2>1, <1>1, <1>2, <1>3, <1>4, <1>5 DEF serveWork, Takes, MapInv, MainPCs, Locking, calls
  <2>2. CASE serveStop(t)
    BY <2>2, <1>1, <1>2, <1>3, <1>4, <1>5 DEF serveStop, Takes, MapInv, MainPCs, Locking, calls
  <2>3. CASE serveInject(t)
    BY <2>3, <1>1, <1>2, <1>3, <1>4, <1>5 DEF serveInject, Takes, MapInv, MainPCs, Locking, calls
  <2>4. CASE serveAdd(t)
    BY <2>4, <1>1, <1>2, <1>3, <1>4, <1>5 DEF serveAdd, Takes, MapInv, MainPCs, Locking, calls
  <2>5. CASE serveDestroy(t)
    BY <2>5, <1>1, <1>2, <1>3, <1>4, <1>5 DEF serveDestroy, Takes, MapInv, MainPCs, Locking, calls
  <2>6. CASE serveEnd(t)
    BY <2>6, <1>1, <1>2, <1>3, <1>4, <1>5 DEF serveEnd, AfterRegularExit, MapInv, MainPCs, Locking, io, calls
  <2>7. CASE removeSelf(t)
    BY <2>7, <1>1, <1>2, <1>3, <1>4, <1>5 DEF removeSelf, RepostRemoval, MapInv, MainPCs, Locking, calls
  <2>8. CASE addInHandler(t)
    BY <2>8, <1>1, <1>2, <1>3, <1>4, <1>5 DEF addInHandler, MapInv, MainPCs, Locking, io, calls
  <2>9. CASE asyncDestroyThread(t)
    BY <2>9, <1>1, <1>2, <1>3, <1>4, <1>5 DEF asyncDestroyThread, MapInv, MainPCs, Locking, io, calls
  <2>10. CASE destroyed(t)
    BY <2>10, <1>1, <1>2, <1>3, <1>4, <1>5 DEF destroyed, Joined, MapInv, MainPCs, Locking, io, calls
  <2> QED
    BY <1>13, <2>1, <2>2, <2>3, <2>4, <2>5, <2>6, <2>7, <2>8, <2>9, <2>10
    DEF ThreadStep, Serve
<1> QED
  BY <1>7, <1>8, <1>9, <1>10, <1>11, <1>12, <1>13 DEF Next

(* What posting and taking a function do to the destructions in the queue. *)
LEMMA OnlyEndedQueue ==
    ASSUME NEW q \in Seq(Jobs), NEW ended, OnlyEnded(q, ended)
    PROVE  /\ \A j \in Jobs : (j.do = "destroy" => j.of \in ended) =>
                  OnlyEnded(Append(q, j), ended)
           /\ q # <<>> => /\ OnlyEnded(Tail(q), ended)
                          /\ Head(q).do = "destroy" => Head(q).of \in ended
           /\ \A more : ended \subseteq more => OnlyEnded(q, more)
<1>1. ASSUME NEW j \in Jobs, j.do = "destroy" => j.of \in ended
      PROVE  OnlyEnded(Append(q, j), ended)
  <2>1. ASSUME NEW i \in 1..Len(Append(q, j)), Append(q, j)[i].do = "destroy"
        PROVE  Append(q, j)[i].of \in ended
    <3>1. CASE i \in 1..Len(q)
      BY <2>1, <3>1 DEF OnlyEnded
    <3>2. CASE i = Len(q) + 1
      BY <1>1, <2>1, <3>2
    <3> QED
      BY <3>1, <3>2
  <2> QED
    BY <2>1 DEF OnlyEnded
<1>2. ASSUME q # <<>> PROVE OnlyEnded(Tail(q), ended)
  <2>1. ASSUME NEW i \in 1..Len(Tail(q)), Tail(q)[i].do = "destroy"
        PROVE  Tail(q)[i].of \in ended
    <3>1. Tail(q)[i] = q[i + 1] /\ i + 1 \in 1..Len(q)
      BY <1>2
    <3> QED
      BY <2>1, <3>1 DEF OnlyEnded
  <2> QED
    BY <2>1 DEF OnlyEnded
<1>3. ASSUME q # <<>>, Head(q).do = "destroy" PROVE Head(q).of \in ended
  <2>1. Head(q) = q[1] /\ 1 \in 1..Len(q)
    BY <1>3
  <2> QED
    BY <2>1, <1>3 DEF OnlyEnded
<1>4. \A more : ended \subseteq more => OnlyEnded(q, more)
  BY DEF OnlyEnded
<1> QED
  BY <1>1, <1>2, <1>3, <1>4

(* Whoever is to be destroyed has ended.                                   *)
LEMMA DestroyStep == Inv /\ [Next]_vars => DestroyInv'
<1> SUFFICES ASSUME Inv, [Next]_vars PROVE DestroyInv'
  OBVIOUS
<1>1. /\ pc \in [Threads -> PoolPCs \cup MainPCs]
      /\ threadMap \subseteq Pool
      /\ Main \in Threads /\ Main \notin Pool
      /\ \A t \in Pool : t \in Threads /\ t # Main
      /\ \A t \in Threads : t = Main \/ t \in Pool
  BY ThreadsAssumption DEF Inv, TypeOK, Threads
<1>2. queue \in Seq(Jobs) /\ target \in [Threads -> Pool \cup {NoThread}]
  BY DEF Inv, TypeOK
<1>3. OnlyEnded(queue, Ended)
  BY DEF Inv, DestroyInv
<1>4. \A v \in Threads :
        pc[v] \in {"lockingDestroy", "joining"} =>
            target[v] \in Pool /\ pc[target[v]] = "done"
  BY DEF Inv, DestroyInv
<1>5. /\ \A u \in Pool : pc[u] = "done" => pc'[u] = "done"
      /\ Ended \subseteq Ended'
  BY Finality DEF EndsOnce, Ended
<1>6. /\ OnlyEnded(queue, Ended')
      /\ \A what \in {"inject", "add", "stop", "work"} :
            OnlyEnded(Append(queue, Job(what, NoThread)), Ended')
  <2>1. OnlyEnded(queue, Ended')
    BY <1>2, <1>3, <1>5, OnlyEndedQueue
  <2>2. ASSUME NEW what \in {"inject", "add", "stop", "work"}
        PROVE  OnlyEnded(Append(queue, Job(what, NoThread)), Ended')
    <3>1. Job(what, NoThread) \in Jobs /\ Job(what, NoThread).do # "destroy"
      BY JobTypes
    <3> QED
      BY <2>1, <3>1, <1>2, OnlyEndedQueue
  <2> QED
    BY <2>1, <2>2
<1>7. CASE UNCHANGED vars
  <2>1. UNCHANGED queue
    BY <1>7 DEF vars, io
  <2>2. OnlyEnded(queue', Ended')
    BY <2>1, <1>2, <1>3, <1>5, OnlyEndedQueue
  <2> QED
    BY <1>7, <2>2, <1>1, <1>4, <1>5 DEF DestroyInv, vars
<1>8. CASE Users
  <2>1. CASE \E guarded \in BOOLEAN : run(guarded)
    <3>1. UNCHANGED queue
      BY <2>1 DEF run, io
    <3>2. OnlyEnded(queue', Ended')
      BY <3>1, <1>2, <1>3, <1>5, OnlyEndedQueue
    <3> QED
      BY <2>1, <3>2, <1>1, <1>4, <1>5 DEF DestroyInv, run, io
  <2>2. CASE stop
    <3>1. UNCHANGED queue \/ queue' = Append(queue, Job("stop", NoThread))
      BY <2>2 DEF stop, StopNow
    <3>2. OnlyEnded(queue', Ended')
      BY <3>1, <1>6
    <3> QED
      BY <2>2, <3>2, <1>4 DEF DestroyInv, stop, StopNow
  <2>3. CASE addThread
    <3>1. UNCHANGED queue \/ queue' = Append(queue, Job("add", NoThread))
      BY <2>3 DEF addThread
    <3>2. OnlyEnded(queue', Ended')
      BY <3>1, <1>6
    <3> QED
      BY <2>3, <3>2, <1>4 DEF DestroyInv, addThread
  <2>4. CASE postAddingWork
    <3>1. queue' = Append(queue, Job("add", NoThread))
      BY <2>4 DEF postAddingWork
    <3>2. OnlyEnded(queue', Ended')
      BY <3>1, <1>6
    <3> QED
      BY <2>4, <3>2, <1>4 DEF DestroyInv, postAddingWork
  <2>5. CASE removeThread
    <3>1. queue' = Append(queue, Job("inject", NoThread))
      BY <2>5 DEF removeThread
    <3>2. OnlyEnded(queue', Ended')
      BY <3>1, <1>6
    <3> QED
      BY <2>5, <3>2, <1>4 DEF DestroyInv, removeThread
  <2>6. CASE postWork
    <3>1. queue' = Append(queue, Job("work", NoThread))
      BY <2>6 DEF postWork
    <3>2. OnlyEnded(queue', Ended')
      BY <3>1, <1>6
    <3> QED
      BY <2>6, <3>2, <1>4 DEF DestroyInv, postWork
  <2> QED
    BY <1>8, <2>1, <2>2, <2>3, <2>4, <2>5, <2>6 DEF Users
<1>9. CASE addLocked
  <2>1. UNCHANGED queue
    BY <1>9 DEF addLocked, io
  <2>2. OnlyEnded(queue', Ended')
    BY <2>1, <1>2, <1>3, <1>5, OnlyEndedQueue
  <2> QED
    BY <1>9, <2>2, <1>1, <1>4, <1>5 DEF DestroyInv, addLocked, io
<1>10. CASE outOfWork
  <2>1. UNCHANGED queue
    BY <1>10 DEF outOfWork, io
  <2>2. OnlyEnded(queue', Ended')
    BY <2>1, <1>2, <1>3, <1>5, OnlyEndedQueue
  <2> QED
    BY <1>10, <2>2, <1>1, <1>4, <1>5 DEF DestroyInv, outOfWork, io
<1>11. CASE MainStep
  <2>1. CASE checkMain
    <3>1. UNCHANGED queue
      BY <2>1 DEF checkMain, io
    <3>2. OnlyEnded(queue', Ended')
      BY <3>1, <1>2, <1>3, <1>5, OnlyEndedQueue
    <3> QED
      BY <2>1, <3>2, <1>1, <1>4, <1>5 DEF DestroyInv, checkMain, io
  <2>2. CASE clearLock
    <3>1. UNCHANGED queue
      BY <2>2 DEF clearLock, io
    <3>2. OnlyEnded(queue', Ended')
      BY <3>1, <1>2, <1>3, <1>5, OnlyEndedQueue
    <3> QED
      BY <2>2, <3>2, <1>1, <1>4, <1>5 DEF DestroyInv, clearLock, io
  <2>3. CASE clearNext
    <3>1. UNCHANGED queue
      BY <2>3 DEF clearNext, io
    <3>2. OnlyEnded(queue', Ended')
      BY <3>1, <1>2, <1>3, <1>5, OnlyEndedQueue
    <3> QED
      BY <2>3, <3>2, <1>1, <1>4, <1>5 DEF DestroyInv, clearNext, io
  <2>4. CASE clearJoined
    <3>1. UNCHANGED queue
      BY <2>4 DEF clearJoined, Joined, io
    <3>2. OnlyEnded(queue', Ended')
      BY <3>1, <1>2, <1>3, <1>5, OnlyEndedQueue
    <3> QED
      BY <2>4, <3>2, <1>1, <1>4, <1>5 DEF DestroyInv, clearJoined, Joined, io
  <2>5. CASE clearEnd
    <3>1. UNCHANGED queue
      BY <2>5 DEF clearEnd, io
    <3>2. OnlyEnded(queue', Ended')
      BY <3>1, <1>2, <1>3, <1>5, OnlyEndedQueue
    <3> QED
      BY <2>5, <3>2, <1>1, <1>4, <1>5 DEF DestroyInv, clearEnd, io
  <2> QED
    BY <1>11, <2>1, <2>2, <2>3, <2>4, <2>5 DEF MainStep
<1>12. ASSUME NEW t \in Pool, checkPool(t) PROVE DestroyInv'
  <2>1. UNCHANGED queue
    BY <1>12 DEF checkPool, io
  <2>2. OnlyEnded(queue', Ended')
    BY <2>1, <1>2, <1>3, <1>5, OnlyEndedQueue
  <2> QED
    BY <1>12, <2>2, <1>1, <1>4, <1>5 DEF DestroyInv, checkPool, io
<1>13. ASSUME NEW t \in Threads, ThreadStep(t) PROVE DestroyInv'
  <2>1. CASE serveWork(t)
    <3>1. queue' = Tail(queue) /\ queue # <<>>
      BY <2>1 DEF serveWork, Takes
    <3>2. OnlyEnded(queue', Ended')
      BY <3>1, <1>2, <1>3, <1>5, OnlyEndedQueue, QueueTypes
    <3> QED
      BY <2>1, <3>2, <1>1, <1>2, <1>4, <1>5 DEF DestroyInv, serveWork, Takes
  <2>2. CASE serveStop(t)
    <3>1. /\ queue' = Tail(queue) \/ queue' = Append(Tail(queue), Head(queue))
          /\ queue # <<>> /\ Head(queue).do = "stop"
      BY <2>2 DEF serveStop, Takes
    <3>2. OnlyEnded(Tail(queue), Ended')
      BY <3>1, <1>2, <1>3, <1>5, OnlyEndedQueue, QueueTypes
    <3>3. OnlyEnded(queue', Ended')
      <4>1. Head(queue) \in Jobs /\ Tail(queue) \in Seq(Jobs)
        BY <3>1, <1>2, QueueTypes
      <4>2. OnlyEnded(Append(Tail(queue), Head(queue)), Ended')
        BY <3>1, <3>2, <4>1, OnlyEndedQueue
      <4> QED
        BY <3>1, <3>2, <4>2
    <3> QED
      BY <2>2, <3>3, <1>4 DEF DestroyInv, serveStop
  <2>3. CASE serveInject(t)
    <3>1. queue' = Tail(queue) /\ queue # <<>>
      BY <2>3 DEF serveInject, Takes
    <3>2. OnlyEnded(queue', Ended')
      BY <3>1, <1>2, <1>3, <1>5, OnlyEndedQueue, QueueTypes
    <3> QED
      BY <2>3, <3>2, <1>1, <1>2, <1>4, <1>5 DEF DestroyInv, serveInject, Takes
  <2>4. CASE serveAdd(t)
    <3>1. queue' = Tail(queue) /\ queue # <<>>
      BY <2>4 DEF serveAdd, Takes
    <3>2. OnlyEnded(queue', Ended')
      BY <3>1, <1>2, <1>3, <1>5, OnlyEndedQueue, QueueTypes
    <3> QED
      BY <2>4, <3>2, <1>1, <1>2, <1>4, <1>5 DEF DestroyInv, serveAdd, Takes
  <2>5. CASE serveDestroy(t)
    <3>1. queue' = Tail(queue) /\ queue # <<>> /\ Head(queue).do = "destroy"
      BY <2>5 DEF serveDestroy, Takes
    <3>2. OnlyEnded(queue', Ended')
      BY <3>1, <1>2, <1>3, <1>5, OnlyEndedQueue, QueueTypes
    <3>3. Head(queue).of \in Ended
      BY <3>1, <1>2, <1>3, OnlyEndedQueue
    <3> QED
      BY <2>5, <3>2, <3>3, <1>1, <1>2, <1>4, <1>5 DEF DestroyInv, Ended, serveDestroy, Takes
  <2>6. CASE serveEnd(t)
    <3>1. UNCHANGED queue
      BY <2>6 DEF serveEnd, AfterRegularExit, io
    <3>2. OnlyEnded(queue', Ended')
      BY <3>1, <1>2, <1>3, <1>5, OnlyEndedQueue
    <3> QED
      BY <2>6, <3>2, <1>1, <1>4, <1>5 DEF DestroyInv, serveEnd, AfterRegularExit, io
  <2>7. CASE removeSelf(t)
    <3>1. CASE t \in threadMap
      <4>1. queue' = Append(queue, Job("destroy", t)) /\ t \in Pool
        BY <2>7, <3>1, <1>1 DEF removeSelf, RepostRemoval
      <4>2. t \in Ended'
        BY <2>7, <3>1, <1>1 DEF removeSelf, Ended
      <4>3. OnlyEnded(queue, Ended')
        BY <1>2, <1>3, <1>5, OnlyEndedQueue
      <4>4. OnlyEnded(queue', Ended')
        BY <4>1, <4>2, <4>3, <1>2, OnlyEndedQueue, JobTypes
      <4> QED
        BY <2>7, <4>4, <1>1, <1>4, <1>5 DEF DestroyInv, removeSelf
    <3>2. CASE t \notin threadMap
      <4>1. UNCHANGED queue \/ queue' = Append(queue, Job("inject", NoThread))
        BY <2>7, <3>2 DEF removeSelf, RepostRemoval
      <4>2. OnlyEnded(queue', Ended')
        BY <4>1, <1>6
      <4> QED
        BY <2>7, <4>2, <1>1, <1>4, <1>5 DEF DestroyInv, removeSelf
    <3> QED
      BY <3>1, <3>2
  <2>8. CASE addInHandler(t)
    <3>1. UNCHANGED queue
      BY <2>8 DEF addInHandler, io
    <3>2. OnlyEnded(queue', Ended')
      BY <3>1, <1>2, <1>3, <1>5, OnlyEndedQueue
    <3> QED
      BY <2>8, <3>2, <1>1, <1>4, <1>5 DEF DestroyInv, addInHandler, io
  <2>9. CASE asyncDestroyThread(t)
    <3>1. UNCHANGED queue
      BY <2>9 DEF asyncDestroyThread, io
    <3>2. OnlyEnded(queue', Ended')
      BY <3>1, <1>2, <1>3, <1>5, OnlyEndedQueue
    <3> QED
      BY <2>9, <3>2, <1>1, <1>4, <1>5 DEF DestroyInv, asyncDestroyThread, io
  <2>10. CASE destroyed(t)
    <3>1. UNCHANGED queue
      BY <2>10 DEF destroyed, Joined, io
    <3>2. OnlyEnded(queue', Ended')
      BY <3>1, <1>2, <1>3, <1>5, OnlyEndedQueue
    <3> QED
      BY <2>10, <3>2, <1>1, <1>4, <1>5 DEF DestroyInv, destroyed, Joined, io
  <2> QED
    BY <1>13, <2>1, <2>2, <2>3, <2>4, <2>5, <2>6, <2>7, <2>8, <2>9, <2>10
    DEF ThreadStep, Serve
<1> QED
  BY <1>7, <1>8, <1>9, <1>10, <1>11, <1>12, <1>13 DEF Next

(* Before the first run() there are no threads, and during it nobody but   *)
(* removeThread() makes one end before the io_context stops.               *)
LEMMA FirstRunStep == Inv /\ [Next]_vars => FirstRunInv'
<1> SUFFICES ASSUME Inv, [Next]_vars PROVE FirstRunInv'
  OBVIOUS
<1>1. /\ pc \in [Threads -> PoolPCs \cup MainPCs]
      /\ threadMap \subseteq Pool
      /\ Main \in Threads /\ Main \notin Pool
      /\ \A t \in Pool : t \in Threads /\ t # Main
      /\ \A t \in Threads : t = Main \/ t \in Pool
  BY ThreadsAssumption DEF Inv, TypeOK, Threads
<1>2. /\ target \in [Threads -> Pool \cup {NoThread}]
      /\ stopRequested \in [Pool -> BOOLEAN]
      /\ running \in BOOLEAN /\ stopped \in BOOLEAN
      /\ runs \in Nat /\ adding \in Nat
  BY BoundsAssumption DEF Inv, TypeOK
<1>3. pc[Main] \in MainPCs
  BY DEF Inv, PCInv
<1>4. FirstRunInv
  BY DEF Inv
<1>5. \A v \in Threads :
        pc[v] \in {"lockingDestroy", "joining"} =>
            target[v] \in Pool /\ pc[target[v]] = "done"
  BY DEF Inv, DestroyInv
<1>6. \A u \in Pool : pc[u] = "done" => pc'[u] = "done"
  BY Finality DEF EndsOnce
<1>7. CASE UNCHANGED vars
  BY <1>7, <1>1, <1>2, <1>3, <1>4, <1>5, <1>6 DEF FirstRunInv, MainPCs, Locking, vars, io, calls
<1>8. CASE Users
  <2>1. CASE \E guarded \in BOOLEAN : run(guarded)
    BY <2>1, <1>1, <1>2, <1>3, <1>4, <1>5, <1>6 DEF run, FirstRunInv, MainPCs, Locking
  <2>2. CASE stop
    BY <2>2, <1>1, <1>2, <1>3, <1>4, <1>5, <1>6 DEF stop, StopNow, FirstRunInv, MainPCs, Locking
  <2>3. CASE addThread
    BY <2>3, <1>1, <1>2, <1>3, <1>4, <1>5, <1>6 DEF addThread, FirstRunInv, MainPCs, Locking
  <2>4. CASE postAddingWork
    BY <2>4, <1>1, <1>2, <1>3, <1>4, <1>5, <1>6 DEF postAddingWork, FirstRunInv, MainPCs, Locking
  <2>5. CASE removeThread
    BY <2>5, <1>1, <1>2, <1>3, <1>4, <1>5, <1>6 DEF removeThread, FirstRunInv, MainPCs, Locking
  <2>6. CASE postWork
    BY <2>6, <1>1, <1>2, <1>3, <1>4, <1>5, <1>6 DEF postWork, FirstRunInv, MainPCs, Locking
  <2> QED
    BY <1>8, <2>1, <2>2, <2>3, <2>4, <2>5, <2>6 DEF Users
<1>9. CASE addLocked
  BY <1>9, <1>1, <1>2, <1>3, <1>4, <1>5, <1>6 DEF addLocked, FirstRunInv, MainPCs, Locking, io, calls
<1>10. CASE outOfWork
  BY <1>10, <1>1, <1>2, <1>3, <1>4, <1>5, <1>6 DEF outOfWork, FirstRunInv, MainPCs, Locking, calls
<1>11. CASE MainStep
  <2>1. CASE checkMain
    BY <2>1, <1>1, <1>2, <1>3, <1>4, <1>5, <1>6 DEF checkMain, FirstRunInv, MainPCs, Locking, io, calls
  <2>2. CASE clearLock
    BY <2>2, <1>1, <1>2, <1>3, <1>4, <1>5, <1>6 DEF clearLock, FirstRunInv, MainPCs, Locking, io, calls
  <2>3. CASE clearNext
    BY <2>3, <1>1, <1>2, <1>3, <1>4, <1>5, <1>6 DEF clearNext, FirstRunInv, MainPCs, Locking, io, calls
  <2>4. CASE clearJoined
    BY <2>4, <1>1, <1>2, <1>3, <1>4, <1>5, <1>6 DEF clearJoined, Joined, FirstRunInv, MainPCs, Locking, io, calls
  <2>5. CASE clearEnd
    BY <2>5, <1>1, <1>2, <1>3, <1>4, <1>5, <1>6 DEF clearEnd, FirstRunInv, MainPCs, Locking, io, calls
  <2> QED
    BY <1>11, <2>1, <2>2, <2>3, <2>4, <2>5 DEF MainStep
<1>12. ASSUME NEW t \in Pool, checkPool(t) PROVE FirstRunInv'
  BY <1>12, <1>1, <1>2, <1>3, <1>4, <1>5, <1>6 DEF checkPool, FirstRunInv, MainPCs, Locking, io, calls
<1>13. ASSUME NEW t \in Threads, ThreadStep(t) PROVE FirstRunInv'
  <2>1. CASE serveWork(t)
    BY <2>1, <1>1, <1>2, <1>3, <1>4, <1>5, <1>6 DEF serveWork, Takes, FirstRunInv, MainPCs, Locking, calls
  <2>2. CASE serveStop(t)
    BY <2>2, <1>1, <1>2, <1>3, <1>4, <1>5, <1>6 DEF serveStop, Takes, FirstRunInv, MainPCs, Locking, calls
  <2>3. CASE serveInject(t)
    BY <2>3, <1>1, <1>2, <1>3, <1>4, <1>5, <1>6 DEF serveInject, Takes, FirstRunInv, MainPCs, Locking, calls
  <2>4. CASE serveAdd(t)
    BY <2>4, <1>1, <1>2, <1>3, <1>4, <1>5, <1>6 DEF serveAdd, Takes, FirstRunInv, MainPCs, Locking, calls
  <2>5. CASE serveDestroy(t)
    BY <2>5, <1>1, <1>2, <1>3, <1>4, <1>5, <1>6 DEF serveDestroy, Takes, FirstRunInv, MainPCs, Locking, calls
  <2>6. CASE serveEnd(t)
    BY <2>6, <1>1, <1>2, <1>3, <1>4, <1>5, <1>6 DEF serveEnd, AfterRegularExit, FirstRunInv, MainPCs, Locking, io, calls
  <2>7. CASE removeSelf(t)
    BY <2>7, <1>1, <1>2, <1>3, <1>4, <1>5, <1>6 DEF removeSelf, RepostRemoval, FirstRunInv, MainPCs, Locking, calls
  <2>8. CASE addInHandler(t)
    BY <2>8, <1>1, <1>2, <1>3, <1>4, <1>5, <1>6 DEF addInHandler, FirstRunInv, MainPCs, Locking, io, calls
  <2>9. CASE asyncDestroyThread(t)
    BY <2>9, <1>1, <1>2, <1>3, <1>4, <1>5, <1>6 DEF asyncDestroyThread, FirstRunInv, MainPCs, Locking, io, calls
  <2>10. CASE destroyed(t)
    BY <2>10, <1>1, <1>2, <1>3, <1>4, <1>5, <1>6 DEF destroyed, Joined, FirstRunInv, MainPCs, Locking, io, calls
  <2> QED
    BY <1>13, <2>1, <2>2, <2>3, <2>4, <2>5, <2>6, <2>7, <2>8, <2>9, <2>10
    DEF ThreadStep, Serve
<1> QED
  BY <1>7, <1>8, <1>9, <1>10, <1>11, <1>12, <1>13 DEF Next

(* What posting and taking a function do to the number of exceptions that  *)
(* wait in the queue.                                                      *)
LEMMA CountQueue ==
    ASSUME NEW q \in Seq(Jobs)
    PROVE  /\ IsFiniteSet(Injects(q))
           /\ Cardinality(Injects(q)) \in Nat
           /\ \A j \in Jobs :
                 Cardinality(Injects(Append(q, j))) =
                     Cardinality(Injects(q)) + (IF j.do = "inject" THEN 1 ELSE 0)
           /\ q # <<>> =>
                 Cardinality(Injects(Tail(q))) <=
                     Cardinality(Injects(q)) - (IF Head(q).do = "inject" THEN 1 ELSE 0)
<1>1. ASSUME NEW p \in Seq(Jobs)
      PROVE  IsFiniteSet(Injects(p)) /\ Cardinality(Injects(p)) \in Nat
  <2>1. IsFiniteSet(1..Len(p))
    BY FS_Interval
  <2>2. IsFiniteSet(Injects(p))
    BY <2>1, FS_Subset DEF Injects
  <2> QED
    BY <2>2, FS_CardinalityType
<1>2. ASSUME NEW j \in Jobs
      PROVE  Cardinality(Injects(Append(q, j))) =
                 Cardinality(Injects(q)) + (IF j.do = "inject" THEN 1 ELSE 0)
  <2>1. CASE j.do = "inject"
    <3>1. Injects(Append(q, j)) = Injects(q) \cup {Len(q) + 1}
      BY <2>1 DEF Injects
    <3>2. Len(q) + 1 \notin Injects(q)
      BY DEF Injects
    <3> QED
      BY <2>1, <3>1, <3>2, <1>1, FS_AddElement
  <2>2. CASE j.do # "inject"
    <3>1. Injects(Append(q, j)) = Injects(q)
      BY <2>2 DEF Injects
    <3> QED
      BY <2>2, <3>1, <1>1
  <2> QED
    BY <2>1, <2>2
<1>3. ASSUME q # <<>>
      PROVE  Cardinality(Injects(Tail(q))) <=
                 Cardinality(Injects(q)) - (IF Head(q).do = "inject" THEN 1 ELSE 0)
  <2>1. Tail(q) \in Seq(Jobs) /\ Len(q) \in Nat /\ Len(Tail(q)) = Len(q) - 1
    BY <1>3
  <2>2. \A i \in Injects(Tail(q)) : i + 1 \in Injects(q) \ {1} /\ i \in Nat
    <3>1. ASSUME NEW i \in Injects(Tail(q))
          PROVE  i + 1 \in Injects(q) \ {1} /\ i \in Nat
      <4>1. i \in 1..(Len(q) - 1) /\ Tail(q)[i].do = "inject"
        BY <2>1 DEF Injects
      <4>2. Tail(q)[i] = q[i + 1]
        BY <4>1, <2>1, <1>3
      <4> QED
        BY <4>1, <4>2, <2>1 DEF Injects
    <3> QED
      BY <3>1
  <2> DEFINE f == [i \in Injects(Tail(q)) |-> i + 1]
  <2>3. f \in Injection(Injects(Tail(q)), Injects(q) \ {1})
    BY <2>2 DEF Injection, IsInjective
  <2>4. /\ IsFiniteSet(Injects(q) \ {1})
        /\ Cardinality(Injects(q) \ {1}) =
              IF 1 \in Injects(q) THEN Cardinality(Injects(q)) - 1
                                  ELSE Cardinality(Injects(q))
    BY <1>1, FS_RemoveElement
  <2>5. Cardinality(Injects(Tail(q))) <= Cardinality(Injects(q) \ {1})
    BY <2>3, <2>4, FS_Injection
  <2>6. 1 \in Injects(q) <=> Head(q).do = "inject"
    BY <1>3, <2>1 DEF Injects
  <2> QED
    BY <2>4, <2>5, <2>6, <1>1, <2>1
<1> QED
  BY <1>1, <1>2, <1>3

(* The same for the functions that the event loop posts.                   *)
LEMMA CountPosted ==
    ASSUME NEW q \in Seq(Jobs)
    PROVE  /\ \A what \in {"add", "stop", "work"} :
                 Cardinality(Injects(Append(q, Job(what, NoThread)))) =
                     Cardinality(Injects(q))
           /\ \A u \in Pool :
                 Cardinality(Injects(Append(q, Job("destroy", u)))) =
                     Cardinality(Injects(q))
           /\ Cardinality(Injects(Append(q, Job("inject", NoThread)))) =
                 Cardinality(Injects(q)) + 1
           /\ q # <<>> =>
                 /\ Cardinality(Injects(Tail(q))) \in Nat
                 /\ Cardinality(Injects(Tail(q))) <= Cardinality(Injects(q))
                 /\ Head(q).do = "inject" =>
                       Cardinality(Injects(Tail(q))) <= Cardinality(Injects(q)) - 1
           /\ q # <<>> /\ Head(q).do # "inject" =>
                 Cardinality(Injects(Append(Tail(q), Head(q)))) =
                     Cardinality(Injects(Tail(q)))
<1>1. Cardinality(Injects(q)) \in Nat
  BY CountQueue
<1>2. ASSUME NEW what \in {"add", "stop", "work"}
      PROVE  Cardinality(Injects(Append(q, Job(what, NoThread)))) =
                 Cardinality(Injects(q))
  <2>1. Job(what, NoThread) \in Jobs /\ Job(what, NoThread).do # "inject"
    BY JobTypes
  <2> QED
    BY <1>1, <2>1, CountQueue
<1>3. ASSUME NEW u \in Pool
      PROVE  Cardinality(Injects(Append(q, Job("destroy", u)))) =
                 Cardinality(Injects(q))
  <2>1. Job("destroy", u) \in Jobs /\ Job("destroy", u).do # "inject"
    BY JobTypes
  <2> QED
    BY <1>1, <2>1, CountQueue
<1>4. Cardinality(Injects(Append(q, Job("inject", NoThread)))) =
        Cardinality(Injects(q)) + 1
  <2>1. Job("inject", NoThread) \in Jobs /\ Job("inject", NoThread).do = "inject"
    BY JobTypes
  <2> QED
    BY <1>1, <2>1, CountQueue
<1>5. ASSUME q # <<>>
      PROVE  /\ Cardinality(Injects(Tail(q))) \in Nat
             /\ Cardinality(Injects(Tail(q))) <= Cardinality(Injects(q))
             /\ Head(q).do = "inject" =>
                   Cardinality(Injects(Tail(q))) <= Cardinality(Injects(q)) - 1
  <2>1. Tail(q) \in Seq(Jobs)
    BY <1>5, QueueTypes
  <2>2. Cardinality(Injects(Tail(q))) \in Nat
    BY <2>1, CountQueue
  <2>3. Cardinality(Injects(Tail(q))) <=
          Cardinality(Injects(q)) - (IF Head(q).do = "inject" THEN 1 ELSE 0)
    BY <1>5, CountQueue
  <2> QED
    BY <1>1, <2>2, <2>3
<1>6. ASSUME q # <<>>, Head(q).do # "inject"
      PROVE  Cardinality(Injects(Append(Tail(q), Head(q)))) =
                 Cardinality(Injects(Tail(q)))
  <2>1. Tail(q) \in Seq(Jobs) /\ Head(q) \in Jobs
    BY <1>6, QueueTypes
  <2>2. Cardinality(Injects(Tail(q))) \in Nat
    BY <2>1, CountQueue
  <2> QED
    <3>1. Cardinality(Injects(Append(Tail(q), Head(q)))) =
            Cardinality(Injects(Tail(q))) +
                (IF Head(q).do = "inject" THEN 1 ELSE 0)
      BY <2>1, CountQueue
    <3> QED
      BY <1>6, <2>2, <3>1
<1> QED
  BY <1>2, <1>3, <1>4, <1>5, <1>6

(* No step ends a thread, or has an exception on its way, unasked.         *)
LEMMA CountStep == Inv /\ [Next]_vars => CountInv'
<1> SUFFICES ASSUME Inv, [Next]_vars PROVE CountInv'
  OBVIOUS
<1>1. /\ pc \in [Threads -> PoolPCs \cup MainPCs]
      /\ threadMap \subseteq Pool
      /\ Main \in Threads /\ Main \notin Pool
      /\ \A t \in Pool : t \in Threads /\ t # Main
      /\ \A t \in Threads : t = Main \/ t \in Pool
  BY ThreadsAssumption DEF Inv, TypeOK, Threads
<1>2. queue \in Seq(Jobs) /\ runs \in Nat /\ removes \in Nat
  BY BoundsAssumption DEF Inv, TypeOK
<1>3. /\ IsFiniteSet(Leaving) /\ Cardinality(Leaving) \in Nat
      /\ Cardinality(Injects(queue)) \in Nat
  <2>1. IsFiniteSet(Threads)
    BY ThreadsAssumption, FS_AddElement DEF Threads
  <2>2. IsFiniteSet(Leaving)
    BY <2>1, FS_Subset DEF Leaving
  <2> QED
    BY <1>2, <2>2, FS_CardinalityType, CountQueue
<1>4. FirstRunInv
  BY DEF Inv
<1>5. runs <= 1 /\ ~stopped =>
        Cardinality(Leaving) + Cardinality(Injects(queue)) <= removes
  BY DEF Inv, CountInv
<1>6. ASSUME runs' <= 1 /\ ~stopped' => runs <= 1 /\ ~stopped,
             Leaving' = Leaving,
             Cardinality(Injects(queue')) \in Nat,
             Cardinality(Injects(queue')) <= Cardinality(Injects(queue)),
             removes' = removes
      PROVE  CountInv'
  BY <1>2, <1>3, <1>5, <1>6 DEF CountInv
<1>7. CASE UNCHANGED vars
  <2>1. runs' <= 1 /\ ~stopped' => runs <= 1 /\ ~stopped
    BY <1>7, <1>2, <1>4 DEF FirstRunInv, vars, io, calls
  <2>2. Leaving' = Leaving
    BY <1>7, <1>1 DEF Leaving, vars, io, calls
  <2>3. UNCHANGED <<queue, removes>>
    BY <1>7 DEF vars, io, calls
  <2> QED
    BY <2>1, <2>2, <2>3, <1>3, <1>6
<1>8. CASE Users
  <2>1. CASE \E guarded \in BOOLEAN : run(guarded)
    <3>1. runs' <= 1 /\ ~stopped' => runs <= 1 /\ ~stopped
      BY <2>1, <1>2, <1>4 DEF FirstRunInv, run, io, calls
    <3>2. Leaving' = Leaving
      BY <2>1, <1>1 DEF Leaving, run, io, calls
    <3>3. UNCHANGED <<queue, removes>>
      BY <2>1 DEF run, io, calls
    <3> QED
      BY <3>1, <3>2, <3>3, <1>3, <1>6
  <2>2. CASE stop
    <3>1. runs' <= 1 /\ ~stopped' => runs <= 1 /\ ~stopped
      BY <2>2, <1>2, <1>4 DEF FirstRunInv, stop, StopNow, io, calls
    <3>2. Leaving' = Leaving
      BY <2>2, <1>1 DEF Leaving, stop, StopNow, io, calls
    <3>3. removes' = removes
      BY <2>2 DEF stop, StopNow, io, calls
    <3>4. UNCHANGED queue \/ queue' = Append(queue, Job("stop", NoThread))
      BY <2>2 DEF stop, StopNow, io, calls
    <3>5. Cardinality(Injects(queue')) = Cardinality(Injects(queue))
      BY <3>4, <1>2, CountPosted
    <3> QED
      BY <3>1, <3>2, <3>3, <3>5, <1>3, <1>6
  <2>3. CASE addThread
    <3>1. runs' <= 1 /\ ~stopped' => runs <= 1 /\ ~stopped
      BY <2>3, <1>2, <1>4 DEF FirstRunInv, addThread, io, calls
    <3>2. Leaving' = Leaving
      BY <2>3, <1>1 DEF Leaving, addThread, io, calls
    <3>3. removes' = removes
      BY <2>3 DEF addThread, io, calls
    <3>4. UNCHANGED queue \/ queue' = Append(queue, Job("add", NoThread))
      BY <2>3 DEF addThread, io, calls
    <3>5. Cardinality(Injects(queue')) = Cardinality(Injects(queue))
      BY <3>4, <1>2, CountPosted
    <3> QED
      BY <3>1, <3>2, <3>3, <3>5, <1>3, <1>6
  <2>4. CASE postAddingWork
    <3>1. runs' <= 1 /\ ~stopped' => runs <= 1 /\ ~stopped
      BY <2>4, <1>2, <1>4 DEF FirstRunInv, postAddingWork, io, calls
    <3>2. Leaving' = Leaving
      BY <2>4, <1>1 DEF Leaving, postAddingWork, io, calls
    <3>3. removes' = removes
      BY <2>4 DEF postAddingWork, io, calls
    <3>4. UNCHANGED queue \/ queue' = Append(queue, Job("add", NoThread))
      BY <2>4 DEF postAddingWork, io, calls
    <3>5. Cardinality(Injects(queue')) = Cardinality(Injects(queue))
      BY <3>4, <1>2, CountPosted
    <3> QED
      BY <3>1, <3>2, <3>3, <3>5, <1>3, <1>6
  <2>5. CASE removeThread
    <3>1. /\ queue' = Append(queue, Job("inject", NoThread))
          /\ removes' = removes + 1
          /\ UNCHANGED <<runs, stopped, pc>>
      BY <2>5 DEF removeThread
    <3>2. Leaving' = Leaving
      BY <3>1 DEF Leaving
    <3>3. Cardinality(Injects(queue')) = Cardinality(Injects(queue)) + 1
      BY <3>1, <1>2, CountPosted
    <3> QED
      BY <3>1, <3>2, <3>3, <1>2, <1>3, <1>5 DEF CountInv
  <2>6. CASE postWork
    <3>1. runs' <= 1 /\ ~stopped' => runs <= 1 /\ ~stopped
      BY <2>6, <1>2, <1>4 DEF FirstRunInv, postWork, io, calls
    <3>2. Leaving' = Leaving
      BY <2>6, <1>1 DEF Leaving, postWork, io, calls
    <3>3. removes' = removes
      BY <2>6 DEF postWork, io, calls
    <3>4. UNCHANGED queue \/ queue' = Append(queue, Job("work", NoThread))
      BY <2>6 DEF postWork, io, calls
    <3>5. Cardinality(Injects(queue')) = Cardinality(Injects(queue))
      BY <3>4, <1>2, CountPosted
    <3> QED
      BY <3>1, <3>2, <3>3, <3>5, <1>3, <1>6
  <2> QED
    BY <1>8, <2>1, <2>2, <2>3, <2>4, <2>5, <2>6 DEF Users
<1>9. CASE addLocked
  <2>1. runs' <= 1 /\ ~stopped' => runs <= 1 /\ ~stopped
    BY <1>9, <1>2, <1>4 DEF FirstRunInv, addLocked, io, calls
  <2>2. Leaving' = Leaving
    BY <1>9, <1>1 DEF Leaving, addLocked, io, calls
  <2>3. UNCHANGED <<queue, removes>>
    BY <1>9 DEF addLocked, io, calls
  <2> QED
    BY <2>1, <2>2, <2>3, <1>3, <1>6
<1>10. CASE outOfWork
  BY <1>10 DEF CountInv, outOfWork
<1>11. CASE MainStep
  <2>1. CASE checkMain
    <3>1. runs' <= 1 /\ ~stopped' => runs <= 1 /\ ~stopped
      BY <2>1, <1>2, <1>4 DEF FirstRunInv, checkMain, io, calls
    <3>2. Leaving' = Leaving
      BY <2>1, <1>1 DEF Leaving, checkMain, io, calls
    <3>3. UNCHANGED <<queue, removes>>
      BY <2>1 DEF checkMain, io, calls
    <3> QED
      BY <3>1, <3>2, <3>3, <1>3, <1>6
  <2>2. CASE clearLock
    <3>1. runs' <= 1 /\ ~stopped' => runs <= 1 /\ ~stopped
      BY <2>2, <1>2, <1>4 DEF FirstRunInv, clearLock, io, calls
    <3>2. Leaving' = Leaving
      BY <2>2, <1>1 DEF Leaving, clearLock, io, calls
    <3>3. UNCHANGED <<queue, removes>>
      BY <2>2 DEF clearLock, io, calls
    <3> QED
      BY <3>1, <3>2, <3>3, <1>3, <1>6
  <2>3. CASE clearNext
    <3>1. runs' <= 1 /\ ~stopped' => runs <= 1 /\ ~stopped
      BY <2>3, <1>2, <1>4 DEF FirstRunInv, clearNext, io, calls
    <3>2. Leaving' = Leaving
      BY <2>3, <1>1 DEF Leaving, clearNext, io, calls
    <3>3. UNCHANGED <<queue, removes>>
      BY <2>3 DEF clearNext, io, calls
    <3> QED
      BY <3>1, <3>2, <3>3, <1>3, <1>6
  <2>4. CASE clearJoined
    <3>1. runs' <= 1 /\ ~stopped' => runs <= 1 /\ ~stopped
      BY <2>4, <1>2, <1>4 DEF FirstRunInv, clearJoined, Joined, io, calls
    <3>2. Leaving' = Leaving
      BY <2>4, <1>1 DEF Leaving, clearJoined, Joined, io, calls
    <3>3. UNCHANGED <<queue, removes>>
      BY <2>4 DEF clearJoined, Joined, io, calls
    <3> QED
      BY <3>1, <3>2, <3>3, <1>3, <1>6
  <2>5. CASE clearEnd
    <3>1. runs' <= 1 /\ ~stopped' => runs <= 1 /\ ~stopped
      BY <2>5, <1>2, <1>4 DEF FirstRunInv, clearEnd, io, calls
    <3>2. Leaving' = Leaving
      BY <2>5, <1>1 DEF Leaving, clearEnd, io, calls
    <3>3. UNCHANGED <<queue, removes>>
      BY <2>5 DEF clearEnd, io, calls
    <3> QED
      BY <3>1, <3>2, <3>3, <1>3, <1>6
  <2> QED
    BY <1>11, <2>1, <2>2, <2>3, <2>4, <2>5 DEF MainStep
<1>12. ASSUME NEW t \in Pool, checkPool(t) PROVE CountInv'
  <2>1. CASE ~stopped /\ runs <= 1
    <3>1. ~stopRequested[t]
      BY <1>12, <2>1, <1>4 DEF FirstRunInv, checkPool
    <3>2. Leaving' = Leaving
      BY <1>12, <3>1, <1>1 DEF Leaving, checkPool
    <3>3. UNCHANGED <<queue, removes, runs, stopped>>
      BY <1>12 DEF checkPool, io, calls
    <3> QED
      BY <3>2, <3>3, <1>3, <1>6
  <2>2. CASE ~(~stopped /\ runs <= 1)
    BY <1>12, <2>2 DEF CountInv, checkPool, io, calls
  <2> QED
    BY <2>1, <2>2
<1>13. ASSUME NEW t \in Threads, ThreadStep(t) PROVE CountInv'
  <2>1. CASE serveWork(t)
    <3>1. runs' <= 1 /\ ~stopped' => runs <= 1 /\ ~stopped
      BY <2>1, <1>2, <1>4 DEF FirstRunInv, serveWork, Takes, io, calls
    <3>2. Leaving' = Leaving
      BY <2>1, <1>1 DEF Leaving, serveWork, Takes, io, calls
    <3>3. removes' = removes /\ queue' = Tail(queue) /\ queue # <<>>
      BY <2>1 DEF serveWork, Takes, io, calls
    <3>4. /\ Cardinality(Injects(queue')) \in Nat
          /\ Cardinality(Injects(queue')) <= Cardinality(Injects(queue))
      BY <3>3, <1>2, CountPosted
    <3> QED
      BY <3>1, <3>2, <3>3, <3>4, <1>6
  <2>2. CASE serveStop(t)
    <3>1. runs' <= 1 /\ ~stopped' => runs <= 1 /\ ~stopped
      BY <2>2, <1>2, <1>4 DEF FirstRunInv, serveStop, Takes, calls
    <3>2. Leaving' = Leaving
      BY <2>2, <1>1 DEF Leaving, serveStop, Takes, calls
    <3>3. removes' = removes /\ queue # <<>> /\ Head(queue).do = "stop"
      BY <2>2 DEF serveStop, Takes, calls
    <3>4. queue' = Tail(queue) \/ queue' = Append(Tail(queue), Head(queue))
      BY <2>2 DEF serveStop
    <3>5. Head(queue) \in Jobs /\ Tail(queue) \in Seq(Jobs)
      BY <3>3, <1>2, QueueTypes
    <3>6. /\ Cardinality(Injects(Tail(queue))) \in Nat
          /\ Cardinality(Injects(Tail(queue))) <= Cardinality(Injects(queue))
      BY <3>3, <1>2, CountPosted
    <3>7. Cardinality(Injects(queue')) = Cardinality(Injects(Tail(queue)))
      BY <3>3, <3>4, <1>2, CountPosted
    <3> QED
      BY <3>1, <3>2, <3>3, <3>6, <3>7, <1>6
  <2>3. CASE serveInject(t)
    <3>1. /\ queue' = Tail(queue) /\ queue # <<>> /\ Head(queue).do = "inject"
          /\ pc[t] = "serving" /\ pc' = [pc EXCEPT ![t] = "lockingRemove"]
          /\ UNCHANGED <<runs, stopped, removes>>
      BY <2>3 DEF serveInject, Takes, calls
    <3>2. Leaving' = Leaving \cup {t} /\ t \notin Leaving
      BY <3>1, <1>1 DEF Leaving
    <3>3. Cardinality(Leaving') = Cardinality(Leaving) + 1
      BY <3>2, <1>3, FS_AddElement
    <3>4. /\ Cardinality(Injects(queue')) \in Nat
          /\ Cardinality(Injects(queue')) <= Cardinality(Injects(queue)) - 1
      BY <3>1, <1>2, CountPosted
    <3> QED
      BY <3>1, <3>3, <3>4, <1>2, <1>3, <1>5 DEF CountInv
  <2>4. CASE serveAdd(t)
    <3>1. runs' <= 1 /\ ~stopped' => runs <= 1 /\ ~stopped
      BY <2>4, <1>2, <1>4 DEF FirstRunInv, serveAdd, Takes, io, calls
    <3>2. Leaving' = Leaving
      BY <2>4, <1>1 DEF Leaving, serveAdd, Takes, io, calls
    <3>3. removes' = removes /\ queue' = Tail(queue) /\ queue # <<>>
      BY <2>4 DEF serveAdd, Takes, io, calls
    <3>4. /\ Cardinality(Injects(queue')) \in Nat
          /\ Cardinality(Injects(queue')) <= Cardinality(Injects(queue))
      BY <3>3, <1>2, CountPosted
    <3> QED
      BY <3>1, <3>2, <3>3, <3>4, <1>6
  <2>5. CASE serveDestroy(t)
    <3>1. runs' <= 1 /\ ~stopped' => runs <= 1 /\ ~stopped
      BY <2>5, <1>2, <1>4 DEF FirstRunInv, serveDestroy, Takes, io, calls
    <3>2. Leaving' = Leaving
      BY <2>5, <1>1 DEF Leaving, serveDestroy, Takes, io, calls
    <3>3. removes' = removes /\ queue' = Tail(queue) /\ queue # <<>>
      BY <2>5 DEF serveDestroy, Takes, io, calls
    <3>4. /\ Cardinality(Injects(queue')) \in Nat
          /\ Cardinality(Injects(queue')) <= Cardinality(Injects(queue))
      BY <3>3, <1>2, CountPosted
    <3> QED
      BY <3>1, <3>2, <3>3, <3>4, <1>6
  <2>6. CASE serveEnd(t)
    BY <2>6 DEF CountInv, serveEnd, io, calls
  <2>7. CASE removeSelf(t)
    <3>1. /\ pc[t] = "lockingRemove"
          /\ pc' = [pc EXCEPT ![t] = IF t \in threadMap THEN "done" ELSE "check"]
          /\ UNCHANGED <<runs, stopped, removes>>
      BY <2>7 DEF removeSelf, calls
    <3>2. CASE t \in threadMap
      <4>1. Leaving' = Leaving
        BY <3>1, <3>2, <1>1 DEF Leaving
      <4>2. queue' = Append(queue, Job("destroy", t)) /\ t \in Pool
        BY <2>7, <3>2, <1>1 DEF removeSelf, RepostRemoval
      <4>3. Cardinality(Injects(queue')) = Cardinality(Injects(queue))
        BY <4>2, <1>2, CountPosted
      <4> QED
        BY <3>1, <4>1, <4>3, <1>3, <1>6
    <3>3. CASE t \notin threadMap
      <4>1. Leaving' = Leaving \ {t} /\ t \in Leaving
        BY <3>1, <3>3, <1>1 DEF Leaving
      <4>2. Cardinality(Leaving') = Cardinality(Leaving) - 1
        BY <4>1, <1>3, FS_RemoveElement
      <4>3. UNCHANGED queue \/ queue' = Append(queue, Job("inject", NoThread))
        BY <2>7, <3>3 DEF removeSelf, RepostRemoval
      <4>4. /\ Cardinality(Injects(queue')) \in Nat
            /\ Cardinality(Injects(queue')) <= Cardinality(Injects(queue)) + 1
        <5>1. CASE UNCHANGED queue
          BY <5>1, <1>3
        <5>2. CASE queue' = Append(queue, Job("inject", NoThread))
          <6>1. Cardinality(Injects(queue')) = Cardinality(Injects(queue)) + 1
            BY <5>2, <1>2, CountPosted
          <6> QED
            BY <6>1, <1>3
        <5> QED
          BY <4>3, <5>1, <5>2
      <4> QED
        BY <3>1, <4>2, <4>4, <1>2, <1>3, <1>5 DEF CountInv
    <3> QED
      BY <3>2, <3>3
  <2>8. CASE addInHandler(t)
    <3>1. runs' <= 1 /\ ~stopped' => runs <= 1 /\ ~stopped
      BY <2>8, <1>2, <1>4 DEF FirstRunInv, addInHandler, io, calls
    <3>2. Leaving' = Leaving
      BY <2>8, <1>1 DEF Leaving, addInHandler, io, calls
    <3>3. UNCHANGED <<queue, removes>>
      BY <2>8 DEF addInHandler, io, calls
    <3> QED
      BY <3>1, <3>2, <3>3, <1>3, <1>6
  <2>9. CASE asyncDestroyThread(t)
    <3>1. runs' <= 1 /\ ~stopped' => runs <= 1 /\ ~stopped
      BY <2>9, <1>2, <1>4 DEF FirstRunInv, asyncDestroyThread, io, calls
    <3>2. Leaving' = Leaving
      BY <2>9, <1>1 DEF Leaving, asyncDestroyThread, io, calls
    <3>3. UNCHANGED <<queue, removes>>
      BY <2>9 DEF asyncDestroyThread, io, calls
    <3> QED
      BY <3>1, <3>2, <3>3, <1>3, <1>6
  <2>10. CASE destroyed(t)
    <3>1. runs' <= 1 /\ ~stopped' => runs <= 1 /\ ~stopped
      BY <2>10, <1>2, <1>4 DEF FirstRunInv, destroyed, Joined, io, calls
    <3>2. Leaving' = Leaving
      BY <2>10, <1>1 DEF Leaving, destroyed, Joined, io, calls
    <3>3. UNCHANGED <<queue, removes>>
      BY <2>10 DEF destroyed, Joined, io, calls
    <3> QED
      BY <3>1, <3>2, <3>3, <1>3, <1>6
  <2> QED
    BY <1>13, <2>1, <2>2, <2>3, <2>4, <2>5, <2>6, <2>7, <2>8, <2>9, <2>10
    DEF ThreadStep, Serve
<1> QED
  BY <1>7, <1>8, <1>9, <1>10, <1>11, <1>12, <1>13 DEF Next

-----------------------------------------------------------------------------
(* The inductive invariant holds in every reachable state.                 *)
THEOREM Invariance == Spec => []Inv
<1>1. Inv /\ [Next]_vars => Inv'
  BY TypeStep, PCStep, DestroyStep, MapStep, FirstRunStep, CountStep DEF Inv
<1> QED
  BY <1>1, InitInv, PTL DEF Spec

(* The variables of the event loop keep their types; in particular the     *)
(* main thread is never in m_threadMap and never to be destroyed.          *)
THEOREM TypeCorrect == Spec => []TypeOK
<1>1. Inv => TypeOK
  BY DEF Inv
<1> QED
  BY <1>1, Invariance, PTL

(* For any number of pool threads and of calls: m_threadMap loses an entry *)
(* only when its thread has ended, and until the loop stops removeThread() *)
(* ends at most as many threads as it was called for.                      *)
THEOREM RemovalsAsAsked == Spec => []RemovedAsAsked
<1>1. Inv => RemovedAsAsked
  <2> SUFFICES ASSUME Inv PROVE RemovedAsAsked
    OBVIOUS
  <2>1. \A u \in Pool : pc[u] # "new" /\ u \notin threadMap => pc[u] = "done"
    BY DEF Inv, MapInv
  <2>2. ASSUME runs <= 1, ~stopped
        PROVE  Cardinality({t \in Pool : pc[t] = "done"}) <= removes
    <3>1. IsFiniteSet(Threads)
      BY ThreadsAssumption, FS_AddElement DEF Threads
    <3>2. IsFiniteSet(Leaving) /\ Cardinality(Leaving) \in Nat
      BY <3>1, FS_Subset, FS_CardinalityType DEF Leaving
    <3>3. {t \in Pool : pc[t] = "done"} \subseteq Leaving
      BY DEF Leaving, Threads
    <3>4. /\ Cardinality({t \in Pool : pc[t] = "done"}) <= Cardinality(Leaving)
          /\ Cardinality({t \in Pool : pc[t] = "done"}) \in Nat
      BY <3>2, <3>3, FS_Subset, FS_CardinalityType
    <3>5. queue \in Seq(Jobs) /\ removes \in Nat
      BY BoundsAssumption DEF Inv, TypeOK
    <3>6. Cardinality(Injects(queue)) \in Nat
      BY <3>5, CountQueue
    <3>7. Cardinality(Leaving) + Cardinality(Injects(queue)) <= removes
      BY <2>2 DEF Inv, CountInv
    <3> QED
      BY <3>2, <3>4, <3>5, <3>6, <3>7
  <2> QED
    BY <2>1, <2>2 DEF RemovedAsAsked
<1> QED
  BY <1>1, Invariance, PTL

(* A pool thread that has ended stays ended: addThread() always starts a   *)
(* new one and nothing revives one that is being joined.                   *)
THEOREM EndIsFinal == Spec => [][EndsOnce]_vars
<1>1. Inv /\ [Next]_vars => [EndsOnce]_vars
  BY Finality
<1> QED
  BY <1>1, Invariance, PTL DEF Spec

(***************************************************************************)
(* The strand, for any set of threads, any configuration and any number of *)
(* handlers.  The inductive invariant IInv is stated with the model: run() *)
(* is posted or active at most once, and so is the lambda of the           *)
(* destructor.                                                             *)
(***************************************************************************)
USE ConfigAssumption, PostsAssumption, OthersAssumption

-----------------------------------------------------------------------------
(* What pushing to a queue does to its elements.                           *)
LEMMA AppendFacts ==
    ASSUME NEW S, NEW s \in Seq(S), NEW x \in S
    PROVE  /\ Append(s, x) \in Seq(S)
           /\ Len(Append(s, x)) = Len(s) + 1
           /\ Len(s) \in Nat
           /\ \A i \in 1..Len(s) : Append(s, x)[i] = s[i]
           /\ Append(s, x)[Len(s) + 1] = x
           /\ Append(s, x) # <<>>
  OBVIOUS

(* What popping from a queue does to its elements.                         *)
LEMMA TailFacts ==
    ASSUME NEW S, NEW s \in Seq(S), s # <<>>
    PROVE  /\ Tail(s) \in Seq(S)
           /\ Len(s) \in Nat \ {0}
           /\ Len(Tail(s)) = Len(s) - 1
           /\ \A i \in 1..Len(Tail(s)) : Tail(s)[i] = s[i + 1]
           /\ Head(s) = s[1]
           /\ Head(s) \in S
  OBVIOUS

(* The queue of the event loop after a function is posted ...              *)
LEMMA LoopAppend ==
    ASSUME StrandTypeOK, NEW job \in LoopFunctions, loop' = Append(loop, job)
    PROVE  /\ loop' \in Seq(LoopFunctions)
           /\ Len(loop) \in Nat
           /\ Len(loop') = Len(loop) + 1
           /\ \A i \in 1..Len(loop) : loop'[i] = loop[i]
           /\ loop'[Len(loop) + 1] = job
  BY AppendFacts DEF StrandTypeOK

(* ... and after a thread takes one.                                       *)
LEMMA LoopTail ==
    ASSUME StrandTypeOK, loop # <<>>, loop' = Tail(loop)
    PROVE  /\ loop' \in Seq(LoopFunctions)
           /\ Len(loop) \in Nat \ {0}
           /\ Len(loop') = Len(loop) - 1
           /\ \A i \in 1..Len(loop') : loop'[i] = loop[i + 1]
           /\ \A i \in 2..Len(loop) :
                 i - 1 \in 1..Len(loop') /\ loop'[i - 1] = loop[i]
           /\ Head(loop) = loop[1]
  BY TailFacts DEF StrandTypeOK

(* Taking one function does not disturb the bookkeeping of another one,    *)
LEMMA PopOther ==
    ASSUME StrandTypeOK, loop # <<>>, loop' = Tail(loop), NEW job,
           Head(loop) # job
    PROVE  /\ Pending(job) <=> Pending(job)'
           /\ Unique(job) => Unique(job)'
<1>1. loop[1] # job
  BY LoopTail
<1>2. ASSUME Pending(job) PROVE Pending(job)'
  BY <1>1, <1>2, LoopTail DEF Pending
<1>3. ASSUME Pending(job)' PROVE Pending(job)
  BY <1>3, LoopTail DEF Pending
<1>4. ASSUME Unique(job) PROVE Unique(job)'
  BY <1>4, LoopTail DEF Unique
<1> QED
  BY <1>2, <1>3, <1>4

(* and neither does posting one.                                           *)
LEMMA PushOther ==
    ASSUME StrandTypeOK, NEW job \in LoopFunctions, loop' = Append(loop, job), NEW other,
           other # job
    PROVE  /\ Pending(other) <=> Pending(other)'
           /\ Unique(other) => Unique(other)'
  BY LoopAppend DEF Pending, Unique

(* Taking the only one of its kind leaves none.                            *)
LEMMA PopOnly ==
    ASSUME StrandTypeOK, loop # <<>>, loop' = Tail(loop), NEW job,
           Head(loop) = job, Unique(job)
    PROVE  ~Pending(job)' /\ Unique(job)' /\ Pending(job)
  BY LoopTail DEF Pending, Unique

-----------------------------------------------------------------------------
(* Every step keeps the types.                                             *)
LEMMA StrandTypeStep == StrandTypeOK /\ SingleLeft /\ [StrandNext]_strandVars => StrandTypeOK'
<1> SUFFICES ASSUME StrandTypeOK, SingleLeft, [StrandNext]_strandVars PROVE StrandTypeOK'
  OBVIOUS
<1> USE DEF StrandTypeOK, Doings, LoopFunctions
<1>1. CASE post
  <2>1. Append(tasks, posted + 1) \in Seq(1..MaxPosts)
    BY <1>1, AppendFacts DEF post
  <2>2. Append(loop, "run") \in Seq(LoopFunctions)
    BY AppendFacts
  <2>3. CASE tasksRunning
    BY <1>1, <2>1, <2>3 DEF post, startRunningIfNeeded, config
  <2>4. CASE ~tasksRunning
    <3>1. tasksRunning' = TRUE
      BY <1>1, <2>4 DEF post, startRunningIfNeeded
    <3>2. loop' = Append(loop, "run")
      BY <1>1, <2>4 DEF post, startRunningIfNeeded
    <3> QED
      BY <1>1, <2>1, <2>2, <3>1, <3>2 DEF post, config
  <2> QED
    BY <2>3, <2>4
<1>2. CASE destruct
  <2>1. Append(loop, "left") \in Seq(LoopFunctions)
    BY AppendFacts
  <2>2. /\ tasks' \in Seq(1..MaxPosts)
        /\ doing' \in [LoopThreads -> Doings]
        /\ counter' \in [LoopThreads -> Nat]
        /\ UNCHANGED <<config, posted, finished, others, late, overtaken>>
    BY <1>2 DEF destruct
  <2>3. alive' \in BOOLEAN /\ tasksRunning' \in BOOLEAN
    BY <1>2 DEF destruct
  <2>4. left' \in Seq(1..MaxPosts)
    BY <1>2 DEF destruct, LeftOver
  <2>5. loop' \in Seq(LoopFunctions)
    BY <1>2, <2>1 DEF destruct
  <2> QED
    BY <2>2, <2>3, <2>4, <2>5 DEF config
<1>3. CASE postOther
  BY <1>3, AppendFacts DEF postOther, config
<1>4. ASSUME NEW t \in LoopThreads, LoopThreadStep(t) PROVE StrandTypeOK'
  <2>1. CASE runEnter(t)
    <3>1. Tail(loop) \in Seq(LoopFunctions)
      BY <2>1, TailFacts DEF runEnter
    <3>2. CASE alive
      BY <2>1, <3>1, <3>2 DEF runEnter, config
    <3>3. CASE ~alive
      BY <2>1, <3>1, <3>3 DEF runEnter, config
    <3> QED
      BY <3>2, <3>3
  <2>2. CASE runEmpty(t)
    BY <2>2 DEF runEmpty, StopRunning, config
  <2>3. CASE runTask(t)
    BY <2>3, TailFacts DEF runTask, CountOvertaking, config
  <2>4. CASE runTaskDone(t)
    BY <2>4 DEF runTaskDone, config
  <2>5. CASE runRepost(t)
    BY <2>5, AppendFacts DEF runRepost, config
  <2>6. CASE leftEnter(t)
    BY <2>6, TailFacts DEF leftEnter, config
  <2>7. CASE leftNext(t)
    <3>1. UNCHANGED <<tasks, tasksRunning, config, alive, left, loop, counter,
                      posted, finished, others, late>>
      BY <2>7 DEF leftNext
    <3>2. doing' \in [LoopThreads -> Doings]
      BY <2>7 DEF leftNext
    <3>3. overtaken' \in Nat
      BY <2>7 DEF leftNext, CountOvertaking
    <3> QED
      BY <3>1, <3>2, <3>3 DEF config
  <2>8. CASE leftTaskDone(t)
    <3>1. left # <<>>
      BY <2>8 DEF leftTaskDone, SingleLeft
    <3>2. Tail(left) \in Seq(1..MaxPosts)
      BY <3>1, TailFacts
    <3> QED
      BY <2>8, <3>2 DEF leftTaskDone, config
  <2>9. CASE runOther(t)
    BY <2>9, TailFacts DEF runOther, config
  <2> QED
    BY <1>4, <2>1, <2>2, <2>3, <2>4, <2>5, <2>6, <2>7, <2>8, <2>9
       DEF LoopThreadStep
<1>5. CASE UNCHANGED strandVars
  BY <1>5 DEF strandVars, config
<1> QED
  BY <1>1, <1>2, <1>3, <1>4, <1>5 DEF StrandNext


(* run() stays unique and m_tasksRunning keeps telling the truth.          *)
LEMMA SingleRunStep ==
    StrandTypeOK /\ SingleRun /\ SingleLeft /\ [StrandNext]_strandVars => SingleRun'
<1> SUFFICES ASSUME StrandTypeOK, SingleRun, SingleLeft, [StrandNext]_strandVars
             PROVE  SingleRun'
  OBVIOUS
<1> USE DEF SingleRun, Unique, Pending, InRun
<1>1. CASE post
  <2>1. tasks' # <<>> /\ alive' /\ UNCHANGED doing
    BY <1>1, AppendFacts, SMTT(30) DEF post, StrandTypeOK
  <2>2. CASE tasksRunning
    BY <1>1, <2>1, <2>2 DEF post, startRunningIfNeeded
  <2>3. CASE ~tasksRunning
    <3>1. tasksRunning' /\ loop' = Append(loop, "run")
      BY <1>1, <2>3 DEF post, startRunningIfNeeded
    <3>2. "run" \in LoopFunctions
      BY DEF LoopFunctions
    <3> QED
      BY <2>1, <2>3, <3>1, <3>2, LoopAppend
  <2> QED
    BY <2>2, <2>3
<1>2. CASE destruct
  <2>1. tasks' = <<>> /\ ~alive' /\ UNCHANGED <<doing, tasksRunning>>
    BY <1>2 DEF destruct
  <2>2. \A t \in LoopThreads : ~InRun(t)
    BY <1>2 DEF destruct
  <2>3. CASE loop' = loop
    BY <2>1, <2>2, <2>3
  <2>4. CASE loop' = Append(loop, "left")
    <3>1. "left" \in LoopFunctions
      BY DEF LoopFunctions
    <3> QED
      BY <2>1, <2>2, <2>4, <3>1, LoopAppend
  <2> QED
    BY <1>2, <2>3, <2>4 DEF destruct
<1>3. CASE postOther
  <2>1. "other" \in LoopFunctions
    BY DEF LoopFunctions
  <2> QED
    BY <1>3, <2>1, LoopAppend DEF postOther
<1>4. ASSUME NEW t \in LoopThreads, LoopThreadStep(t) PROVE SingleRun'
  <2>1. CASE runEnter(t)
    <3>1. loop[1] = "run"
      BY <2>1, LoopTail DEF runEnter
    <3>2. CASE alive
      BY <2>1, <3>1, <3>2, LoopTail DEF runEnter, StrandTypeOK
    <3>3. CASE ~alive
      BY <2>1, <3>1, <3>3, LoopTail DEF runEnter, StrandTypeOK
    <3> QED
      BY <3>2, <3>3
  <2>2. CASE runEmpty(t)
    BY <2>2 DEF runEmpty, StopRunning, StrandTypeOK
  <2>3. CASE runTask(t)
    BY <2>3 DEF runTask, StrandTypeOK
  <2>4. CASE runTaskDone(t)
    BY <2>4 DEF runTaskDone, StrandTypeOK
  <2>5. CASE runRepost(t)
    <3>1. "run" \in LoopFunctions
      BY DEF LoopFunctions
    <3> QED
      BY <2>5, <3>1, LoopAppend DEF runRepost, StrandTypeOK
  <2>6. CASE leftEnter(t)
    <3>1. UNCHANGED <<tasks, tasksRunning, alive>>
      BY <2>6 DEF leftEnter
    <3>2. (Pending("run") <=> Pending("run")') /\ Unique("run")'
      BY <2>6, PopOther DEF leftEnter
    <3>3. \A u \in LoopThreads : InRun(u) <=> InRun(u)'
      BY <2>6 DEF leftEnter, StrandTypeOK
    <3> QED
      BY <3>1, <3>2, <3>3
  <2>7. CASE leftNext(t)
    BY <2>7 DEF leftNext, StrandTypeOK
  <2>8. CASE leftTaskDone(t)
    BY <2>8 DEF leftTaskDone, StrandTypeOK
  <2>9. CASE runOther(t)
    <3>1. UNCHANGED <<tasks, tasksRunning, alive, doing>>
      BY <2>9 DEF runOther
    <3>2. (Pending("run") <=> Pending("run")') /\ Unique("run")'
      BY <2>9, PopOther DEF runOther
    <3> QED
      BY <3>1, <3>2
  <2> QED
    BY <1>4, <2>1, <2>2, <2>3, <2>4, <2>5, <2>6, <2>7, <2>8, <2>9
       DEF LoopThreadStep
<1>5. CASE UNCHANGED strandVars
  BY <1>5 DEF strandVars
<1> QED
  BY <1>1, <1>2, <1>3, <1>4, <1>5 DEF StrandNext

(* The lambda of the destructor exists at most once, and only afterwards.  *)
LEMMA SingleLeftStep ==
    StrandTypeOK /\ SingleLeft /\ [StrandNext]_strandVars => SingleLeft'
<1> SUFFICES ASSUME StrandTypeOK, SingleLeft, [StrandNext]_strandVars
             PROVE  SingleLeft'
  OBVIOUS
<1> USE DEF SingleLeft, InLeft
<1> "run" \in LoopFunctions /\ "left" \in LoopFunctions /\ "other" \in LoopFunctions
  BY DEF LoopFunctions
<1>1. CASE post
  <2>1. UNCHANGED <<alive, left, doing, guaranteeToRun>> /\ alive
    BY <1>1 DEF post, config
  <2>2. CASE loop' = loop
    BY <2>1, <2>2 DEF Unique, Pending
  <2>3. CASE loop' = Append(loop, "run")
    BY <2>1, <2>3, PushOther
  <2> QED
    BY <1>1, <2>2, <2>3 DEF post, startRunningIfNeeded
<1>2. CASE destruct
  <2>1. UNCHANGED <<doing, guaranteeToRun>> /\ ~alive' /\ alive
    BY <1>2 DEF destruct, config
  <2>2. CASE LeftOver = <<>>
    <3>1. UNCHANGED <<left, loop>>
      BY <1>2, <2>2 DEF destruct
    <3> QED
      BY <2>1, <3>1 DEF Unique, Pending
  <2>3. CASE LeftOver # <<>>
    <3>1. loop' = Append(loop, "left")
      BY <1>2, <2>3 DEF destruct
    <3>2. Pending("left")' /\ Unique("left")'
      BY <2>1, <3>1, LoopAppend DEF Pending, Unique
    <3>3. guaranteeToRun
      BY <2>3 DEF LeftOver
    <3> QED
      BY <2>1, <3>2, <3>3
  <2> QED
    BY <2>2, <2>3
<1>3. CASE postOther
  BY <1>3, PushOther DEF postOther, config
<1>4. ASSUME NEW t \in LoopThreads, LoopThreadStep(t) PROVE SingleLeft'
  <2>1. CASE runEnter(t)
    <3>1. UNCHANGED <<left, alive, guaranteeToRun>>
      BY <2>1 DEF runEnter, config
    <3>2. (Pending("left") <=> Pending("left")') /\ Unique("left")'
      BY <2>1, PopOther DEF runEnter
    <3>3. \A u \in LoopThreads :
            (InLeft(u) <=> InLeft(u)')
            /\ (doing'[u] = "leftTask" => doing[u] = "leftTask")
      <4>1. CASE alive
        BY <2>1, <4>1 DEF runEnter, StrandTypeOK
      <4>2. CASE ~alive
        BY <2>1, <4>2 DEF runEnter, StrandTypeOK
      <4> QED
        BY <4>1, <4>2
    <3> QED
      BY <3>1, <3>2, <3>3
  <2>2. CASE runEmpty(t)
    BY <2>2 DEF runEmpty, StrandTypeOK, Pending, Unique, config
  <2>3. CASE runTask(t)
    BY <2>3 DEF runTask, StrandTypeOK, Pending, Unique, config
  <2>4. CASE runTaskDone(t)
    BY <2>4 DEF runTaskDone, StrandTypeOK, Pending, Unique, config
  <2>5. CASE runRepost(t)
    <3>1. UNCHANGED <<left, alive, guaranteeToRun>>
      BY <2>5 DEF runRepost, config
    <3>2. (Pending("left") <=> Pending("left")') /\ Unique("left")'
      BY <2>5, PushOther DEF runRepost
    <3>3. \A u \in LoopThreads :
            (InLeft(u) <=> InLeft(u)')
            /\ (doing'[u] = "leftTask" => doing[u] = "leftTask")
      BY <2>5 DEF runRepost, StrandTypeOK
    <3> QED
      BY <3>1, <3>2, <3>3
  <2>6. CASE leftEnter(t)
    <3>1. UNCHANGED <<left, alive, guaranteeToRun>>
      BY <2>6 DEF leftEnter, config
    <3>2. Pending("left") /\ ~Pending("left")' /\ Unique("left")'
      BY <2>6, PopOnly DEF leftEnter
    <3>3. \A u \in LoopThreads : InLeft(u)' <=> u = t
      BY <2>6, <3>2 DEF leftEnter, StrandTypeOK
    <3>4. \A u \in LoopThreads : doing'[u] # "leftTask"
      BY <2>6, <3>2 DEF leftEnter, StrandTypeOK
    <3> QED
      BY <3>1, <3>2, <3>3, <3>4
  <2>7. CASE leftNext(t)
    <3>1. UNCHANGED <<left, alive, loop, guaranteeToRun>>
      BY <2>7 DEF leftNext, config
    <3>2. CASE left = <<>>
      BY <2>7, <3>1, <3>2 DEF leftNext, StrandTypeOK, Pending, Unique
    <3>3. CASE left # <<>>
      BY <2>7, <3>1, <3>3 DEF leftNext, StrandTypeOK, Pending, Unique
    <3> QED
      BY <3>2, <3>3
  <2>8. CASE leftTaskDone(t)
    BY <2>8 DEF leftTaskDone, StrandTypeOK, Pending, Unique, config
  <2>9. CASE runOther(t)
    BY <2>9, PopOther DEF runOther, config
  <2> QED
    BY <1>4, <2>1, <2>2, <2>3, <2>4, <2>5, <2>6, <2>7, <2>8, <2>9
       DEF LoopThreadStep
<1>5. CASE UNCHANGED strandVars
  BY <1>5 DEF strandVars, Unique, Pending, config
<1> QED
  BY <1>1, <1>2, <1>3, <1>4, <1>5 DEF StrandNext

(* Handlers keep their place: the oldest unfinished one is next.           *)
LEMMA OrderStep ==
    StrandTypeOK /\ SingleRun /\ SingleLeft /\ InPostingOrder /\ [StrandNext]_strandVars
        => InPostingOrder'
<1> SUFFICES ASSUME StrandTypeOK, SingleRun, SingleLeft, InPostingOrder, [StrandNext]_strandVars
             PROVE  InPostingOrder'
  OBVIOUS
<1> USE DEF InPostingOrder
<1>0. Running \in {0, 1}
  BY DEF Running
<1>1. CASE post
  <2>1. /\ UNCHANGED <<doing, left, finished, alive, guaranteeToRun>>
        /\ alive /\ posted' = posted + 1
        /\ tasks' = Append(tasks, posted + 1) /\ posted + 1 \in 1..MaxPosts
    BY <1>1 DEF post, config, StrandTypeOK
  <2>2. /\ Len(tasks') = Len(tasks) + 1 /\ Len(tasks) \in Nat
        /\ \A i \in 1..Len(tasks) : tasks'[i] = tasks[i]
        /\ tasks'[Len(tasks) + 1] = posted + 1
    BY <2>1, AppendFacts DEF StrandTypeOK
  <2>3. Running' = Running
    BY <2>1 DEF Running
  <2>4. posted = finished + Running + Len(tasks)
    BY <2>1
  <2>5. \A i \in 1..Len(tasks') : tasks'[i] = finished' + Running' + i
    <3> SUFFICES ASSUME NEW i \in 1..(Len(tasks) + 1)
                 PROVE  tasks'[i] = finished + Running + i
      BY <2>1, <2>2, <2>3
    <3>1. CASE i \in 1..Len(tasks)
      BY <2>2, <3>1
    <3>2. CASE i = Len(tasks) + 1
      BY <1>0, <2>2, <2>4, <3>2 DEF StrandTypeOK
    <3> QED
      BY <2>2, <3>1, <3>2
  <2>6. posted' = finished' + Running' + Len(tasks')
    BY <1>0, <2>1, <2>2, <2>3, <2>4 DEF StrandTypeOK
  <2> QED
    BY <2>1, <2>5, <2>6
<1>2. CASE destruct
  <2>1. /\ UNCHANGED <<doing, finished, posted, guaranteeToRun>>
        /\ alive /\ ~alive' /\ tasks' = <<>> /\ left = <<>>
        /\ Running = 0 /\ Running' = 0
    BY <1>2 DEF destruct, config, InRun, SingleLeft, Running
  <2>2. left' = LeftOver
    BY <1>2, <2>1 DEF destruct
  <2>3. CASE guaranteeToRun
    BY <2>1, <2>2, <2>3 DEF LeftOver, StrandTypeOK
  <2>4. CASE ~guaranteeToRun
    BY <2>1, <2>2, <2>4 DEF LeftOver, StrandTypeOK
  <2> QED
    BY <2>3, <2>4
<1>3. CASE postOther
  BY <1>3 DEF postOther, config, Running
<1>4. ASSUME NEW t \in LoopThreads, LoopThreadStep(t) PROVE InPostingOrder'
  <2>1. CASE runEnter(t)
    <3>1. UNCHANGED <<tasks, left, finished, posted, alive, guaranteeToRun>>
      BY <2>1 DEF runEnter, config
    <3>2. (\E u \in LoopThreads : doing[u] = "task")
            <=> (\E u \in LoopThreads : doing'[u] = "task")
      <4>1. CASE alive
        BY <2>1, <4>1 DEF runEnter, StrandTypeOK
      <4>2. CASE ~alive
        BY <2>1, <4>2 DEF runEnter, StrandTypeOK
      <4> QED
        BY <4>1, <4>2
    <3> QED
      BY <3>1, <3>2 DEF Running
  <2>2. CASE runEmpty(t)
    BY <2>2 DEF runEmpty, StrandTypeOK, config, Running
  <2>3. CASE runTask(t)
    <3>1. /\ UNCHANGED <<left, finished, posted, alive, guaranteeToRun>>
          /\ tasks # <<>> /\ tasks' = Tail(tasks) /\ alive
      BY <2>3 DEF runTask, config, SingleRun
    <3>2. Running = 0
      BY <2>3 DEF runTask, SingleRun, InRun, Running
    <3>3. Running' = 1
      BY <2>3 DEF runTask, StrandTypeOK, Running
    <3>4. /\ Len(tasks') = Len(tasks) - 1 /\ Len(tasks) \in Nat \ {0}
          /\ \A i \in 1..Len(tasks') : tasks'[i] = tasks[i + 1]
      BY <3>1, TailFacts DEF StrandTypeOK
    <3> QED
      BY <3>1, <3>2, <3>3, <3>4 DEF StrandTypeOK
  <2>4. CASE runTaskDone(t)
    <3>1. /\ UNCHANGED <<tasks, left, posted, alive, guaranteeToRun>>
          /\ doing[t] = "task" /\ finished' = finished + 1 /\ alive /\ left = <<>>
      BY <2>4 DEF runTaskDone, config, SingleRun, InRun, SingleLeft
    <3>2. Running = 1 /\ Running' = 0
      BY <2>4 DEF runTaskDone, SingleRun, InRun, StrandTypeOK, Running
    <3> QED
      BY <3>1, <3>2 DEF StrandTypeOK
  <2>5. CASE runRepost(t)
    BY <2>5 DEF runRepost, StrandTypeOK, config, Running
  <2>6. CASE leftEnter(t)
    BY <2>6 DEF leftEnter, StrandTypeOK, config, Running
  <2>7. CASE leftNext(t)
    BY <2>7 DEF leftNext, StrandTypeOK, config, Running
  <2>8. CASE leftTaskDone(t)
    <3>1. /\ UNCHANGED <<tasks, posted, alive, guaranteeToRun>>
          /\ finished' = finished + 1 /\ ~alive /\ left # <<>>
          /\ left' = Tail(left) /\ tasks = <<>>
      BY <2>8 DEF leftTaskDone, config, SingleRun, InLeft, SingleLeft
    <3>2. Running = 0 /\ Running' = 0
      BY <2>8, <3>1 DEF leftTaskDone, SingleRun, InRun, StrandTypeOK, Running
    <3>3. /\ Len(left') = Len(left) - 1 /\ Len(left) \in Nat \ {0}
          /\ \A i \in 1..Len(left') : left'[i] = left[i + 1]
      BY <3>1, TailFacts DEF StrandTypeOK
    <3>4. finished \in Nat /\ posted \in Nat
      BY DEF StrandTypeOK
    <3> HIDE DEF Running
    <3>5. \A i \in 1..Len(left') : left'[i] = finished' + i
      BY <3>1, <3>3, <3>4
    <3>6. ~alive' /\ guaranteeToRun' => posted' = finished' + Len(left')
      BY <3>1, <3>3, <3>4
    <3> QED
      BY <3>1, <3>5, <3>6
  <2>9. CASE runOther(t)
    BY <2>9 DEF runOther, config, Running
  <2> QED
    BY <1>4, <2>1, <2>2, <2>3, <2>4, <2>5, <2>6, <2>7, <2>8, <2>9
       DEF LoopThreadStep
<1>5. CASE UNCHANGED strandVars
  BY <1>5 DEF strandVars, config, Running
<1> QED
  BY <1>1, <1>2, <1>3, <1>4, <1>5 DEF StrandNext

(* What run() overtakes is counted by its local counter.                   *)
LEMMA RunShareStep ==
    StrandTypeOK /\ SingleRun /\ RunShare /\ LeftShare /\ [StrandNext]_strandVars
      => RunShare'
<1> SUFFICES ASSUME StrandTypeOK, SingleRun, RunShare, LeftShare,
                    [StrandNext]_strandVars
             PROVE  RunShare'
  OBVIOUS
<1> USE DEF RunShare, OtherWaits, InRun
<1> "run" \in LoopFunctions /\ "left" \in LoopFunctions /\ "other" \in LoopFunctions
  BY DEF LoopFunctions
<1>0. OtherWaits <=> Pending("other")
  BY DEF Pending
<1>1. CASE post
  <2>1. UNCHANGED <<doing, counter, late, overtaken, maxInARow>>
    BY <1>1 DEF post, config
  <2>2. CASE loop' = loop
    BY <2>1, <2>2
  <2>3. CASE loop' = Append(loop, "run")
    BY <2>1, <2>3, LoopAppend
  <2> QED
    BY <1>1, <2>2, <2>3 DEF post, startRunningIfNeeded
<1>2. CASE destruct
  <2>1. UNCHANGED <<doing, counter, late, overtaken, maxInARow>>
    BY <1>2 DEF destruct, config
  <2>2. CASE loop' = loop
    BY <2>1, <2>2
  <2>3. CASE loop' = Append(loop, "left")
    BY <2>1, <2>3, LoopAppend
  <2> QED
    BY <1>2, <2>2, <2>3 DEF destruct
<1>3. CASE postOther
  BY <1>3 DEF postOther, config, StrandTypeOK
<1>4. ASSUME NEW t \in LoopThreads, LoopThreadStep(t) PROVE RunShare'
  <2>1. CASE runEnter(t)
    <3>1. UNCHANGED <<late, overtaken, maxInARow>> /\ loop[1] = "run"
      BY <2>1, LoopTail DEF runEnter, config
    <3>2. \A i, j \in 1..Len(loop') :
            i < j /\ loop'[i] = "run" /\ loop'[j] = "other" => late' \/ overtaken' = 0
      BY <2>1, <3>1, LoopTail DEF runEnter
    <3>3. OtherWaits' => late \/ overtaken = 0
      BY <2>1, <3>1, LoopTail DEF runEnter
    <3>4. counter' = counter \/ counter' = [counter EXCEPT ![t] = 0]
      BY <2>1 DEF runEnter
    <3>5. \A u \in LoopThreads : counter'[u] <= maxInARow /\ counter'[u] \in Nat
      BY <3>4 DEF StrandTypeOK
    <3>6. CASE alive
      <4>1. OtherWaits' => overtaken = 0
        BY <3>3, <3>6 DEF LeftShare
      <4> QED
        BY <3>1, <3>2, <3>5, <4>1
    <3>7. CASE ~alive
      <4>1. UNCHANGED <<doing, counter>>
        BY <2>1, <3>7 DEF runEnter
      <4>2. \A u \in LoopThreads : ~InRun(u)
        BY <3>7 DEF SingleRun
      <4> QED
        BY <3>1, <3>2, <3>5, <4>1, <4>2
    <3> QED
      BY <3>6, <3>7
  <2>2. CASE runEmpty(t)
    BY <2>2 DEF runEmpty, config, StrandTypeOK
  <2>3. CASE runTask(t)
    <3>1. UNCHANGED <<loop, late, maxInARow>> /\ counter[t] + 1 <= maxInARow
      BY <2>3 DEF runTask, config, MayContinue
    <3>2. \A u \in LoopThreads : InRun(u)' => u = t
      BY <2>3 DEF runTask, StrandTypeOK, SingleRun
    <3>3. \A u \in LoopThreads : counter'[u] = IF u = t THEN counter[u] + 1
                                                  ELSE counter[u]
      BY <2>3 DEF runTask, StrandTypeOK
    <3>4. CASE OtherWaits
      <4>1. overtaken' = overtaken + 1 /\ overtaken <= counter[t]
        BY <2>3, <3>4 DEF runTask, CountOvertaking
      <4>2. \A i \in 1..Len(loop) : loop[i] # "run"
        BY <2>3 DEF runTask, SingleRun, Pending
      <4> QED
        <5>1. overtaken' <= counter[t] + 1 /\ overtaken' <= maxInARow
          BY <3>1, <4>1 DEF StrandTypeOK
        <5>2. \A u \in LoopThreads : counter'[u] <= maxInARow
          BY <3>1, <3>3
        <5>3. \A u \in LoopThreads : InRun(u)' => overtaken' <= counter'[u]
          BY <3>2, <3>3, <5>1
        <5> QED
          BY <3>1, <4>2, <5>1, <5>2, <5>3
    <3>5. CASE ~OtherWaits
      <4>1. overtaken' = overtaken
        BY <2>3, <3>5 DEF runTask, CountOvertaking
      <4> QED
        BY <3>1, <3>2, <3>3, <3>5, <4>1 DEF StrandTypeOK
    <3> QED
      BY <3>4, <3>5
  <2>4. CASE runTaskDone(t)
    BY <2>4 DEF runTaskDone, config, StrandTypeOK
  <2>5. CASE runRepost(t)
    <3>1. /\ UNCHANGED <<late, overtaken, maxInARow>>
          /\ loop' = Append(loop, "run")
      BY <2>5 DEF runRepost, config
    <3>2. \A i, j \in 1..Len(loop') :
            i < j /\ loop'[i] = "run" /\ loop'[j] = "other" => late' \/ overtaken' = 0
      BY <3>1, LoopAppend
    <3>3. \A u \in LoopThreads : ~InRun(u)'
      BY <2>5 DEF runRepost, StrandTypeOK, SingleRun
    <3>4. \A u \in LoopThreads : counter'[u] <= maxInARow
      BY <2>5 DEF runRepost, StrandTypeOK
    <3> QED
      BY <3>1, <3>2, <3>3, <3>4
  <2>6. CASE leftEnter(t)
    <3>1. UNCHANGED <<late, overtaken, maxInARow, counter>> /\ loop' = Tail(loop)
          /\ loop # <<>>
      BY <2>6 DEF leftEnter, config
    <3>2. \A u \in LoopThreads : InRun(u)' => InRun(u)
      BY <2>6 DEF leftEnter, StrandTypeOK
    <3> QED
      BY <3>1, <3>2, LoopTail
  <2>7. CASE leftNext(t)
    <3>1. UNCHANGED <<loop, counter, late, maxInARow>>
      BY <2>7 DEF leftNext, config
    <3>2. \A u \in LoopThreads : InRun(u)' <=> InRun(u)
      BY <2>7 DEF leftNext, StrandTypeOK
    <3>3. CASE OtherWaits
      <4>1. late
        BY <2>7, <3>3 DEF leftNext, LeftShare, InLeft
      <4>2. \A u \in LoopThreads : ~InRun(u)
        BY <4>1 DEF LeftShare, SingleRun
      <4>3. late' /\ \A u \in LoopThreads : ~InRun(u)'
        BY <3>1, <3>2, <4>1, <4>2
      <4>4. \A u \in LoopThreads : counter'[u] <= maxInARow'
        BY <3>1
      <4> QED
        BY <4>3, <4>4
    <3>4. CASE ~OtherWaits
      <4>1. overtaken' = overtaken
        BY <2>7, <3>4 DEF leftNext, CountOvertaking
      <4>2. ~OtherWaits'
        BY <3>1, <3>4
      <4> QED
        BY <3>1, <4>1, <4>2
    <3> QED
      BY <3>3, <3>4
  <2>8. CASE leftTaskDone(t)
    BY <2>8 DEF leftTaskDone, config, StrandTypeOK
  <2>9. CASE runOther(t)
    BY <2>9, LoopTail DEF runOther, config
  <2> QED
    BY <1>4, <2>1, <2>2, <2>3, <2>4, <2>5, <2>6, <2>7, <2>8, <2>9
       DEF LoopThreadStep
<1>5. CASE UNCHANGED strandVars
  BY <1>5 DEF strandVars, config
<1> QED
  BY <1>1, <1>2, <1>3, <1>4, <1>5 DEF StrandNext

(* The lambda of the destructor overtakes only what was posted after it.   *)
LEMMA LeftShareStep ==
    /\ StrandTypeOK /\ SingleRun /\ SingleLeft /\ LeftShare
    /\ [StrandNext]_strandVars
    => LeftShare'
<1> SUFFICES ASSUME StrandTypeOK, SingleRun, SingleLeft, LeftShare,
                    [StrandNext]_strandVars
             PROVE  LeftShare'
  OBVIOUS
<1> USE DEF LeftShare, OtherWaits, InLeft
<1> "run" \in LoopFunctions /\ "left" \in LoopFunctions /\ "other" \in LoopFunctions
  BY DEF LoopFunctions
<1>1. CASE post
  <2>1. UNCHANGED <<doing, alive, late, overtaken, guaranteeToRun>> /\ alive
    BY <1>1 DEF post, config
  <2>2. CASE loop' = loop
    BY <2>1, <2>2
  <2>3. CASE loop' = Append(loop, "run")
    BY <2>1, <2>3, LoopAppend
  <2> QED
    BY <1>1, <2>2, <2>3 DEF post, startRunningIfNeeded
<1>2. CASE destruct
  <2>1. /\ UNCHANGED <<doing, late, overtaken, guaranteeToRun>>
        /\ alive /\ ~alive'
    BY <1>2 DEF destruct, config
  <2>2. CASE loop' = loop
    BY <2>1, <2>2
  <2>3. CASE loop' = Append(loop, "left")
    <3>1. \A u \in LoopThreads : ~InLeft(u)
      BY <2>1 DEF SingleLeft
    <3>2. \A i, j \in 1..Len(loop') :
            i < j /\ loop'[i] = "left" /\ loop'[j] = "other" => late'
      BY <2>1, <2>3, LoopAppend
    <3> QED
      BY <2>1, <3>1, <3>2
  <2> QED
    BY <1>2, <2>2, <2>3 DEF destruct
<1>3. CASE postOther
  <2>1. /\ UNCHANGED <<doing, alive>>
        /\ loop' = Append(loop, "other")
        /\ late' = ~alive /\ overtaken' = 0
    BY <1>3 DEF postOther
  <2>2. \A u \in LoopThreads : InLeft(u) => ~alive
    BY DEF SingleLeft
  <2>3. \A i \in 1..Len(loop) : loop[i] = "left" => ~alive
    BY DEF SingleLeft, Pending
  <2>4. ~OtherWaits
    BY <1>3 DEF postOther
  <2>5. \A i, j \in 1..Len(loop') :
          i < j /\ loop'[i] = "left" /\ loop'[j] = "other" => late'
    <3> SUFFICES ASSUME NEW i \in 1..Len(loop'), NEW j \in 1..Len(loop'),
                        i < j, loop'[i] = "left"
                 PROVE  late'
      OBVIOUS
    <3>1. i \in 1..Len(loop) /\ loop[i] = "left"
      BY <2>1, LoopAppend
    <3> QED
      BY <2>1, <2>3, <3>1
  <2> QED
    BY <2>1, <2>2, <2>5
<1>4. ASSUME NEW t \in LoopThreads, LoopThreadStep(t) PROVE LeftShare'
  <2>1. CASE runEnter(t)
    <3>1. /\ UNCHANGED <<alive, late, overtaken, guaranteeToRun>>
          /\ loop' = Tail(loop) /\ loop # <<>>
      BY <2>1 DEF runEnter, config
    <3>2. \A u \in LoopThreads : InLeft(u)' => InLeft(u)
      BY <2>1 DEF runEnter, StrandTypeOK
    <3> QED
      BY <3>1, <3>2, LoopTail
  <2>2. CASE runEmpty(t)
    BY <2>2 DEF runEmpty, config, StrandTypeOK
  <2>3. CASE runTask(t)
    <3>1. UNCHANGED <<alive, late, loop, guaranteeToRun>>
      BY <2>3 DEF runTask, config
    <3>2. alive /\ ~late
      BY <2>3 DEF runTask, SingleRun, InRun
    <3>3. \A u \in LoopThreads : InLeft(u)' => InLeft(u)
      BY <2>3 DEF runTask, StrandTypeOK
    <3> QED
      BY <3>1, <3>2, <3>3
  <2>4. CASE runTaskDone(t)
    BY <2>4 DEF runTaskDone, config, StrandTypeOK
  <2>5. CASE runRepost(t)
    <3>1. /\ UNCHANGED <<alive, late, overtaken, guaranteeToRun>>
          /\ loop' = Append(loop, "run")
      BY <2>5 DEF runRepost, config
    <3>2. \A u \in LoopThreads : InLeft(u)' => InLeft(u)
      BY <2>5 DEF runRepost, StrandTypeOK
    <3> QED
      BY <3>1, <3>2, LoopAppend
  <2>6. CASE leftEnter(t)
    <3>1. /\ UNCHANGED <<alive, late, overtaken, guaranteeToRun>>
          /\ loop' = Tail(loop) /\ loop # <<>> /\ loop[1] = "left"
      BY <2>6, LoopTail DEF leftEnter, config
    <3>2. \A i, j \in 1..Len(loop') :
            i < j /\ loop'[i] = "left" /\ loop'[j] = "other" => late'
      BY <3>1, LoopTail
    <3>3. OtherWaits' => late'
      BY <3>1, LoopTail
    <3> QED
      BY <3>1, <3>2, <3>3
  <2>7. CASE leftNext(t)
    <3>1. UNCHANGED <<alive, late, loop, guaranteeToRun>> /\ InLeft(t)
      BY <2>7 DEF leftNext, config
    <3>2. \A u \in LoopThreads : InLeft(u)' => InLeft(u)
      BY <2>7 DEF leftNext, StrandTypeOK
    <3>3. overtaken' = overtaken \/ guaranteeToRun
      BY <2>7 DEF leftNext, SingleLeft
    <3> QED
      BY <3>1, <3>2, <3>3
  <2>8. CASE leftTaskDone(t)
    BY <2>8 DEF leftTaskDone, config, StrandTypeOK
  <2>9. CASE runOther(t)
    BY <2>9, LoopTail DEF runOther, config
  <2> QED
    BY <1>4, <2>1, <2>2, <2>3, <2>4, <2>5, <2>6, <2>7, <2>8, <2>9
       DEF LoopThreadStep
<1>5. CASE UNCHANGED strandVars
  BY <1>5 DEF strandVars, config
<1> QED
  BY <1>1, <1>2, <1>3, <1>4, <1>5 DEF StrandNext

-----------------------------------------------------------------------------
(* A strand that was just constructed satisfies the invariant.             *)
LEMMA InitInvariant == StrandInit => IInv
<1> SUFFICES ASSUME StrandInit PROVE IInv
  OBVIOUS
<1> USE DEF StrandInit
<1>1. StrandTypeOK
  <2>1. maxInARow \in Nat \ {0}
    BY DEF UsefulMaxInARow
  <2> QED
    <3>1. doing \in [LoopThreads -> Doings] /\ counter \in [LoopThreads -> Nat]
      BY DEF Doings
    <3>2. tasksRunning \in BOOLEAN /\ alive \in BOOLEAN /\ late \in BOOLEAN
      OBVIOUS
    <3> QED
      BY <2>1, <3>1, <3>2 DEF StrandTypeOK
<1>2. SingleRun
  BY DEF SingleRun, Unique, Pending, InRun
<1>3. SingleLeft
  BY DEF SingleLeft, Unique, Pending, InLeft
<1>4. InPostingOrder
  BY DEF InPostingOrder, Running
<1>5. RunShare
  BY <1>1 DEF RunShare, StrandTypeOK, InRun
<1>6. LeftShare
  BY DEF LeftShare, InLeft
<1> QED
  BY <1>1, <1>2, <1>3, <1>4, <1>5, <1>6 DEF IInv

(* The inductive invariant of the strand.                                  *)
THEOREM StrandInvariance == StrandSpec => []IInv
<1>1. IInv /\ [StrandNext]_strandVars => IInv'
  BY StrandTypeStep, SingleRunStep, SingleLeftStep, OrderStep, RunShareStep,
     LeftShareStep
     DEF IInv
<1> QED
  BY <1>1, InitInvariant, PTL DEF StrandSpec

(* The members of the strand and the event loop stay well typed; in        *)
(* particular m_maxInARow is never zero, whatever the configuration says.  *)
THEOREM StrandTypeCorrect == StrandSpec => []StrandTypeOK
<1>1. IInv => StrandTypeOK
  BY DEF IInv
<1> QED
  BY <1>1, StrandInvariance, PTL

(* Handlers of one strand never execute concurrently, on any number of     *)
(* event loop threads.                                                     *)
THEOREM MutualExclusion == StrandSpec => []OneAtATime
<1>1. IInv => OneAtATime
  BY DEF IInv, OneAtATime, Executing, SingleRun, SingleLeft, InRun, InLeft
<1> QED
  BY <1>1, StrandInvariance, PTL

(* m_tasksRunning never hides waiting handlers: Strand::post may rely on   *)
(* it to decide whether run() must be posted.                              *)
THEOREM WakeUps == StrandSpec => []NoLostWakeUp
<1>1. IInv => NoLostWakeUp
  BY DEF IInv, NoLostWakeUp, SingleRun, SingleLeft, Pending, InLeft
<1> QED
  BY <1>1, StrandInvariance, PTL

(* Handlers execute in the order of posting and none is skipped, for any   *)
(* number of posts.                                                        *)
THEOREM PostingOrder == StrandSpec => []InPostingOrder
<1>1. IInv => InPostingOrder
  BY DEF IInv
<1> QED
  BY <1>1, StrandInvariance, PTL

(* A foreign function posted while the strand lives waits for at most      *)
(* maxInARow handlers of the strand, the ones that the lambda of ~Strand   *)
(* executes included; one posted later waits for none without              *)
(* guaranteeToRun.                                                         *)
THEOREM ControlReturns == StrandSpec => []GivesControlBack
<1>1. IInv => GivesControlBack
  BY DEF IInv, GivesControlBack, RunShare, LeftShare
<1> QED
  BY <1>1, StrandInvariance, PTL

-----------------------------------------------------------------------------
(* Every step of the strand is a step of the serial executor or leaves it  *)
(* alone.                                                                  *)
LEMMA ExecutorStep ==
    IInv /\ IInv' /\ [StrandNext]_strandVars => [Executor!Next]_(Executor!vars)
<1> SUFFICES ASSUME IInv, IInv', [StrandNext]_strandVars
             PROVE  \/ Executor!Submit \/ Executor!Begin
                    \/ Executor!Finish \/ Executor!Close
                    \/ UNCHANGED <<posted, finished, Due, Busy, alive>>
  BY DEF Executor!Next, Executor!vars
<1> USE DEF IInv
<1>1. CASE post
  <2>1. /\ alive /\ posted' = posted + 1
        /\ UNCHANGED <<finished, alive, doing>>
    BY <1>1 DEF post
  <2>2. Due' = posted + 1 /\ Busy' = Busy
    BY <2>1 DEF Due, Busy, Executing
  <2> QED
    BY <2>1, <2>2 DEF Executor!Submit
<1>2. CASE destruct
  <2>1. /\ alive /\ alive' = FALSE
        /\ UNCHANGED <<posted, finished, doing, guaranteeToRun>>
        /\ \A t \in LoopThreads : ~InRun(t)
    BY <1>2 DEF destruct, config
  <2>2. ~Busy /\ Busy' = Busy
    BY <2>1 DEF Busy, Executing, InRun, SingleLeft, InLeft
  <2>3. Due' = Due \/ Due' = finished
    BY <2>1 DEF Due
  <2> QED
    BY <2>1, <2>2, <2>3 DEF Executor!Close
<1>3. CASE postOther
  BY <1>3 DEF postOther, config, Due, Busy, Executing
<1>4. ASSUME NEW t \in LoopThreads, LoopThreadStep(t)
      PROVE  \/ Executor!Begin \/ Executor!Finish
             \/ UNCHANGED <<posted, finished, Due, Busy, alive>>
  <2>1. CASE runEnter(t)
    <3>1. UNCHANGED <<posted, finished, alive, guaranteeToRun>>
      BY <2>1 DEF runEnter, config
    <3>2. doing' = doing \/ (doing[t] = "idle" /\ doing' = [doing EXCEPT ![t] = "next"])
      BY <2>1 DEF runEnter
    <3>3. \A u \in LoopThreads : Executing(u) <=> Executing(u)'
      BY <3>2 DEF Executing, StrandTypeOK
    <3> QED
      BY <3>1, <3>3 DEF Due, Busy
  <2>2. CASE runEmpty(t)
    BY <2>2 DEF runEmpty, config, Due, Busy, Executing, StrandTypeOK
  <2>3. CASE runTask(t)
    <3>1. /\ UNCHANGED <<posted, finished, alive, guaranteeToRun>>
          /\ tasks # <<>> /\ alive
      BY <2>3 DEF runTask, config, SingleRun
    <3>2. ~Busy /\ Running = 0
      BY <2>3, <3>1
         DEF runTask, Busy, Running, Executing, InRun, SingleRun, SingleLeft,
             InLeft
    <3>3. Busy' = TRUE
      BY <2>3 DEF runTask, Busy, Executing, StrandTypeOK
    <3>4. Len(tasks) \in Nat \ {0}
      BY <3>1, TailFacts DEF StrandTypeOK
    <3>5. finished < Due /\ Due' = Due
      <4>1. posted = finished + Running + Len(tasks)
        BY <3>1 DEF InPostingOrder
      <4> QED
        BY <3>1, <3>2, <3>4, <4>1 DEF Due, StrandTypeOK
    <3> QED
      BY <3>1, <3>2, <3>3, <3>5 DEF Executor!Begin
  <2>4. CASE runTaskDone(t)
    <3>1. /\ UNCHANGED <<posted, alive, guaranteeToRun>>
          /\ alive /\ finished' = finished + 1
      BY <2>4 DEF runTaskDone, config, SingleRun, InRun
    <3>2. Busy /\ Busy' = FALSE
      BY <2>4, <3>1
         DEF runTaskDone, Busy, Executing, StrandTypeOK, InRun, SingleRun,
             SingleLeft, InLeft
    <3> QED
      BY <3>1, <3>2 DEF Executor!Finish, Due
  <2>5. CASE runRepost(t)
    BY <2>5 DEF runRepost, config, Due, Busy, Executing, StrandTypeOK
  <2>6. CASE leftEnter(t)
    BY <2>6 DEF leftEnter, config, Due, Busy, Executing, StrandTypeOK
  <2>7. CASE leftNext(t)
    <3>1. /\ UNCHANGED <<posted, finished, alive, guaranteeToRun, left>>
          /\ ~alive
      BY <2>7 DEF leftNext, config, SingleLeft, InLeft
    <3>2. CASE left = <<>>
      <4>1. doing' = [doing EXCEPT ![t] = "idle"] /\ doing[t] = "leftNext"
        BY <2>7, <3>2 DEF leftNext
      <4>2. \A u \in LoopThreads : Executing(u) <=> Executing(u)'
        BY <4>1 DEF Executing, StrandTypeOK
      <4> QED
        BY <3>1, <4>2 DEF Due, Busy
    <3>3. CASE left # <<>>
      <4>1. doing' = [doing EXCEPT ![t] = "leftTask"] /\ doing[t] = "leftNext"
        BY <2>7, <3>3 DEF leftNext
      <4>2. ~Busy
        BY <3>1, <4>1
           DEF Busy, Executing, InRun, SingleRun, SingleLeft, InLeft
      <4>3. Busy' = TRUE
        BY <4>1 DEF Busy, Executing, StrandTypeOK
      <4>4. guaranteeToRun /\ Len(left) \in Nat \ {0}
        BY <3>3, TailFacts DEF SingleLeft, StrandTypeOK
      <4>5. posted = finished + Len(left)
        BY <3>1, <4>4 DEF InPostingOrder
      <4>6. Due = posted /\ Due' = Due
        BY <3>1, <4>4 DEF Due
      <4> QED
        <5>1. finished < Due
          BY <4>4, <4>5, <4>6 DEF StrandTypeOK
        <5> QED
          BY <3>1, <4>2, <4>3, <4>6, <5>1 DEF Executor!Begin
    <3> QED
      BY <3>2, <3>3
  <2>8. CASE leftTaskDone(t)
    <3>1. /\ UNCHANGED <<posted, alive, guaranteeToRun>>
          /\ ~alive /\ finished' = finished + 1 /\ guaranteeToRun
      BY <2>8 DEF leftTaskDone, config, SingleLeft, InLeft
    <3>2. Busy /\ Busy' = FALSE
      BY <2>8, <3>1
         DEF leftTaskDone, Busy, Executing, StrandTypeOK, InRun, SingleRun,
             SingleLeft, InLeft
    <3>3. Due' = Due
      BY <3>1 DEF Due
    <3> QED
      BY <3>1, <3>2, <3>3 DEF Executor!Finish
  <2>9. CASE runOther(t)
    BY <2>9 DEF runOther, config, Due, Busy, Executing
  <2> QED
    BY <1>4, <2>1, <2>2, <2>3, <2>4, <2>5, <2>6, <2>7, <2>8, <2>9
       DEF LoopThreadStep
<1>5. CASE UNCHANGED strandVars
  BY <1>5 DEF strandVars, config, Due, Busy, Executing
<1> QED
  BY <1>1, <1>2, <1>3, <1>4, <1>5 DEF StrandNext

(* Strand.cc implements the serial executor that Strand.hh promises, for   *)
(* any number of threads and handlers and any value of "maxInARow".        *)
THEOREM Refinement == StrandSpec => ImplementsExecutor
<1>1. StrandInit => Executor!Init
  BY DEF StrandInit, Executor!Init, Due, Busy, Executing
<1> QED
  BY <1>1, ExecutorStep, StrandInvariance, PTL
     DEF StrandSpec, ImplementsExecutor, Executor!Spec
=============================================================================
