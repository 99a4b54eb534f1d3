------------------------------- MODULE Strand -------------------------------
(***************************************************************************)
(* karabo::net::Strand (net/Strand.cc): a FIFO of handlers emptied by      *)
(* "run", which is itself posted to the io_context of the event loop and   *)
(* executed by any of its threads.  m_tasksMutex is held while m_tasks and *)
(* m_tasksRunning are touched, so post() and each critical section of      *)
(* run() is one action; the handler itself executes outside the mutex and  *)
(* has a beginning and an end.                                             *)
(*                                                                         *)
(* A handler is identified with its position in the order of posting.  The *)
(* io_context (external) is a FIFO of pending functions:                   *)
(*   "run"    bind_weak(&Strand::run, this)                                *)
(*   "left"   the lambda that ~Strand posts for the handlers left over     *)
(*   "other"  a function of somebody else that shares the event loop       *)
(***************************************************************************)
EXTENDS Naturals, Sequences

CONSTANTS
    LoopThreads,      \* threads that call io_context::run()
    MaxInARowConfigs, \* values of "maxInARow" a strand may be created with
    MaxPosts,         \* bound: number of handlers ever posted
    MaxOthers         \* bound: number of foreign functions posted

ASSUME ConfigAssumption == MaxInARowConfigs \subseteq Nat
ASSUME PostsAssumption == MaxPosts \in Nat
ASSUME OthersAssumption == MaxOthers \in Nat

VARIABLES
    tasks,          \* m_tasks
    tasksRunning,   \* m_tasksRunning
    maxInARow,      \* m_maxInARow
    guaranteeToRun, \* m_guaranteeToRun
    alive,          \* the strand is not destructed
    left,           \* the handlers captured by the lambda of the destructor
    loop,           \* functions pending in the io_context
    doing,          \* what each thread executes
    counter,        \* the local variable "counter" of run()
    posted,         \* history: number of handlers posted
    finished,       \* history: number of handlers that have finished
    others,         \* number of foreign functions posted
    late,           \* history: the last of them was posted after ~Strand
    overtaken       \* history: handlers of the strand begun while it waits

config == <<maxInARow, guaranteeToRun>>
strandVars == <<tasks, tasksRunning, config, alive, left, loop, doing, counter,
          posted, finished, others, late, overtaken>>

-----------------------------------------------------------------------------
(* A thread is idle, at the top of the while loop of run() ("next"), in a  *)
(* handler called by run() ("task"), at the top of the loop of the lambda  *)
(* ("leftNext") or in a handler called by the lambda ("leftTask").         *)
Doings == {"idle", "next", "task", "leftNext", "leftTask"}
LoopFunctions == {"run", "left", "other"}

InRun(t) == doing[t] \in {"next", "task"}
Executing(t) == doing[t] \in {"task", "leftTask"}
OtherWaits == \E i \in 1..Len(loop) : loop[i] = "other"

(* A plausible slip: the configured value is taken as it is.               *)
MaxInARowAsGiven(cfg) == cfg

UsefulMaxInARow(cfg) == IF cfg = 0 THEN 1 ELSE cfg

(* Strand::Strand(const Hash& cfg)                                         *)
StrandInit ==
    /\ tasks = <<>>
    /\ tasksRunning = FALSE
    /\ maxInARow \in {UsefulMaxInARow(cfg) : cfg \in MaxInARowConfigs}
    /\ guaranteeToRun \in BOOLEAN
    /\ alive = TRUE
    /\ left = <<>>
    /\ loop = <<>>
    /\ doing = [t \in LoopThreads |-> "idle"]
    /\ counter = [t \in LoopThreads |-> 0]
    /\ posted = 0
    /\ finished = 0
    /\ others = 0
    /\ late = FALSE
    /\ overtaken = 0

-----------------------------------------------------------------------------
(* A plausible slip: m_tasksRunning is not raised.                         *)
startRunningAlways ==
    /\ loop' = Append(loop, "run")
    /\ UNCHANGED tasksRunning

startRunningIfNeeded ==
    IF ~tasksRunning
      THEN /\ tasksRunning' = TRUE
           /\ loop' = Append(loop, "run")
      ELSE UNCHANGED <<tasksRunning, loop>>

(* Strand::post, also reached from a handler returned by Strand::wrap,     *)
(* which does nothing (bind_weak) once the strand is gone.                 *)
post ==
    /\ alive
    /\ posted < MaxPosts
    /\ posted' = posted + 1
    /\ tasks' = Append(tasks, posted + 1)
    /\ startRunningIfNeeded
    /\ UNCHANGED <<config, alive, left, doing, counter, finished, others, late,
                   overtaken>>

(* A thread takes "run" from the io_context.  bind_weak locks a weak       *)
(* pointer: nothing is called if the strand is gone; otherwise the strand  *)
(* is kept alive until run() returns.                                      *)
runEnter(t) ==
    /\ doing[t] = "idle"
    /\ loop # <<>>
    /\ Head(loop) = "run"
    /\ loop' = Tail(loop)
    /\ IF alive
         THEN /\ doing' = [doing EXCEPT ![t] = "next"]
              /\ counter' = [counter EXCEPT ![t] = 0]
         ELSE UNCHANGED <<doing, counter>>
    /\ UNCHANGED <<tasks, tasksRunning, config, alive, left, posted,
                   finished, others, late, overtaken>>

(* A plausible slip: counter++ <= m_maxInARow.                             *)
MayContinueOnceMore(t) == counter[t] <= maxInARow

(* ++counter <= m_maxInARow                                                *)
MayContinue(t) == counter[t] + 1 <= maxInARow

(* A plausible slip: run() returns but leaves m_tasksRunning raised.       *)
StopRunningForgotten == UNCHANGED tasksRunning

StopRunning == tasksRunning' = FALSE

(* m_tasks is empty: stop running.                                         *)
runEmpty(t) ==
    /\ doing[t] = "next"
    /\ MayContinue(t)
    /\ tasks = <<>>
    /\ StopRunning
    /\ doing' = [doing EXCEPT ![t] = "idle"]
    /\ counter' = [counter EXCEPT ![t] = 0]
    /\ UNCHANGED <<tasks, config, alive, left, loop, posted, finished,
                   others, late, overtaken>>

(* A handler of the strand begins: does a foreign function wait for it?    *)
CountOvertaking ==
    overtaken' = IF OtherWaits THEN overtaken + 1 ELSE overtaken

(* There is a task: take it from the queue and start it.                   *)
runTask(t) ==
    /\ doing[t] = "next"
    /\ MayContinue(t)
    /\ tasks # <<>>
    /\ tasks' = Tail(tasks)
    /\ doing' = [doing EXCEPT ![t] = "task"]
    /\ counter' = [counter EXCEPT ![t] = @ + 1]
    /\ CountOvertaking
    /\ UNCHANGED <<tasksRunning, config, alive, left, loop, posted,
                   finished, others, late>>

(* The task returns or throws a std::exception, which run() swallows.      *)
runTaskDone(t) ==
    /\ doing[t] = "task"
    /\ doing' = [doing EXCEPT ![t] = "next"]
    /\ finished' = finished + 1
    /\ UNCHANGED <<tasks, tasksRunning, config, alive, left, loop, counter,
                   posted, others, late, overtaken>>

(* maxInARow tasks were run: give control back to the event loop.          *)
runRepost(t) ==
    /\ doing[t] = "next"
    /\ ~MayContinue(t)
    /\ loop' = Append(loop, "run")
    /\ doing' = [doing EXCEPT ![t] = "idle"]
    /\ counter' = [counter EXCEPT ![t] = 0]
    /\ UNCHANGED <<tasks, tasksRunning, config, alive, left, posted,
                   finished, others, late, overtaken>>

-----------------------------------------------------------------------------
(* Plausible slips: the destructor forgets what was promised, or ignores   *)
(* that nothing was promised.                                              *)
LeftOverNever == <<>>
LeftOverAlways == tasks

(* The handlers that the destructor keeps.                                 *)
LeftOver == IF guaranteeToRun THEN tasks ELSE <<>>

(* Strand::~Strand: the last shared pointer is gone, so no run() is active *)
destruct ==
    /\ alive
    /\ \A t \in LoopThreads : ~InRun(t)
    /\ alive' = FALSE
    /\ tasks' = <<>>
    /\ IF LeftOver # <<>>
         THEN /\ left' = LeftOver
              /\ loop' = Append(loop, "left")
         ELSE UNCHANGED <<left, loop>>
    /\ UNCHANGED <<tasksRunning, config, doing, counter, posted, finished,
                   others, late, overtaken>>

(* A thread takes the lambda "runTasks" of the destructor.                 *)
leftEnter(t) ==
    /\ doing[t] = "idle"
    /\ loop # <<>>
    /\ Head(loop) = "left"
    /\ loop' = Tail(loop)
    /\ doing' = [doing EXCEPT ![t] = "leftNext"]
    /\ UNCHANGED <<tasks, tasksRunning, config, alive, left, counter, posted,
                   finished, others, late, overtaken>>

(* while (!tasks.empty()): call tasks.front() or return.                   *)
leftNext(t) ==
    /\ doing[t] = "leftNext"
    /\ IF left = <<>>
         THEN /\ doing' = [doing EXCEPT ![t] = "idle"]
              /\ UNCHANGED overtaken
         ELSE /\ doing' = [doing EXCEPT ![t] = "leftTask"]
              /\ CountOvertaking
    /\ UNCHANGED <<tasks, tasksRunning, config, alive, left, loop, counter,
                   posted, finished, others, late>>

(* tasks.front()() is over; tasks.pop().                                   *)
leftTaskDone(t) ==
    /\ doing[t] = "leftTask"
    /\ left' = Tail(left)
    /\ doing' = [doing EXCEPT ![t] = "leftNext"]
    /\ finished' = finished + 1
    /\ UNCHANGED <<tasks, tasksRunning, config, alive, loop, counter, posted,
                   others, late, overtaken>>

-----------------------------------------------------------------------------
(* Somebody else uses the same event loop (one function pending at a time) *)
postOther ==
    /\ others < MaxOthers
    /\ ~OtherWaits
    /\ others' = others + 1
    /\ loop' = Append(loop, "other")
    /\ late' = ~alive
    /\ overtaken' = 0
    /\ UNCHANGED <<tasks, tasksRunning, config, alive, left, doing, counter,
                   posted, finished>>

runOther(t) ==
    /\ doing[t] = "idle"
    /\ loop # <<>>
    /\ Head(loop) = "other"
    /\ loop' = Tail(loop)
    /\ UNCHANGED <<tasks, tasksRunning, config, alive, left, doing, counter,
                   posted, finished, others, late, overtaken>>

LoopThreadStep(t) ==
    \/ runEnter(t)
    \/ runEmpty(t)
    \/ runTask(t)
    \/ runTaskDone(t)
    \/ runRepost(t)
    \/ leftEnter(t)
    \/ leftNext(t)
    \/ leftTaskDone(t)
    \/ runOther(t)

StrandNext ==
    \/ post
    \/ destruct
    \/ postOther
    \/ \E t \in LoopThreads : LoopThreadStep(t)

(* The threads of the event loop keep serving the io_context; nobody is    *)
(* obliged to post, or to destroy the strand.                              *)
StrandSpec ==
    /\ StrandInit
    /\ [][StrandNext]_strandVars
    /\ \A t \in LoopThreads : WF_strandVars(LoopThreadStep(t))

-----------------------------------------------------------------------------
(* Every variable has its type; m_maxInARow is at least 1, also if the     *)
(* strand was configured with 0, for which run() would post itself forever.*)
StrandTypeOK ==
    /\ tasks \in Seq(1..MaxPosts)
    /\ tasksRunning \in BOOLEAN
    /\ maxInARow \in Nat \ {0}
    /\ guaranteeToRun \in BOOLEAN
    /\ alive \in BOOLEAN
    /\ left \in Seq(1..MaxPosts)
    /\ loop \in Seq(LoopFunctions)
    /\ doing \in [LoopThreads -> Doings]
    /\ counter \in [LoopThreads -> Nat]
    /\ posted \in 0..MaxPosts
    /\ finished \in Nat
    /\ others \in 0..MaxOthers
    /\ late \in BOOLEAN
    /\ overtaken \in Nat

(* No two handlers posted to one strand ever execute at the same time, on  *)
(* whatever threads the event loop runs them, and also not across the      *)
(* destruction of the strand.                                              *)
OneAtATime ==
    \A t, u \in LoopThreads : Executing(t) /\ Executing(u) => t = u

(* No lost wake-up: while there are handlers in m_tasks, run() is pending  *)
(* in the io_context or active in a thread that will look at m_tasks       *)
(* again; left-over handlers of a dead strand have their lambda.           *)
NoLostWakeUp ==
    /\ tasks # <<>> =>
          \/ \E i \in 1..Len(loop) : loop[i] = "run"
          \/ \E t \in LoopThreads : InRun(t)
    /\ left # <<>> =>
          \/ \E i \in 1..Len(loop) : loop[i] = "left"
          \/ \E t \in LoopThreads : doing[t] \in {"leftNext", "leftTask"}

(* "Up to this number of handlers are run in a row before control is given *)
(* back to the event loop" (Strand::expectedParameters): a foreign         *)
(* function posted to the io_context while the strand lives is overtaken   *)
(* by at most maxInARow handlers of the strand - by run() or by the lambda *)
(* of the destructor - even if only one thread serves the loop.  A         *)
(* function posted after the destruction is overtaken by none unless       *)
(* guaranteeToRun is set.  Exception: with guaranteeToRun the lambda runs  *)
(* all handlers that are left without giving control back, so a function   *)
(* posted after ~Strand posted it may be overtaken by more than maxInARow. *)
GivesControlBack ==
    IF late THEN guaranteeToRun \/ overtaken = 0
            ELSE overtaken <= maxInARow

(* A strand that is alive or was created with guaranteeToRun owes all that *)
(* was posted to it, otherwise only what is being executed.                *)
Due == IF alive \/ guaranteeToRun THEN posted ELSE finished

Busy == \E t \in LoopThreads : Executing(t)

Executor ==
    INSTANCE SerialExecutor WITH
        submitted <- posted,
        completed <- finished,
        due <- Due,
        busy <- Busy,
        open <- alive

(* The strand is a serial executor: handlers run one at a time, in the     *)
(* order of posting, none is skipped, and the destructor keeps all of them *)
(* or drops all that have not started.                                     *)
ImplementsExecutor == Executor!Spec

(* 1 while run() executes a handler, which is then no more in m_tasks.     *)
Running == IF \E t \in LoopThreads : doing[t] = "task" THEN 1 ELSE 0

(* The handler executed or executed next is always the oldest unfinished   *)
(* one: it "is not executed before any other handler posted before has     *)
(* finished" (Strand.hh, post), and none of those owed is missing.         *)
InPostingOrder ==
    /\ \A i \in 1..Len(tasks) : tasks[i] = finished + Running + i
    /\ \A i \in 1..Len(left) : left[i] = finished + i
    /\ alive => posted = finished + Running + Len(tasks)
    /\ ~alive /\ guaranteeToRun => posted = finished + Len(left)

(* The strengthening that makes the safety properties inductive.           *)
(* SingleRun: "run" is pending at most once or active in one thread, never *)
(* both; m_tasksRunning tells exactly that while the strand lives.         *)
InLeft(t) == doing[t] \in {"leftNext", "leftTask"}
Pending(job) == \E i \in 1..Len(loop) : loop[i] = job
Unique(job) ==
    \A i, j \in 1..Len(loop) : loop[i] = job /\ loop[j] = job => i = j

SingleRun ==
    /\ Unique("run")
    /\ Pending("run") => \A t \in LoopThreads : ~InRun(t)
    /\ \A t, u \in LoopThreads : InRun(t) /\ InRun(u) => t = u
    /\ Pending("run") => tasksRunning
    /\ \A t \in LoopThreads : InRun(t) => tasksRunning /\ alive
    /\ alive /\ tasksRunning => Pending("run") \/ \E t \in LoopThreads : InRun(t)
    /\ tasks # <<>> => tasksRunning /\ alive

(* SingleLeft: the same for the lambda posted by the destructor.           *)
SingleLeft ==
    /\ Unique("left")
    /\ Pending("left") => \A t \in LoopThreads : ~InLeft(t)
    /\ \A t, u \in LoopThreads : InLeft(t) /\ InLeft(u) => t = u
    /\ Pending("left") => ~alive
    /\ \A t \in LoopThreads : InLeft(t) => ~alive
    /\ \A t \in LoopThreads : doing[t] = "leftTask" => left # <<>>
    /\ left # <<>> => guaranteeToRun
    /\ left # <<>> => ~alive /\ (Pending("left") \/ \E t \in LoopThreads : InLeft(t))

(* RunShare: what run() may still overtake a waiting foreign function by.  *)
RunShare ==
    /\ \A t \in LoopThreads : counter[t] <= maxInARow
    /\ \A t \in LoopThreads : InRun(t) /\ OtherWaits => overtaken <= counter[t]
    /\ \A i, j \in 1..Len(loop) :
          i < j /\ loop[i] = "run" /\ loop[j] = "other" => late \/ overtaken = 0
    /\ late \/ overtaken <= maxInARow

(* LeftShare: the lambda of the destructor is queued behind each foreign   *)
(* function that was posted while the strand lived, and overtakes none.    *)
LeftShare ==
    /\ late => ~alive
    /\ \A t \in LoopThreads : InLeft(t) /\ OtherWaits => late
    /\ \A i, j \in 1..Len(loop) :
          i < j /\ loop[i] = "left" /\ loop[j] = "other" => late
    /\ late => guaranteeToRun \/ overtaken = 0

(* The inductive invariant.                                                *)
IInv ==
    /\ StrandTypeOK
    /\ SingleRun
    /\ SingleLeft
    /\ InPostingOrder
    /\ RunShare
    /\ LeftShare

(* Every handler posted to a strand that lives on, or that guarantees to   *)
(* run its handlers, is executed, however the threads interleave.          *)
EveryHandlerRuns ==
    \A k \in 1..MaxPosts :
        posted >= k ~> (finished >= k \/ (~alive /\ ~guaranteeToRun))
=============================================================================
