---------------------------- MODULE AsyncWorker ----------------------------
(***************************************************************************)
(* The execution lock, the function frames and the owned async worker of   *)
(* one Interpreter (src/src/interpreter.cpp), with the threads that share  *)
(* them: embedding clients, the WebSocket event loop, and the worker.      *)
(*                                                                         *)
(* Every critical section of asyncMutex and of functionCallMutex contains  *)
(* no other acquisition and is one atomic step here.  What happens under   *)
(* executionMutex is split into steps, because asyncMutex is taken and     *)
(* released between them.  The condition variable is the set `sleepers':   *)
(* a thread that finds its predicate false sleeps until a notify_all.      *)
(*                                                                         *)
(* Histories, not in the code: admitted, log, received, faults, calls.     *)
(***************************************************************************)
EXTENDS Integers, Sequences, FiniteSets

CONSTANTS
  Clients,     \* threads that call the public API and may wait or destroy
  Handlers,    \* event-loop threads: {} headless, one when startWebSocket
  Worker,      \* the thread of asyncWorker
  NoThread,    \* executionMutex or functionCallOwner without an owner
  MaxDepth,    \* the recursion limit, 128 in the code
  MaxTasks,    \* bound: tasks ever admitted (the finite task graph)
  MaxCalls,    \* bound: public calls, waits and callbacks ever started
  MaxResets,   \* bound: resets and reloads
  MaxFrames    \* bound: function entries and statement errors per lock hold

Callers == Clients \cup Handlers
Threads == Callers \cup {Worker}

ASSUME ThreadsAssumption ==
  /\ Worker \notin Callers
  /\ NoThread \notin Threads
  /\ Clients \cap Handlers = {}

ASSUME BoundsAssumption ==
  /\ MaxDepth \in Nat \ {0}
  /\ MaxTasks \in Nat /\ MaxCalls \in Nat
  /\ MaxResets \in Nat /\ MaxFrames \in Nat

VARIABLES
  lock,        \* owner of executionMutex
  depth,       \* functionCallDepth
  frameOwner,  \* functionCallOwner
  budget,      \* what is left of MaxFrames in this lock hold
  generation,  \* asyncGeneration
  queue,       \* asyncTasks
  running,     \* asyncRunning
  stopping,    \* asyncStopping
  errors,      \* asyncErrors, each as the id of the task that reported it
  sleepers,    \* threads blocked in asyncCondition.wait
  cur,         \* the task the worker has popped, or the last one
  ran,         \* whether cur has entered user code
  pc,          \* where each thread is
  phase,       \* how far ~Interpreter has come
  calls, admitted, log, received, faults

lockVars   == <<lock, depth, frameOwner, budget>>
queueVars  == <<queue, running, errors, cur, ran>>
lifeVars   == <<stopping, phase>>
histVars   == <<calls, admitted, log, received, faults>>
vars == <<lockVars, generation, queueVars, lifeVars, sleepers, pc, histVars>>

Task == [id : Nat, gen : Nat]
NoTask == [id |-> 0, gen |-> 0]

CallerPC == {"idle", "acquire", "body", "unwound", "waiting", "destroying",
             "exited"}
WorkerPC == {"off", "ready", "acquire", "check", "body", "unwound",
             "released", "notify", "exited"}
Phase == {"alive", "closing", "draining", "joined", "stopped", "dead",
          "aborted"}

Init ==
  /\ lock = NoThread /\ depth = 0 /\ frameOwner = NoThread /\ budget = 0
  /\ generation = 0
  /\ queue = <<>> /\ running = FALSE /\ errors = <<>> /\ cur = NoTask
  /\ ran = FALSE
  /\ stopping = FALSE /\ phase = "alive"
  /\ sleepers = {}
  /\ pc = [t \in Threads |-> IF t = Worker THEN "off" ELSE "idle"]
  /\ calls = 0 /\ admitted = 0 /\ log = <<>> /\ received = <<>> /\ faults = 0

Goto(t, where) == pc' = [pc EXCEPT ![t] = where]

\* MUTANT: a notification is missing.
NotifyNobody == UNCHANGED sleepers

NotifyAll == sleepers' = {}

-----------------------------------------------------------------------------
(* The execution lock: any public operation, adapter handler or callback.  *)

\* Embedders coordinate object lifetime: no client calls once destruction
\* began.  The event loop keeps delivering until it is stopped.
MayCall(t) == IF t \in Clients THEN phase = "alive"
                               ELSE phase \notin {"stopped", "dead"}

StartCall(t) ==
  /\ t \in Callers /\ pc[t] = "idle" /\ MayCall(t) /\ calls < MaxCalls
  /\ Goto(t, "acquire")
  /\ calls' = calls + 1
  /\ UNCHANGED <<lockVars, generation, queueVars, lifeVars, sleepers,
                 admitted, log, received, faults>>

LockFree == lock = NoThread

Acquire(t) ==
  /\ pc[t] = "acquire" /\ LockFree
  /\ lock' = t /\ budget' = MaxFrames
  /\ Goto(t, IF t = Worker THEN "check" ELSE "body")
  /\ UNCHANGED <<depth, frameOwner, generation, queueVars, lifeVars,
                 sleepers, histVars>>

\* The guard object's destructor, at the end of the call or while an
\* exception leaves it.
Release(t) ==
  /\ pc[t] \in {"body", "unwound"} /\ depth = 0 /\ lock = t
  /\ lock' = NoThread /\ budget' = 0
  /\ Goto(t, IF t = Worker THEN "released" ELSE "idle")
  /\ UNCHANGED <<depth, frameOwner, generation, queueVars, lifeVars,
                 sleepers, histVars>>

-----------------------------------------------------------------------------
(* Function frames (FunctionCallFrame) and what user code can do in them.  *)

\* handleError: only while executingAsyncInterpreter is this interpreter,
\* that is on the worker thread, is the error kept for waitForAsync.
HandleError(t) ==
  IF t = Worker
  THEN errors' = Append(errors, cur.id) /\ faults' = faults + 1
  ELSE UNCHANGED <<errors, faults>>

ConcurrentEntry(t) == depth > 0 /\ frameOwner # t

RecursionLimit == depth >= MaxDepth

\* A synchronous call: executeFunction(..., dispatchAsync = false).
EnterFrame(t) ==
  /\ pc[t] = "body" /\ budget > 0
  /\ ~ConcurrentEntry(t) /\ ~RecursionLimit
  /\ depth' = depth + 1 /\ frameOwner' = t /\ budget' = budget - 1
  /\ UNCHANGED <<lock, generation, queueVars, lifeVars, sleepers, pc,
                 histVars>>

\* ~FunctionCallFrame.  A task is over when its outermost frame is left.
LeaveFrame(t) ==
  /\ pc[t] = "body" /\ depth > 0 /\ frameOwner = t
  /\ depth' = depth - 1
  /\ frameOwner' = IF depth = 1 THEN NoThread ELSE t
  /\ Goto(t, IF t = Worker /\ depth = 1 THEN "unwound" ELSE "body")
  /\ UNCHANGED <<lock, budget, generation, queueVars, lifeVars, sleepers,
                 histVars>>

\* A statement of an async task throws: interpretNode and executeFunction
\* report it and execution goes on.
StatementError ==
  /\ pc[Worker] = "body" /\ depth > 0 /\ budget > 0
  /\ budget' = budget - 1
  /\ HandleError(Worker)
  /\ UNCHANGED <<lock, depth, frameOwner, generation, queue, running, cur,
                 ran, lifeVars, sleepers, pc, calls, admitted, log, received>>

\* MUTANT: shutdown does not close admission.
AlwaysAdmit(t) == TRUE

\* Once the destructor has started, only the draining worker admits.
MayAdmit(t) == ~stopping \/ t = Worker

\* enqueueAsync: a call of an async function, with or without a frame.  The
\* first admission starts the worker; joinable() stays true until the join.
Admit(t) ==
  /\ pc[t] = "body" /\ MayAdmit(t) /\ admitted < MaxTasks
  /\ pc' = IF pc[Worker] = "off" /\ ~stopping
           THEN [pc EXCEPT ![Worker] = "ready"] ELSE pc
  /\ queue' = Append(queue, [id |-> admitted + 1, gen |-> generation])
  /\ admitted' = admitted + 1
  /\ NotifyAll
  /\ UNCHANGED <<lockVars, generation, running, errors, cur, ran,
                 lifeVars,
                 calls, log, received, faults>>

\* MUTANT: an active frame does not reject a reset.
ResetAnytime == TRUE

\* rejectReentrantReset.
MayReset == depth = 0

\* reset(), also as the first step of reload(), whose interpret() follows as
\* frames and admissions of the same lock hold.  Permitted to every holder
\* of the recursive lock outside a function frame.
Reset(t) ==
  /\ pc[t] = "body" /\ MayReset /\ generation < MaxResets
  /\ generation' = generation + 1
  /\ UNCHANGED <<lockVars, queueVars, lifeVars, sleepers, pc, histVars>>

\* LocalServerExecutionMutex::heldByCurrentThread on thread t.
HeldBy(t) == lock = t

\* A FunctionCallError leaves every frame of the thread, up to the public call
\* or runAsyncTasks, because the handlers of the interpreter rethrow it.  One
\* that notifySubscribers swallows, on its way out of a subscriber, leaves only
\* the frames above it, as LeaveFrame does one at a time.
RaiseFunctionCallError(t) ==
  /\ pc[t] = "body"
  /\ \/ ConcurrentEntry(t)
     \/ RecursionLimit
     \/ ~MayAdmit(t)
     \/ ~MayReset
     \/ HeldBy(t)             \* waitForAsync from a callback or an adapter
  /\ HandleError(t)
  /\ depth' = 0 /\ frameOwner' = NoThread
  /\ Goto(t, "unwound")
  /\ UNCHANGED <<lock, budget, generation, queue, running, cur, ran, lifeVars,
                 sleepers, calls, admitted, log, received>>

-----------------------------------------------------------------------------
(* The worker: runAsyncTasks.                                              *)

WorkerAwake == pc[Worker] = "ready" /\ Worker \notin sleepers

WorkerSleep ==
  /\ WorkerAwake /\ queue = <<>> /\ ~stopping
  /\ sleepers' = sleepers \cup {Worker}
  /\ UNCHANGED <<lockVars, generation, queueVars, lifeVars, pc, histVars>>

MarkRunning == running' = TRUE

TakeOldest == cur' = Head(queue) /\ queue' = Tail(queue)

WorkerPop ==
  /\ WorkerAwake /\ queue # <<>>
  /\ TakeOldest /\ MarkRunning /\ ran' = FALSE
  /\ Goto(Worker, "acquire")
  /\ UNCHANGED <<lockVars, generation, errors, lifeVars, sleepers, histVars>>

\* MUTANT: a stop request ends the worker before the queue is drained.
StopNow == stopping

MayExit == stopping /\ queue = <<>>

WorkerExit ==
  /\ WorkerAwake /\ MayExit
  /\ Goto(Worker, "exited")
  /\ UNCHANGED <<lockVars, generation, queueVars, lifeVars, sleepers,
                 histVars>>

\* MUTANT: the generation is not compared.
AnyGeneration == TRUE

SameGeneration == cur.gen = generation

\* The task was admitted by a program that a reset has replaced since.
WorkerCancel ==
  /\ pc[Worker] = "check" /\ ~SameGeneration
  /\ HandleError(Worker)
  /\ Goto(Worker, "unwound")
  /\ UNCHANGED <<lockVars, generation, queue, running, cur, ran, lifeVars,
                 sleepers, calls, admitted, log, received>>

\* executeFunction finds the wrong number of arguments, or FunctionCallFrame
\* a frame of another thread: the task fails before any user code.
WorkerRefused ==
  /\ pc[Worker] = "check" /\ SameGeneration
  /\ HandleError(Worker)
  /\ Goto(Worker, "unwound")
  /\ UNCHANGED <<lockVars, generation, queue, running, cur, ran, lifeVars,
                 sleepers, calls, admitted, log, received>>

WorkerEnter ==
  /\ pc[Worker] = "check" /\ SameGeneration
  /\ ~ConcurrentEntry(Worker) /\ ~RecursionLimit
  /\ depth' = depth + 1 /\ frameOwner' = Worker /\ ran' = TRUE
  /\ Goto(Worker, "body")
  /\ UNCHANGED <<lock, budget, generation, queue, running, errors, cur,
                 lifeVars, sleepers, histVars>>

\* Idle is published after the execution lock was released.  The log records
\* that the task is settled and whether it entered user code.
WorkerIdle ==
  /\ pc[Worker] = "released"
  /\ running' = FALSE
  /\ log' = Append(log, [id |-> cur.id, ran |-> ran])
  /\ Goto(Worker, "notify")
  /\ UNCHANGED <<lockVars, generation, queue, errors, cur, ran, lifeVars,
                 sleepers, calls, admitted, received, faults>>

WorkerNotify ==
  /\ pc[Worker] = "notify"
  /\ NotifyAll
  /\ Goto(Worker, "ready")
  /\ UNCHANGED <<lockVars, generation, queueVars, lifeVars, histVars>>

-----------------------------------------------------------------------------
(* waitForAsync.                                                           *)

\* MUTANT: the wait only looks at the queue.
QueueEmpty == queue = <<>>

Quiescent == queue = <<>> /\ ~running

StartWait(c) ==
  /\ c \in Clients /\ pc[c] \in {"idle", "body"} /\ ~HeldBy(c)
  /\ phase = "alive" /\ calls < MaxCalls
  /\ Goto(c, "waiting")
  /\ calls' = calls + 1
  /\ UNCHANGED <<lockVars, generation, queueVars, lifeVars, sleepers,
                 admitted, log, received, faults>>

WaitSleep(c) ==
  /\ c \in Clients /\ pc[c] = "waiting" /\ c \notin sleepers /\ ~Quiescent
  /\ sleepers' = sleepers \cup {c}
  /\ UNCHANGED <<lockVars, generation, queueVars, lifeVars, pc, histVars>>

\* MUTANT: the errors are copied out but not cleared.
CopyErrors == received' = received \o errors /\ UNCHANGED errors

SwapErrors == received' = received \o errors /\ errors' = <<>>

\* The empty observation and the swap of asyncErrors; what was swapped out
\* is thrown to this caller.
WaitReturn(c) ==
  /\ c \in Clients /\ pc[c] = "waiting" /\ c \notin sleepers /\ Quiescent
  /\ SwapErrors
  /\ Goto(c, "idle")
  /\ UNCHANGED <<lockVars, generation, queue, running, cur, ran, lifeVars,
                 sleepers, calls, admitted, log, faults>>

-----------------------------------------------------------------------------
(* ~Interpreter.                                                           *)

\* Embedders destroy when no other client is inside a call.
BeginDestroy(c) ==
  /\ c \in Clients /\ pc[c] \in {"idle", "body"} /\ ~HeldBy(c)
  /\ phase = "alive" /\ \A d \in Clients \ {c} : pc[d] = "idle"
  /\ stopping' = TRUE /\ phase' = "closing"
  /\ Goto(c, "destroying")
  /\ UNCHANGED <<lockVars, generation, queueVars, sleepers, histVars>>

\* std::terminate: destruction by a thread that holds an execution lock.
Abort(t) ==
  /\ pc[t] = "body" /\ HeldBy(t) /\ phase = "alive"
  /\ phase' = "aborted"
  /\ UNCHANGED <<lockVars, generation, queueVars, stopping, sleepers, pc,
                 histVars>>

DestroyNotify ==
  /\ phase = "closing"
  /\ phase' = "draining"
  /\ NotifyAll
  /\ UNCHANGED <<lockVars, generation, queueVars, stopping, pc, histVars>>

JoinWorker ==
  /\ phase = "draining" /\ pc[Worker] \in {"off", "exited"}
  /\ phase' = "joined"
  /\ UNCHANGED <<lockVars, generation, queueVars, stopping, sleepers, pc,
                 histVars>>

\* wsServer->stop(), where there is one.
StopEventLoop ==
  /\ phase = "joined"
  /\ phase' = "stopped"
  /\ UNCHANGED <<lockVars, generation, queueVars, stopping, sleepers, pc,
                 histVars>>

\* wsServer.run() returns between two callbacks.
LeaveEventLoop(h) ==
  /\ h \in Handlers /\ phase = "stopped" /\ pc[h] = "idle"
  /\ Goto(h, "exited")
  /\ UNCHANGED <<lockVars, generation, queueVars, lifeVars, sleepers,
                 histVars>>

\* MUTANT: the event-loop thread is detached instead of joined.
DetachedLoop == TRUE

EventLoopDone == \A h \in Handlers : pc[h] = "exited"

JoinEventLoop ==
  /\ phase = "stopped" /\ EventLoopDone
  /\ phase' = "dead"
  /\ UNCHANGED <<lockVars, generation, queueVars, stopping, sleepers, pc,
                 histVars>>

-----------------------------------------------------------------------------
Finished == phase \in {"dead", "aborted"} /\ UNCHANGED vars

LockStep(t) ==
  \/ StartCall(t) \/ Acquire(t) \/ Release(t)
  \/ EnterFrame(t) \/ LeaveFrame(t) \/ RaiseFunctionCallError(t)
  \/ Admit(t) \/ Reset(t) \/ Abort(t)

\* The worker's own progress, apart from what user code may do.
WorkerLoop ==
  \/ WorkerSleep \/ WorkerPop \/ WorkerExit
  \/ WorkerCancel \/ WorkerRefused \/ WorkerEnter
  \/ WorkerIdle \/ WorkerNotify

WaitStep(c) == StartWait(c) \/ WaitSleep(c) \/ WaitReturn(c)

DestroyStep ==
  \/ \E c \in Clients : BeginDestroy(c)
  \/ DestroyNotify \/ JoinWorker \/ StopEventLoop
  \/ \E h \in Handlers : LeaveEventLoop(h)
  \/ JoinEventLoop

Step ==
  \/ \E t \in Threads : LockStep(t)
  \/ WorkerLoop \/ StatementError
  \/ \E c \in Clients : WaitStep(c)
  \/ DestroyStep

Next == (phase # "aborted" /\ Step) \/ Finished

Spec == Init /\ [][Next]_vars

(***************************************************************************)
(* Each thread runs: it is not stuck between two instructions, a lock that *)
(* stays free is taken, and user code returns (the code's contract asks    *)
(* for finite tasks).  Nothing is assumed of who calls, waits or destroys. *)
(* With finitely many calls weak fairness on Acquire is enough, although   *)
(* std::recursive_mutex promises no order among its waiters.               *)
(***************************************************************************)
Fairness ==
  /\ \A t \in Threads : /\ WF_vars(phase # "aborted" /\ Acquire(t))
                        /\ WF_vars(phase # "aborted" /\ LeaveFrame(t))
                        /\ WF_vars(phase # "aborted" /\ Release(t))
  /\ WF_vars(phase # "aborted" /\ WorkerLoop)
  /\ \A c \in Clients :
       WF_vars(phase # "aborted" /\ (WaitSleep(c) \/ WaitReturn(c)))
  /\ WF_vars(DestroyNotify \/ JoinWorker \/ StopEventLoop \/ JoinEventLoop)
  /\ \A h \in Handlers : WF_vars(LeaveEventLoop(h))

FairSpec == Spec /\ Fairness

-----------------------------------------------------------------------------
(* Properties.                                                             *)

\* Types; the recursion limit holds for every chain of frames.
TypeOK ==
  /\ lock \in Threads \cup {NoThread}
  /\ depth \in 0..MaxDepth /\ frameOwner \in Threads \cup {NoThread}
  /\ budget \in 0..MaxFrames
  /\ generation \in Nat
  /\ queue \in Seq(Task) /\ cur \in Task
  /\ running \in BOOLEAN /\ ran \in BOOLEAN /\ stopping \in BOOLEAN
  /\ errors \in Seq(Nat) /\ received \in Seq(Nat) /\ faults \in Nat
  /\ sleepers \subseteq Clients \cup {Worker}
  /\ pc \in [Threads -> CallerPC \cup WorkerPC]
  /\ \A t \in Callers : pc[t] \in CallerPC
  /\ pc[Worker] \in WorkerPC
  /\ phase \in Phase
  /\ calls \in Nat /\ admitted \in Nat
  /\ log \in Seq([id : Nat, ran : BOOLEAN])

\* A live function frame always belongs to the thread that holds the
\* execution lock, so no entry under the lock is ever refused as concurrent
\* (FunctionCallFrame's check is the second line of defence only).
FrameOwnerHoldsLock == depth > 0 => frameOwner = lock /\ lock # NoThread

\* A task admitted before a reset or reload never runs user code in the
\* program that replaced it, however long it was queued or popped.
NoStaleExecution == pc[Worker] = "body" => cur.gen = generation

Popped == pc[Worker] \in {"acquire", "check", "body", "unwound", "released"}
\* How many tasks that is: none or one.
InHand == IF Popped THEN 1 ELSE 0

\* Tasks settle in the order in which they were admitted, and each one is
\* at every moment settled, popped or queued: none is lost or run twice.
FifoNothingLost ==
  /\ \A i \in 1..Len(log) : log[i].id = i
  /\ Popped => cur.id = Len(log) + 1
  /\ \A i \in 1..Len(queue) : queue[i].id = Len(log) + InHand + i
  /\ admitted = Len(log) + InHand + Len(queue)

\* Once the destructor has joined the worker everything that was admitted,
\* descendants of draining tasks included, has settled, and nothing is
\* admitted any more although the event loop still delivers callbacks.
DrainedBeforeTeardown ==
  phase \in {"joined", "stopped", "dead"} =>
    queue = <<>> /\ ~running /\ Len(log) = admitted

\* No thread is inside the interpreter when its members are destroyed.
QuietAtDeath ==
  phase = "dead" =>
    /\ lock = NoThread /\ depth = 0
    /\ \A t \in Threads : pc[t] \in {"idle", "off", "exited", "destroying"}

Reported == received \o errors

\* Who holds executionMutex is where the program counters say, and frames
\* exist only for a holder that is executing.
LockInv ==
  /\ \A t \in Threads : pc[t] \in {"check", "body", "unwound"} <=> lock = t
  /\ depth > 0 => frameOwner = lock /\ lock \in Threads /\ pc[lock] = "body"
  /\ pc[Worker] = "body" => depth > 0

\* What the worker's state says about the queue and the destructor.
WorkerInv ==
  /\ running <=> Popped
  /\ pc[Worker] = "off" => queue = <<>>
  /\ pc[Worker] = "exited" => stopping /\ queue = <<>>
  /\ phase \in {"alive", "aborted"} <=> ~stopping
  /\ phase \in {"joined", "stopped", "dead"} => pc[Worker] \in {"off", "exited"}

\* Once destruction has begun no client is inside a call, and what has left
\* the event loop stays outside.
QuietInv ==
  /\ phase \notin {"alive", "aborted"} =>
       \A c \in Clients : pc[c] \in {"idle", "destroying"}
  /\ phase = "dead" => \A h \in Handlers : pc[h] = "exited"

\* Errors come from tasks in hand or settled, in their order, and a task that
\* never entered user code has one as soon as it is given up.
ReportInv ==
  /\ \A k \in DOMAIN Reported : Reported[k] <= Len(log) + InHand
  /\ \A i, j \in DOMAIN Reported : i < j => Reported[i] <= Reported[j]
  /\ \A i \in DOMAIN log :
       ~log[i].ran => \E k \in DOMAIN Reported : Reported[k] = log[i].id
  /\ pc[Worker] \in {"unwound", "released"} /\ ~ran =>
       \E k \in DOMAIN Reported : Reported[k] = cur.id
  /\ pc[Worker] = "body" => ran

\* The inductive invariant of AsyncWorkerProofs: without LockInv a reset
\* could slip under a running task, without WorkerInv an admission could
\* follow the worker's exit, and without ReportInv a skipped task could
\* settle in silence.
IInv == /\ TypeOK /\ LockInv /\ WorkerInv
        /\ NoStaleExecution /\ FifoNothingLost
        /\ QuietInv /\ ReportInv

\* Every error of a task is kept until a wait takes it, is handed out once
\* and in order, and a task that was skipped has reported why.
ErrorsExactlyOnce ==
  /\ Len(Reported) = faults
  /\ \A i, j \in DOMAIN Reported : i < j => Reported[i] <= Reported[j]
  /\ \A i \in DOMAIN log :
       ~log[i].ran => \E k \in DOMAIN Reported : Reported[k] = log[i].id

\* waitForAsync is a completion boundary: when it returns, every task
\* admitted so far has settled and every error has been handed to a waiter.
WaitIsABoundary ==
  [][\A c \in Clients : pc[c] = "waiting" /\ pc'[c] = "idle" =>
       Len(log) = admitted /\ Len(received') = faults]_vars

\* A wait returns: no notification is lost and no wait blocks the worker.
WaitsReturn ==
  \A c \in Clients :
    pc[c] = "waiting" ~> (pc[c] # "waiting" \/ phase = "aborted")

\* Every admitted task settles: runs, fails or is cancelled.
TasksSettle ==
  \A i \in 1..MaxTasks :
    admitted >= i ~> (Len(log) >= i \/ phase = "aborted")

\* Destruction ends, whatever the worker and the event loop were doing.
DestructionCompletes == phase = "closing" ~> phase = "dead"
=============================================================================
