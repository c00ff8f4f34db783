------------------------- MODULE AsyncWorkerProofs -------------------------
(***************************************************************************)
(* Theorems about AsyncWorker for every set of clients and handlers and    *)
(* every value of the bounds.                                              *)
(***************************************************************************)
EXTENDS AsyncWorker, SequenceTheorems, TLAPS

-----------------------------------------------------------------------------
(* Types.                                                                  *)

LEMMA InitTypeOK == Init => TypeOK
  <1> SUFFICES ASSUME Init PROVE TypeOK
    OBVIOUS
  <1>1. /\ queue \in Seq(Task) /\ errors \in Seq(Nat)
        /\ received \in Seq(Nat) /\ log \in Seq([id : Nat, ran : BOOLEAN])
    BY DEF Init
  <1>2. /\ pc \in [Threads -> CallerPC \cup WorkerPC]
        /\ \A t \in Callers : pc[t] \in CallerPC
        /\ pc[Worker] \in WorkerPC
    BY ThreadsAssumption DEF Init, Threads, Callers, CallerPC, WorkerPC
  <1>3. cur \in Task
    BY DEF Init, NoTask, Task
  <1>4. depth \in 0..MaxDepth /\ budget \in 0..MaxFrames
    BY BoundsAssumption DEF Init
  <1> QED
    BY <1>1, <1>2, <1>3, <1>4 DEF Init, TypeOK, Phase

LEMMA HandleErrorType ==
  ASSUME NEW t, HandleError(t), TypeOK
  PROVE  errors' \in Seq(Nat) /\ faults' \in Nat
  <1>1. errors \in Seq(Nat) /\ faults \in Nat /\ cur.id \in Nat
    BY DEF TypeOK, Task
  <1>2. Append(errors, cur.id) \in Seq(Nat)
    BY <1>1
  <1>3. CASE t = Worker
    BY <1>1, <1>2, <1>3 DEF HandleError
  <1>4. CASE t # Worker
    BY <1>1, <1>4 DEF HandleError
  <1> QED
    BY <1>3, <1>4

LEMMA NextTypeOK == TypeOK /\ [Next]_vars => TypeOK'
  <1> SUFFICES ASSUME TypeOK, [Next]_vars PROVE TypeOK'
    OBVIOUS
  <1> USE ThreadsAssumption, BoundsAssumption
      DEF TypeOK, Goto, Threads, Callers, Task, CallerPC, WorkerPC, Phase,
          vars, lockVars, queueVars, lifeVars, histVars
  <1>1. ASSUME NEW t \in Threads, StartCall(t) PROVE TypeOK'
    BY <1>1 DEF StartCall, MayCall
  <1>2. ASSUME NEW t \in Threads, Acquire(t) PROVE TypeOK'
    BY <1>2 DEF Acquire, LockFree
  <1>3. ASSUME NEW t \in Threads, Release(t) PROVE TypeOK'
    BY <1>3 DEF Release
  <1>4. ASSUME NEW t \in Threads, EnterFrame(t) PROVE TypeOK'
    BY <1>4 DEF EnterFrame, ConcurrentEntry, RecursionLimit
  <1>5. ASSUME NEW t \in Threads, LeaveFrame(t) PROVE TypeOK'
    BY <1>5 DEF LeaveFrame
  <1>6. ASSUME NEW t \in Threads, RaiseFunctionCallError(t) PROVE TypeOK'
    <2>1. errors' \in Seq(Nat) /\ faults' \in Nat
      BY <1>6, HandleErrorType DEF RaiseFunctionCallError
    <2> QED
      BY <1>6, <2>1 DEF RaiseFunctionCallError
  <1>7. ASSUME NEW t \in Threads, Admit(t) PROVE TypeOK'
    BY <1>7 DEF Admit, MayAdmit, NotifyAll
  <1>8. ASSUME NEW t \in Threads, Reset(t) PROVE TypeOK'
    BY <1>8 DEF Reset, MayReset
  <1>9. ASSUME NEW t \in Threads, Abort(t) PROVE TypeOK'
    BY <1>9 DEF Abort, HeldBy
  <1>10. ASSUME WorkerSleep PROVE TypeOK'
    BY <1>10 DEF WorkerSleep, WorkerAwake
  <1>11. ASSUME WorkerPop PROVE TypeOK'
    <2>1. queue # <<>> => Head(queue) \in Task /\ Tail(queue) \in Seq(Task)
      BY HeadTailProperties DEF TypeOK
    <2> QED
      BY <1>11, <2>1 DEF WorkerPop, WorkerAwake, TakeOldest, MarkRunning
  <1>12. ASSUME WorkerExit PROVE TypeOK'
    BY <1>12 DEF WorkerExit, WorkerAwake, MayExit
  <1>13. ASSUME WorkerCancel PROVE TypeOK'
    <2>1. errors' \in Seq(Nat) /\ faults' \in Nat
      BY <1>13, HandleErrorType DEF WorkerCancel
    <2> QED
      BY <1>13, <2>1 DEF WorkerCancel
  <1>14. ASSUME WorkerRefused PROVE TypeOK'
    <2>1. errors' \in Seq(Nat) /\ faults' \in Nat
      BY <1>14, HandleErrorType DEF WorkerRefused
    <2> QED
      BY <1>14, <2>1 DEF WorkerRefused
  <1>15. ASSUME WorkerEnter PROVE TypeOK'
    BY <1>15 DEF WorkerEnter, SameGeneration, ConcurrentEntry, RecursionLimit
  <1>16. ASSUME WorkerIdle PROVE TypeOK'
    <2>1. [id |-> cur.id, ran |-> ran] \in [id : Nat, ran : BOOLEAN]
      OBVIOUS
    <2>2. Append(log, [id |-> cur.id, ran |-> ran])
            \in Seq([id : Nat, ran : BOOLEAN])
      BY <2>1 DEF TypeOK
    <2>3. log' \in Seq([id : Nat, ran : BOOLEAN])
      BY ONLY <1>16, <2>2 DEF WorkerIdle
    <2> QED
      BY <1>16, <2>3 DEF WorkerIdle
  <1>17. ASSUME WorkerNotify PROVE TypeOK'
    BY <1>17 DEF WorkerNotify, NotifyAll
  <1>18. ASSUME StatementError PROVE TypeOK'
    <2>1. errors' \in Seq(Nat) /\ faults' \in Nat
      BY <1>18, HandleErrorType DEF StatementError
    <2> QED
      BY <1>18, <2>1 DEF StatementError
  <1>19. ASSUME NEW t \in Clients, StartWait(t) PROVE TypeOK'
    BY <1>19 DEF StartWait, HeldBy
  <1>20. ASSUME NEW t \in Clients, WaitSleep(t) PROVE TypeOK'
    BY <1>20 DEF WaitSleep, Quiescent
  <1>21. ASSUME NEW t \in Clients, WaitReturn(t) PROVE TypeOK'
    BY <1>21 DEF WaitReturn, SwapErrors, Quiescent
  <1>22. ASSUME NEW t \in Clients, BeginDestroy(t) PROVE TypeOK'
    BY <1>22 DEF BeginDestroy, HeldBy
  <1>23. ASSUME DestroyNotify PROVE TypeOK'
    BY <1>23 DEF DestroyNotify, NotifyAll
  <1>24. ASSUME JoinWorker PROVE TypeOK'
    BY <1>24 DEF JoinWorker
  <1>25. ASSUME StopEventLoop PROVE TypeOK'
    BY <1>25 DEF StopEventLoop
  <1>26. ASSUME NEW t \in Handlers, LeaveEventLoop(t) PROVE TypeOK'
    BY <1>26 DEF LeaveEventLoop
  <1>27. ASSUME JoinEventLoop PROVE TypeOK'
    BY <1>27 DEF JoinEventLoop
  <1>28. CASE UNCHANGED vars
    BY <1>28
  <1> QED
    BY <1>1, <1>2, <1>3, <1>4, <1>5, <1>6, <1>7, <1>8, <1>9, <1>10,
       <1>11, <1>12, <1>13, <1>14, <1>15, <1>16, <1>17, <1>18, <1>19,
       <1>20, <1>21, <1>22, <1>23, <1>24, <1>25, <1>26, <1>27, <1>28
    DEF Next, Step, LockStep, WorkerLoop, WaitStep, DestroyStep, Finished

\* Every variable keeps its type: in particular only clients and the worker
\* ever sleep on asyncCondition, and depth never passes MaxDepth.
THEOREM TypeCorrect == Spec => []TypeOK
  BY InitTypeOK, NextTypeOK, PTL DEF Spec

-----------------------------------------------------------------------------
(* Exclusion: the lock, the program counters and the frames agree.         *)

LEMMA NextLockInv == TypeOK /\ LockInv /\ [Next]_vars => LockInv'
  <1> SUFFICES ASSUME TypeOK, LockInv, [Next]_vars PROVE LockInv'
    OBVIOUS
  <1> USE ThreadsAssumption
      DEF TypeOK, Goto, Threads, Callers, CallerPC, WorkerPC,
          LockInv, vars, lockVars, queueVars, lifeVars, histVars
  <1>1. ASSUME NEW t \in Threads, StartCall(t) PROVE LockInv'
    BY <1>1 DEF StartCall
  <1>2. ASSUME NEW t \in Threads, Acquire(t) PROVE LockInv'
    BY <1>2 DEF Acquire, LockFree
  <1>3. ASSUME NEW t \in Threads, Release(t) PROVE LockInv'
    BY <1>3 DEF Release
  <1>4. ASSUME NEW t \in Threads, EnterFrame(t) PROVE LockInv'
    BY <1>4 DEF EnterFrame, ConcurrentEntry
  <1>5. ASSUME NEW t \in Threads, LeaveFrame(t) PROVE LockInv'
    BY <1>5 DEF LeaveFrame
  <1>6. ASSUME NEW t \in Threads, RaiseFunctionCallError(t) PROVE LockInv'
    BY <1>6 DEF RaiseFunctionCallError
  <1>7. ASSUME NEW t \in Threads, Admit(t) PROVE LockInv'
    BY <1>7 DEF Admit
  <1>8. ASSUME NEW t \in Threads, Reset(t) PROVE LockInv'
    BY <1>8 DEF Reset
  <1>9. ASSUME NEW t \in Threads, Abort(t) PROVE LockInv'
    BY <1>9 DEF Abort
  <1>10. ASSUME WorkerSleep PROVE LockInv'
    BY <1>10 DEF WorkerSleep, WorkerAwake
  <1>11. ASSUME WorkerPop PROVE LockInv'
    BY <1>11 DEF WorkerPop, WorkerAwake
  <1>12. ASSUME WorkerExit PROVE LockInv'
    BY <1>12 DEF WorkerExit, WorkerAwake
  <1>13. ASSUME WorkerCancel PROVE LockInv'
    BY <1>13 DEF WorkerCancel
  <1>14. ASSUME WorkerRefused PROVE LockInv'
    BY <1>14 DEF WorkerRefused
  <1>15. ASSUME WorkerEnter PROVE LockInv'
    BY <1>15 DEF WorkerEnter
  <1>16. ASSUME WorkerIdle PROVE LockInv'
    BY <1>16 DEF WorkerIdle
  <1>17. ASSUME WorkerNotify PROVE LockInv'
    BY <1>17 DEF WorkerNotify
  <1>18. ASSUME StatementError PROVE LockInv'
    BY <1>18 DEF StatementError
  <1>19. ASSUME NEW t \in Clients, StartWait(t) PROVE LockInv'
    BY <1>19 DEF StartWait, HeldBy
  <1>20. ASSUME NEW t \in Clients, WaitSleep(t) PROVE LockInv'
    BY <1>20 DEF WaitSleep
  <1>21. ASSUME NEW t \in Clients, WaitReturn(t) PROVE LockInv'
    BY <1>21 DEF WaitReturn
  <1>22. ASSUME NEW t \in Clients, BeginDestroy(t) PROVE LockInv'
    BY <1>22 DEF BeginDestroy, HeldBy
  <1>23. ASSUME DestroyNotify PROVE LockInv'
    BY <1>23 DEF DestroyNotify
  <1>24. ASSUME JoinWorker PROVE LockInv'
    BY <1>24 DEF JoinWorker
  <1>25. ASSUME StopEventLoop PROVE LockInv'
    BY <1>25 DEF StopEventLoop
  <1>26. ASSUME NEW t \in Handlers, LeaveEventLoop(t) PROVE LockInv'
    BY <1>26 DEF LeaveEventLoop
  <1>27. ASSUME JoinEventLoop PROVE LockInv'
    BY <1>27 DEF JoinEventLoop
  <1>28. CASE UNCHANGED vars
    BY <1>28
  <1> QED
    BY <1>1, <1>2, <1>3, <1>4, <1>5, <1>6, <1>7, <1>8, <1>9, <1>10,
       <1>11, <1>12, <1>13, <1>14, <1>15, <1>16, <1>17, <1>18, <1>19,
       <1>20, <1>21, <1>22, <1>23, <1>24, <1>25, <1>26, <1>27, <1>28
    DEF Next, Step, LockStep, WorkerLoop, WaitStep, DestroyStep, Finished

\* The worker's position determines asyncRunning and what may be queued.
LEMMA NextWorkerInv == TypeOK /\ LockInv /\ WorkerInv /\ [Next]_vars => WorkerInv'
  <1> SUFFICES ASSUME TypeOK, LockInv, WorkerInv, [Next]_vars PROVE WorkerInv'
    OBVIOUS
  <1> USE ThreadsAssumption
      DEF TypeOK, Goto, Threads, Callers, CallerPC, WorkerPC,
          LockInv, WorkerInv, Popped, Phase, vars, lockVars, queueVars, lifeVars, histVars
  <1>1. ASSUME NEW t \in Threads, StartCall(t) PROVE WorkerInv'
    BY <1>1 DEF StartCall
  <1>2. ASSUME NEW t \in Threads, Acquire(t) PROVE WorkerInv'
    BY <1>2 DEF Acquire, LockFree
  <1>3. ASSUME NEW t \in Threads, Release(t) PROVE WorkerInv'
    BY <1>3 DEF Release
  <1>4. ASSUME NEW t \in Threads, EnterFrame(t) PROVE WorkerInv'
    BY <1>4 DEF EnterFrame
  <1>5. ASSUME NEW t \in Threads, LeaveFrame(t) PROVE WorkerInv'
    BY <1>5 DEF LeaveFrame
  <1>6. ASSUME NEW t \in Threads, RaiseFunctionCallError(t) PROVE WorkerInv'
    BY <1>6 DEF RaiseFunctionCallError
  <1>7. ASSUME NEW t \in Threads, Admit(t) PROVE WorkerInv'
    BY <1>7 DEF Admit, MayAdmit
  <1>8. ASSUME NEW t \in Threads, Reset(t) PROVE WorkerInv'
    BY <1>8 DEF Reset
  <1>9. ASSUME NEW t \in Threads, Abort(t) PROVE WorkerInv'
    BY <1>9 DEF Abort
  <1>10. ASSUME WorkerSleep PROVE WorkerInv'
    BY <1>10 DEF WorkerSleep, WorkerAwake
  <1>11. ASSUME WorkerPop PROVE WorkerInv'
    BY <1>11 DEF WorkerPop, WorkerAwake, MarkRunning
  <1>12. ASSUME WorkerExit PROVE WorkerInv'
    BY <1>12 DEF WorkerExit, WorkerAwake, MayExit
  <1>13. ASSUME WorkerCancel PROVE WorkerInv'
    BY <1>13 DEF WorkerCancel
  <1>14. ASSUME WorkerRefused PROVE WorkerInv'
    BY <1>14 DEF WorkerRefused
  <1>15. ASSUME WorkerEnter PROVE WorkerInv'
    BY <1>15 DEF WorkerEnter
  <1>16. ASSUME WorkerIdle PROVE WorkerInv'
    BY <1>16 DEF WorkerIdle
  <1>17. ASSUME WorkerNotify PROVE WorkerInv'
    BY <1>17 DEF WorkerNotify
  <1>18. ASSUME StatementError PROVE WorkerInv'
    BY <1>18 DEF StatementError
  <1>19. ASSUME NEW t \in Clients, StartWait(t) PROVE WorkerInv'
    BY <1>19 DEF StartWait, HeldBy
  <1>20. ASSUME NEW t \in Clients, WaitSleep(t) PROVE WorkerInv'
    BY <1>20 DEF WaitSleep
  <1>21. ASSUME NEW t \in Clients, WaitReturn(t) PROVE WorkerInv'
    BY <1>21 DEF WaitReturn
  <1>22. ASSUME NEW t \in Clients, BeginDestroy(t) PROVE WorkerInv'
    BY <1>22 DEF BeginDestroy, HeldBy
  <1>23. ASSUME DestroyNotify PROVE WorkerInv'
    BY <1>23 DEF DestroyNotify
  <1>24. ASSUME JoinWorker PROVE WorkerInv'
    BY <1>24 DEF JoinWorker
  <1>25. ASSUME StopEventLoop PROVE WorkerInv'
    BY <1>25 DEF StopEventLoop
  <1>26. ASSUME NEW t \in Handlers, LeaveEventLoop(t) PROVE WorkerInv'
    BY <1>26 DEF LeaveEventLoop
  <1>27. ASSUME JoinEventLoop PROVE WorkerInv'
    BY <1>27 DEF JoinEventLoop
  <1>28. CASE UNCHANGED vars
    BY <1>28
  <1> QED
    BY <1>1, <1>2, <1>3, <1>4, <1>5, <1>6, <1>7, <1>8, <1>9, <1>10,
       <1>11, <1>12, <1>13, <1>14, <1>15, <1>16, <1>17, <1>18, <1>19,
       <1>20, <1>21, <1>22, <1>23, <1>24, <1>25, <1>26, <1>27, <1>28
    DEF Next, Step, LockStep, WorkerLoop, WaitStep, DestroyStep, Finished

\* The generation cannot change under a task that is in user code: a reset
\* needs the lock, the task holds it, and from its own frame it is rejected.
LEMMA NextNoStale == TypeOK /\ LockInv /\ NoStaleExecution /\ [Next]_vars => NoStaleExecution'
  <1> SUFFICES ASSUME TypeOK, LockInv, NoStaleExecution, [Next]_vars PROVE NoStaleExecution'
    OBVIOUS
  <1> USE ThreadsAssumption
      DEF TypeOK, Goto, Threads, Callers, CallerPC, WorkerPC,
          LockInv, NoStaleExecution, vars, lockVars, queueVars, lifeVars, histVars
  <1>1. ASSUME NEW t \in Threads, StartCall(t) PROVE NoStaleExecution'
    BY <1>1 DEF StartCall
  <1>2. ASSUME NEW t \in Threads, Acquire(t) PROVE NoStaleExecution'
    BY <1>2 DEF Acquire, LockFree
  <1>3. ASSUME NEW t \in Threads, Release(t) PROVE NoStaleExecution'
    BY <1>3 DEF Release
  <1>4. ASSUME NEW t \in Threads, EnterFrame(t) PROVE NoStaleExecution'
    BY <1>4 DEF EnterFrame
  <1>5. ASSUME NEW t \in Threads, LeaveFrame(t) PROVE NoStaleExecution'
    BY <1>5 DEF LeaveFrame
  <1>6. ASSUME NEW t \in Threads, RaiseFunctionCallError(t) PROVE NoStaleExecution'
    BY <1>6 DEF RaiseFunctionCallError
  <1>7. ASSUME NEW t \in Threads, Admit(t) PROVE NoStaleExecution'
    BY <1>7 DEF Admit
  <1>8. ASSUME NEW t \in Threads, Reset(t) PROVE NoStaleExecution'
    BY <1>8 DEF Reset, MayReset
  <1>9. ASSUME NEW t \in Threads, Abort(t) PROVE NoStaleExecution'
    BY <1>9 DEF Abort
  <1>10. ASSUME WorkerSleep PROVE NoStaleExecution'
    BY <1>10 DEF WorkerSleep, WorkerAwake
  <1>11. ASSUME WorkerPop PROVE NoStaleExecution'
    BY <1>11 DEF WorkerPop, WorkerAwake
  <1>12. ASSUME WorkerExit PROVE NoStaleExecution'
    BY <1>12 DEF WorkerExit, WorkerAwake, MayExit
  <1>13. ASSUME WorkerCancel PROVE NoStaleExecution'
    BY <1>13 DEF WorkerCancel
  <1>14. ASSUME WorkerRefused PROVE NoStaleExecution'
    BY <1>14 DEF WorkerRefused
  <1>15. ASSUME WorkerEnter PROVE NoStaleExecution'
    BY <1>15 DEF WorkerEnter, SameGeneration
  <1>16. ASSUME WorkerIdle PROVE NoStaleExecution'
    BY <1>16 DEF WorkerIdle
  <1>17. ASSUME WorkerNotify PROVE NoStaleExecution'
    BY <1>17 DEF WorkerNotify
  <1>18. ASSUME StatementError PROVE NoStaleExecution'
    BY <1>18 DEF StatementError
  <1>19. ASSUME NEW t \in Clients, StartWait(t) PROVE NoStaleExecution'
    BY <1>19 DEF StartWait, HeldBy
  <1>20. ASSUME NEW t \in Clients, WaitSleep(t) PROVE NoStaleExecution'
    BY <1>20 DEF WaitSleep
  <1>21. ASSUME NEW t \in Clients, WaitReturn(t) PROVE NoStaleExecution'
    BY <1>21 DEF WaitReturn
  <1>22. ASSUME NEW t \in Clients, BeginDestroy(t) PROVE NoStaleExecution'
    BY <1>22 DEF BeginDestroy, HeldBy
  <1>23. ASSUME DestroyNotify PROVE NoStaleExecution'
    BY <1>23 DEF DestroyNotify
  <1>24. ASSUME JoinWorker PROVE NoStaleExecution'
    BY <1>24 DEF JoinWorker
  <1>25. ASSUME StopEventLoop PROVE NoStaleExecution'
    BY <1>25 DEF StopEventLoop
  <1>26. ASSUME NEW t \in Handlers, LeaveEventLoop(t) PROVE NoStaleExecution'
    BY <1>26 DEF LeaveEventLoop
  <1>27. ASSUME JoinEventLoop PROVE NoStaleExecution'
    BY <1>27 DEF JoinEventLoop
  <1>28. CASE UNCHANGED vars
    BY <1>28
  <1> QED
    BY <1>1, <1>2, <1>3, <1>4, <1>5, <1>6, <1>7, <1>8, <1>9, <1>10,
       <1>11, <1>12, <1>13, <1>14, <1>15, <1>16, <1>17, <1>18, <1>19,
       <1>20, <1>21, <1>22, <1>23, <1>24, <1>25, <1>26, <1>27, <1>28
    DEF Next, Step, LockStep, WorkerLoop, WaitStep, DestroyStep, Finished


-----------------------------------------------------------------------------
(* Order: FifoNothingLost is preserved.                                    *)

\* Steps that move no task and leave the worker on the same side of Popped.
LEMMA FifoUnmoved ==
  ASSUME FifoNothingLost, UNCHANGED <<queue, cur, log, admitted>>,
         Popped' <=> Popped
  PROVE  FifoNothingLost'
  BY DEF FifoNothingLost, InHand

LEMMA FifoAdmit ==
  ASSUME TypeOK, LockInv, FifoNothingLost, NEW t \in Threads, Admit(t)
  PROVE  FifoNothingLost'
  <1> DEFINE new == [id |-> admitted + 1, gen |-> generation]
  <1>1. /\ queue \in Seq(Task) /\ new \in Task /\ admitted \in Nat
        /\ Len(log) \in Nat /\ Len(queue) \in Nat /\ InHand \in Nat
    BY DEF TypeOK, Task, InHand
  <1>2. Popped' <=> Popped
    BY ThreadsAssumption
    DEF Admit, Popped, TypeOK, Threads, Callers, CallerPC, WorkerPC
  <1>3. /\ queue' = Append(queue, new) /\ admitted' = admitted + 1
        /\ UNCHANGED <<cur, log>>
    BY DEF Admit, queueVars, histVars
  <1>4. /\ Len(queue') = Len(queue) + 1
        /\ \A i \in 1..Len(queue) : queue'[i] = queue[i]
        /\ queue'[Len(queue) + 1] = new
    BY <1>1, <1>3, AppendProperties
  <1>5. /\ \A i \in 1..Len(log) : log[i].id = i
        /\ Popped => cur.id = Len(log) + 1
        /\ \A i \in 1..Len(queue) : queue[i].id = Len(log) + InHand + i
        /\ admitted = Len(log) + InHand + Len(queue)
    BY DEF FifoNothingLost
  <1>6. queue'[Len(queue) + 1].id = admitted + 1
    BY <1>4
  <1>7. InHand' = InHand
    BY <1>2 DEF InHand
  <1> HIDE DEF new
  <1>8. \A i \in 1..Len(queue') : queue'[i].id = Len(log) + InHand + i
    <2> SUFFICES ASSUME NEW i \in 1..Len(queue')
                 PROVE  queue'[i].id = Len(log) + InHand + i
      OBVIOUS
    <2>1. CASE i \in 1..Len(queue)
      BY <1>4, <1>5, <2>1
    <2>2. CASE i = Len(queue) + 1
      BY <1>1, <1>5, <1>6, <2>2
    <2> QED
      BY <1>1, <1>4, <2>1, <2>2
  <1>9. admitted' = Len(log) + InHand + Len(queue')
    BY <1>1, <1>3, <1>4, <1>5
  <1> QED
    BY <1>2, <1>3, <1>5, <1>7, <1>8, <1>9 DEF FifoNothingLost

LEMMA FifoPop ==
  ASSUME TypeOK, FifoNothingLost, WorkerPop
  PROVE  FifoNothingLost'
  <1>1. /\ ~Popped /\ Popped'
    BY DEF WorkerPop, WorkerAwake, Popped, Goto, TypeOK, Threads
  <1>2. /\ queue \in Seq(Task) /\ queue # <<>> /\ Len(queue) \in Nat
        /\ Len(log) \in Nat
        /\ cur' = queue[1] /\ queue' = Tail(queue)
        /\ UNCHANGED <<log, admitted>>
    BY DEF WorkerPop, TakeOldest, TypeOK, histVars
  <1>3. /\ Len(queue) > 0 /\ Len(queue') = Len(queue) - 1
        /\ \A i \in 1..Len(queue') : queue'[i] = queue[i + 1]
    BY <1>2, EmptySeq, HeadTailProperties
  <1>10. /\ InHand = 0 /\ InHand' = 1
         /\ \A i \in 1..Len(log) : log[i].id = i
    BY <1>1 DEF InHand, FifoNothingLost
  <1>4. \A i \in 1..Len(queue) : queue[i].id = Len(log) + i
    BY <1>2, <1>10 DEF FifoNothingLost
  <1>5. cur'.id = Len(log) + 1
    BY <1>2, <1>3, <1>4
  <1>6. \A i \in 1..Len(queue') : queue'[i].id = Len(log) + 1 + i
    BY <1>2, <1>3, <1>4
  <1>7. admitted = Len(log) + Len(queue)
    BY <1>2, <1>10 DEF FifoNothingLost
  <1>8. \A i \in 1..Len(queue') : queue'[i].id = Len(log') + InHand' + i
    BY <1>2, <1>6, <1>10
  <1>9. admitted' = Len(log') + InHand' + Len(queue')
    BY <1>2, <1>3, <1>7, <1>10
  <1>11. \A i \in 1..Len(log') : log'[i].id = i
    BY <1>2, <1>10
  <1> QED
    BY <1>2, <1>5, <1>8, <1>9, <1>11 DEF FifoNothingLost

LEMMA FifoIdle ==
  ASSUME TypeOK, FifoNothingLost, WorkerIdle
  PROVE  FifoNothingLost'
  <1> DEFINE entry == [id |-> cur.id, ran |-> ran]
  <1>1. /\ Popped /\ ~Popped'
    BY DEF WorkerIdle, Popped, Goto, TypeOK, Threads
  <1>2. /\ log \in Seq([id : Nat, ran : BOOLEAN])
        /\ entry \in [id : Nat, ran : BOOLEAN]
        /\ Len(log) \in Nat /\ Len(queue) \in Nat
        /\ log' = Append(log, entry)
        /\ UNCHANGED <<queue, cur, admitted>>
    BY DEF WorkerIdle, TypeOK, Task
  <1>3. /\ Len(log') = Len(log) + 1
        /\ \A i \in 1..Len(log) : log'[i] = log[i]
        /\ log'[Len(log) + 1] = entry
    BY <1>2, AppendProperties
  <1>6. InHand = 1 /\ InHand' = 0
    BY <1>1 DEF InHand
  <1>4. /\ entry.id = Len(log) + 1
        /\ \A i \in 1..Len(queue) : queue[i].id = Len(log) + 1 + i
        /\ admitted = Len(log) + 1 + Len(queue)
        /\ \A i \in 1..Len(log) : log[i].id = i
    BY <1>1, <1>6 DEF FifoNothingLost
  <1> HIDE DEF entry
  <1>5. \A i \in 1..Len(log') : log'[i].id = i
    BY <1>2, <1>3, <1>4
  <1>7. \A i \in 1..Len(queue') : queue'[i].id = Len(log') + InHand' + i
    BY <1>2, <1>3, <1>4, <1>6
  <1>8. admitted' = Len(log') + InHand' + Len(queue')
    BY <1>2, <1>3, <1>4, <1>6
  <1> QED
    BY <1>1, <1>5, <1>7, <1>8 DEF FifoNothingLost

LEMMA NextFifo ==
  TypeOK /\ LockInv /\ FifoNothingLost /\ [Next]_vars => FifoNothingLost'
  <1> SUFFICES ASSUME TypeOK, LockInv, FifoNothingLost, [Next]_vars
               PROVE  FifoNothingLost'
    OBVIOUS
  <1> DEFINE Same == UNCHANGED <<queue, cur, log, admitted>> /\ (Popped' <=> Popped)
  <1> USE ThreadsAssumption
      DEF TypeOK, Goto, Threads, Callers, CallerPC, WorkerPC, LockInv, Popped,
          vars, lockVars, queueVars, lifeVars, histVars
  <1>1. ASSUME NEW t \in Threads, StartCall(t) PROVE Same
    BY <1>1 DEF StartCall
  <1>2. ASSUME NEW t \in Threads, Acquire(t) PROVE Same
    BY <1>2 DEF Acquire
  <1>3. ASSUME NEW t \in Threads, Release(t) PROVE Same
    BY <1>3 DEF Release
  <1>4. ASSUME NEW t \in Threads, EnterFrame(t) PROVE Same
    BY <1>4 DEF EnterFrame
  <1>5. ASSUME NEW t \in Threads, LeaveFrame(t) PROVE Same
    BY <1>5 DEF LeaveFrame
  <1>6. ASSUME NEW t \in Threads, RaiseFunctionCallError(t) PROVE Same
    BY <1>6 DEF RaiseFunctionCallError
  <1>7. ASSUME NEW t \in Threads, Admit(t) PROVE FifoNothingLost'
    BY <1>7, FifoAdmit
  <1>8. ASSUME NEW t \in Threads, Reset(t) PROVE Same
    BY <1>8 DEF Reset
  <1>9. ASSUME NEW t \in Threads, Abort(t) PROVE Same
    BY <1>9 DEF Abort
  <1>10. ASSUME WorkerSleep PROVE Same
    BY <1>10 DEF WorkerSleep, WorkerAwake
  <1>11. ASSUME WorkerPop PROVE FifoNothingLost'
    BY <1>11, FifoPop
  <1>12. ASSUME WorkerExit PROVE Same
    BY <1>12 DEF WorkerExit, WorkerAwake
  <1>13. ASSUME WorkerCancel PROVE Same
    BY <1>13 DEF WorkerCancel
  <1>14. ASSUME WorkerRefused PROVE Same
    BY <1>14 DEF WorkerRefused
  <1>15. ASSUME WorkerEnter PROVE Same
    BY <1>15 DEF WorkerEnter
  <1>16. ASSUME WorkerIdle PROVE FifoNothingLost'
    BY <1>16, FifoIdle
  <1>17. ASSUME WorkerNotify PROVE Same
    BY <1>17 DEF WorkerNotify
  <1>18. ASSUME StatementError PROVE Same
    BY <1>18 DEF StatementError
  <1>19. ASSUME NEW t \in Clients, StartWait(t) PROVE Same
    BY <1>19 DEF StartWait
  <1>20. ASSUME NEW t \in Clients, WaitSleep(t) PROVE Same
    BY <1>20 DEF WaitSleep
  <1>21. ASSUME NEW t \in Clients, WaitReturn(t) PROVE Same
    BY <1>21 DEF WaitReturn
  <1>22. ASSUME NEW t \in Clients, BeginDestroy(t) PROVE Same
    BY <1>22 DEF BeginDestroy
  <1>23. ASSUME DestroyNotify PROVE Same
    BY <1>23 DEF DestroyNotify
  <1>24. ASSUME JoinWorker PROVE Same
    BY <1>24 DEF JoinWorker
  <1>25. ASSUME StopEventLoop PROVE Same
    BY <1>25 DEF StopEventLoop
  <1>26. ASSUME NEW t \in Handlers, LeaveEventLoop(t) PROVE Same
    BY <1>26 DEF LeaveEventLoop
  <1>27. ASSUME JoinEventLoop PROVE Same
    BY <1>27 DEF JoinEventLoop
  <1>28. CASE UNCHANGED vars
    BY <1>28, FifoUnmoved
  <1> QED
    BY <1>1, <1>2, <1>3, <1>4, <1>5, <1>6, <1>7, <1>8, <1>9, <1>10,
       <1>11, <1>12, <1>13, <1>14, <1>15, <1>16, <1>17, <1>18, <1>19,
       <1>20, <1>21, <1>22, <1>23, <1>24, <1>25, <1>26, <1>27, <1>28,
       FifoUnmoved
    DEF Next, Step, LockStep, WorkerLoop, WaitStep, DestroyStep, Finished


-----------------------------------------------------------------------------
(* Quiet: who is still inside while the interpreter is torn down.          *)

LEMMA NextQuiet ==
  TypeOK /\ LockInv /\ WorkerInv /\ QuietInv /\ [Next]_vars => QuietInv'
  <1> SUFFICES ASSUME TypeOK, LockInv, WorkerInv, QuietInv, [Next]_vars
               PROVE  QuietInv'
    OBVIOUS
  <1> USE ThreadsAssumption
      DEF TypeOK, Goto, Threads, Callers, CallerPC, WorkerPC, Phase, LockInv,
          WorkerInv, QuietInv, vars, lockVars, queueVars, lifeVars, histVars
  <1>1. ASSUME NEW t \in Threads, StartCall(t) PROVE QuietInv'
    BY <1>1 DEF StartCall, MayCall
  <1>2. ASSUME NEW t \in Threads, Acquire(t) PROVE QuietInv'
    BY <1>2 DEF Acquire
  <1>3. ASSUME NEW t \in Threads, Release(t) PROVE QuietInv'
    BY <1>3 DEF Release
  <1>4. ASSUME NEW t \in Threads, EnterFrame(t) PROVE QuietInv'
    BY <1>4 DEF EnterFrame
  <1>5. ASSUME NEW t \in Threads, LeaveFrame(t) PROVE QuietInv'
    BY <1>5 DEF LeaveFrame
  <1>6. ASSUME NEW t \in Threads, RaiseFunctionCallError(t) PROVE QuietInv'
    BY <1>6 DEF RaiseFunctionCallError
  <1>7. ASSUME NEW t \in Threads, Admit(t) PROVE QuietInv'
    BY <1>7 DEF Admit
  <1>8. ASSUME NEW t \in Threads, Reset(t) PROVE QuietInv'
    BY <1>8 DEF Reset
  <1>9. ASSUME NEW t \in Threads, Abort(t) PROVE QuietInv'
    BY <1>9 DEF Abort
  <1>10. ASSUME WorkerLoop PROVE QuietInv'
    BY <1>10 DEF WorkerLoop, WorkerSleep, WorkerPop, WorkerExit, WorkerCancel,
         WorkerRefused, WorkerEnter, WorkerIdle, WorkerNotify
  <1>11. ASSUME StatementError PROVE QuietInv'
    BY <1>11 DEF StatementError
  <1>12. ASSUME NEW c \in Clients, WaitStep(c) PROVE QuietInv'
    BY <1>12 DEF WaitStep, StartWait, WaitSleep, WaitReturn
  <1>13. ASSUME NEW c \in Clients, BeginDestroy(c) PROVE QuietInv'
    BY <1>13 DEF BeginDestroy, HeldBy
  <1>14. ASSUME DestroyNotify \/ JoinWorker \/ StopEventLoop PROVE QuietInv'
    BY <1>14 DEF DestroyNotify, JoinWorker, StopEventLoop
  <1>15. ASSUME NEW h \in Handlers, LeaveEventLoop(h) PROVE QuietInv'
    BY <1>15 DEF LeaveEventLoop
  <1>16. ASSUME JoinEventLoop PROVE QuietInv'
    BY <1>16 DEF JoinEventLoop, EventLoopDone
  <1>17. CASE UNCHANGED vars
    BY <1>17
  <1> QED
    BY <1>1, <1>2, <1>3, <1>4, <1>5, <1>6, <1>7, <1>8, <1>9, <1>10, <1>11,
       <1>12, <1>13, <1>14, <1>15, <1>16, <1>17
    DEF Next, Step, LockStep, DestroyStep, Finished

-----------------------------------------------------------------------------
(* Errors: ReportInv is preserved.                                         *)

\* An error of the task in hand is the last one reported.
LEMMA ReportedGrows ==
  ASSUME TypeOK, HandleError(Worker), received' = received
  PROVE  /\ Len(Reported) \in Nat /\ DOMAIN Reported = 1..Len(Reported)
         /\ Len(Reported') = Len(Reported) + 1
         /\ DOMAIN Reported' = 1..Len(Reported) + 1
         /\ \A k \in 1..Len(Reported) : Reported'[k] = Reported[k]
         /\ Reported'[Len(Reported) + 1] = cur.id
         /\ Reported \in Seq(Nat) /\ cur.id \in Nat
  <1>1. received \in Seq(Nat) /\ errors \in Seq(Nat) /\ cur.id \in Nat
    BY DEF TypeOK, Task
  <1>2. errors' = Append(errors, cur.id)
    BY DEF HandleError
  <1>3. Reported' = Append(Reported, cur.id)
    <2> SUFFICES received \o Append(errors, cur.id)
                   = Append(received \o errors, cur.id)
      BY <1>2 DEF Reported
    <2> QED
      BY <1>1
  <1>4. Reported \in Seq(Nat)
    BY <1>1, ConcatProperties DEF Reported
  <1> QED
    BY <1>1, <1>3, <1>4, AppendProperties

\* A wait hands out what was kept, and changes nothing of what was reported.
LEMMA ReportedStays ==
  ASSUME TypeOK, SwapErrors
  PROVE  Reported' = Reported
  <1>1. received \in Seq(Nat) /\ errors \in Seq(Nat)
    BY DEF TypeOK
  <1>2. received \o errors \in Seq(Nat)
    BY <1>1, ConcatProperties
  <1>3. (received \o errors) \o <<>> = received \o errors
    BY <1>2, ConcatEmptySeq
  <1> QED
    BY <1>3 DEF SwapErrors, Reported

\* Steps that report and settle nothing.
LEMMA ReportUnmoved ==
  ASSUME ReportInv, UNCHANGED <<Reported, log>>, Popped' <=> Popped,
         pc'[Worker] = "body" => ran',
         pc'[Worker] \in {"unwound", "released"} /\ ~ran' =>
           pc[Worker] \in {"unwound", "released"} /\ ~ran /\ cur' = cur
  PROVE  ReportInv'
  BY DEF ReportInv, InHand

\* Steps that report an error of the task in hand.
LEMMA ReportError ==
  ASSUME TypeOK, LockInv, FifoNothingLost, ReportInv,
         HandleError(Worker), pc[Worker] \in {"check", "body"},
         pc'[Worker] \in {"body", "unwound"}, pc'[Worker] = "body" => ran,
         UNCHANGED <<received, log, cur, ran>>
  PROVE  ReportInv'
  <1> DEFINE n == Len(Reported)
  <1>1. /\ n \in Nat /\ DOMAIN Reported = 1..n
        /\ DOMAIN Reported' = 1..n + 1
        /\ \A k \in 1..n : Reported'[k] = Reported[k]
        /\ Reported'[n + 1] = cur.id
        /\ Reported \in Seq(Nat) /\ cur.id \in Nat
    BY ReportedGrows
  <1> HIDE DEF n
  <1>2. Popped /\ Popped'
    BY DEF Popped
  <1>3. /\ InHand = 1 /\ InHand' = 1 /\ Len(log) \in Nat
        /\ cur.id = Len(log) + 1 /\ log' = log
    BY <1>2 DEF InHand, FifoNothingLost, TypeOK
  <1>4. \A k \in 1..n : Reported[k] <= cur.id
    BY <1>1, <1>3 DEF ReportInv
  <1>5. \A k \in 1..n + 1 : Reported'[k] <= Len(log) + 1
    <2> SUFFICES ASSUME NEW k \in 1..n + 1 PROVE Reported'[k] <= Len(log) + 1
      OBVIOUS
    <2>1. k \in 1..n \/ k = n + 1
      BY <1>1
    <2> QED
      BY <2>1, <1>1, <1>3, <1>4
  <1>6. \A i, j \in 1..n + 1 : i < j => Reported'[i] <= Reported'[j]
    <2> SUFFICES ASSUME NEW i \in 1..n + 1, NEW j \in 1..n + 1, i < j
                 PROVE  Reported'[i] <= Reported'[j]
      OBVIOUS
    <2>1. i \in 1..n /\ (j \in 1..n \/ j = n + 1)
      BY <1>1
    <2>2. CASE j \in 1..n
      BY <2>1, <2>2, <1>1 DEF ReportInv
    <2>3. CASE j = n + 1
      BY <2>1, <2>3, <1>1, <1>4
    <2> QED
      BY <2>1, <2>2, <2>3
  <1>7. \A i \in DOMAIN log :
          ~log[i].ran => \E k \in 1..n + 1 : Reported'[k] = log[i].id
    <2> SUFFICES ASSUME NEW i \in DOMAIN log, ~log[i].ran
                 PROVE  \E k \in 1..n + 1 : Reported'[k] = log[i].id
      OBVIOUS
    <2>1. PICK k \in 1..n : Reported[k] = log[i].id
      BY <1>1 DEF ReportInv
    <2>2. k \in 1..n + 1 /\ Reported'[k] = log[i].id
      BY <2>1, <1>1
    <2> QED
      BY <2>2
  <1>8. \E k \in 1..n + 1 : Reported'[k] = cur.id
    <2>1. n + 1 \in 1..n + 1
      BY <1>1
    <2> QED
      BY <2>1, <1>1
  <1> QED
    BY <1>1, <1>3, <1>5, <1>6, <1>7, <1>8 DEF ReportInv

LEMMA ReportPop ==
  ASSUME TypeOK, ReportInv, WorkerPop
  PROVE  ReportInv'
  <1>1. /\ pc[Worker] = "ready" /\ pc'[Worker] = "acquire"
        /\ UNCHANGED <<received, errors, log>>
    BY DEF WorkerPop, WorkerAwake, Goto, TypeOK, histVars, Threads
  <1>2. InHand = 0 /\ InHand' = 1 /\ Len(log) \in Nat /\ Reported' = Reported
    BY <1>1 DEF InHand, Popped, Reported, TypeOK
  <1>3. received \o errors \in Seq(Nat)
    BY ConcatProperties DEF TypeOK
  <1>4. \A k \in DOMAIN Reported : Reported[k] \in Nat
    BY <1>3, ElementOfSeq DEF Reported
  <1> QED
    BY <1>1, <1>2, <1>4 DEF ReportInv

LEMMA ReportIdle ==
  ASSUME TypeOK, ReportInv, WorkerIdle
  PROVE  ReportInv'
  <1> DEFINE e == [id |-> cur.id, ran |-> ran]
             n == Len(log)
  <1>1. /\ pc[Worker] = "released" /\ pc'[Worker] = "notify"
        /\ log' = Append(log, e)
        /\ UNCHANGED <<received, errors>>
    BY DEF WorkerIdle, Goto, TypeOK, Threads
  <1>2. /\ InHand = 1 /\ InHand' = 0 /\ Reported' = Reported
        /\ e.id = cur.id /\ e.ran = ran
    BY <1>1 DEF InHand, Popped, Reported
  <1>3. e \in [id : Nat, ran : BOOLEAN] /\ log \in Seq([id : Nat, ran : BOOLEAN])
    BY DEF TypeOK, Task
  <1> HIDE DEF e
  <1>4. /\ n \in Nat /\ Len(log') = n + 1
        /\ DOMAIN log = 1..n /\ DOMAIN log' = 1..n + 1
        /\ \A i \in 1..n : log'[i] = log[i]
        /\ log'[n + 1] = e
    BY <1>1, <1>3, AppendProperties
  <1> HIDE DEF n
  <1>5. \A i \in 1..n + 1 :
          ~log'[i].ran => \E k \in DOMAIN Reported : Reported[k] = log'[i].id
    <2> SUFFICES ASSUME NEW i \in 1..n + 1, ~log'[i].ran
                 PROVE  \E k \in DOMAIN Reported : Reported[k] = log'[i].id
      OBVIOUS
    <2>1. CASE i \in 1..n
      BY <2>1, <1>4 DEF ReportInv
    <2>2. CASE i = n + 1
      BY <2>2, <1>1, <1>2, <1>4 DEF ReportInv
    <2> QED
      BY <2>1, <2>2, <1>4
  <1>6. Len(log') + InHand' = Len(log) + InHand
    BY <1>2, <1>4 DEF n
  <1> QED
    BY <1>1, <1>2, <1>4, <1>5, <1>6 DEF ReportInv

LEMMA NextReport ==
  TypeOK /\ LockInv /\ FifoNothingLost /\ ReportInv /\ [Next]_vars => ReportInv'
  <1> SUFFICES ASSUME TypeOK, LockInv, FifoNothingLost, ReportInv, [Next]_vars
               PROVE  ReportInv'
    OBVIOUS
  <1> DEFINE Still ==
        /\ UNCHANGED <<received, errors, log>> /\ (Popped' <=> Popped)
        /\ pc'[Worker] = "body" => ran'
        /\ pc'[Worker] \in {"unwound", "released"} /\ ~ran' =>
             pc[Worker] \in {"unwound", "released"} /\ ~ran /\ cur' = cur
  <1>a. pc[Worker] = "body" => ran
    BY DEF ReportInv
  <1> USE ThreadsAssumption
      DEF TypeOK, Goto, Threads, Callers, CallerPC, WorkerPC, LockInv, Popped,
          vars, lockVars, queueVars, lifeVars, histVars
  <1>1. ASSUME NEW t \in Threads, StartCall(t) PROVE Still
    BY <1>a, <1>1 DEF StartCall
  <1>2. ASSUME NEW t \in Threads, Acquire(t) PROVE Still
    BY <1>a, <1>2 DEF Acquire
  <1>3. ASSUME NEW t \in Threads, Release(t) PROVE Still
    BY <1>a, <1>3 DEF Release
  <1>4. ASSUME NEW t \in Threads, EnterFrame(t) PROVE Still
    BY <1>a, <1>4 DEF EnterFrame
  <1>5. ASSUME NEW t \in Threads, LeaveFrame(t) PROVE Still
    BY <1>a, <1>5 DEF LeaveFrame
  <1>6. ASSUME NEW t \in Threads, RaiseFunctionCallError(t), t # Worker PROVE Still
    BY <1>a, <1>6 DEF RaiseFunctionCallError, HandleError
  <1>7. ASSUME RaiseFunctionCallError(Worker) PROVE ReportInv'
    BY <1>a, <1>7, ReportError DEF RaiseFunctionCallError
  <1>8. ASSUME NEW t \in Threads, Admit(t) PROVE Still
    BY <1>a, <1>8 DEF Admit
  <1>9. ASSUME NEW t \in Threads, Reset(t) PROVE Still
    BY <1>a, <1>9 DEF Reset
  <1>10. ASSUME NEW t \in Threads, Abort(t) PROVE Still
    BY <1>a, <1>10 DEF Abort
  <1>11. ASSUME WorkerSleep PROVE Still
    BY <1>a, <1>11 DEF WorkerSleep, WorkerAwake
  <1>12. ASSUME WorkerExit PROVE Still
    BY <1>a, <1>12 DEF WorkerExit, WorkerAwake
  <1>13. ASSUME WorkerCancel \/ WorkerRefused PROVE ReportInv'
    BY <1>13, ReportError DEF WorkerCancel, WorkerRefused
  <1>14. ASSUME WorkerEnter PROVE Still
    BY <1>a, <1>14 DEF WorkerEnter
  <1>15. ASSUME WorkerNotify PROVE Still
    BY <1>a, <1>15 DEF WorkerNotify
  <1>16. ASSUME StatementError PROVE ReportInv'
    BY <1>a, <1>16, ReportError DEF StatementError
  <1>17. ASSUME NEW t \in Clients, StartWait(t) PROVE Still
    BY <1>a, <1>17 DEF StartWait
  <1>18. ASSUME NEW t \in Clients, WaitSleep(t) PROVE Still
    BY <1>a, <1>18 DEF WaitSleep
  <1>19. ASSUME NEW t \in Clients, WaitReturn(t) PROVE ReportInv'
    <2>1. Reported' = Reported
      BY <1>19, ReportedStays DEF WaitReturn
    <2>2. /\ log' = log /\ cur' = cur /\ ran' = ran
          /\ pc'[Worker] = pc[Worker]
      BY <1>19 DEF WaitReturn
    <2>3. Popped' <=> Popped
      BY <2>2
    <2> QED
      BY ONLY <1>a, <2>1, <2>2, <2>3, ReportInv, ReportUnmoved
  <1>20. ASSUME NEW t \in Clients, BeginDestroy(t) PROVE Still
    BY <1>a, <1>20 DEF BeginDestroy
  <1>21. ASSUME DestroyNotify \/ JoinWorker \/ StopEventLoop \/ JoinEventLoop
         PROVE  Still
    BY <1>a, <1>21 DEF DestroyNotify, JoinWorker, StopEventLoop, JoinEventLoop
  <1>22. ASSUME NEW t \in Handlers, LeaveEventLoop(t) PROVE Still
    BY <1>a, <1>22 DEF LeaveEventLoop
  <1>23. ASSUME UNCHANGED vars PROVE Still
    <2>1. UNCHANGED <<received, errors, log, pc, ran, cur>>
      BY <1>23
    <2> QED
      BY ONLY <1>a, <2>1 DEF Popped
  <1>24. ASSUME Still PROVE ReportInv'
    <2>1. Reported' = Reported
      BY <1>24 DEF Reported
    <2> QED
      BY <1>24, <2>1, ReportUnmoved
  <1> QED
    BY <1>1, <1>2, <1>3, <1>4, <1>5, <1>6, <1>7, <1>8, <1>9, <1>10, <1>11,
       <1>12, <1>13, <1>14, <1>15, <1>16, <1>17, <1>18, <1>19, <1>20, <1>21,
       <1>22, <1>23, <1>24, ReportPop, ReportIdle
    DEF Next, Step, LockStep, WorkerLoop, WaitStep, DestroyStep, Finished

-----------------------------------------------------------------------------
(* The inductive invariant and what follows from it.                       *)

LEMMA InitIInv == Init => IInv
  <1> SUFFICES ASSUME Init PROVE IInv
    OBVIOUS
  <1>1. TypeOK
    BY InitTypeOK
  <1>2. LockInv
    BY ThreadsAssumption DEF Init, LockInv, Threads
  <1>3. WorkerInv /\ NoStaleExecution
    BY DEF Init, WorkerInv, NoStaleExecution, Popped, Threads
  <1>4. FifoNothingLost
    BY DEF Init, FifoNothingLost, InHand, Popped, Threads
  <1>5. QuietInv /\ ReportInv
    BY DEF Init, QuietInv, ReportInv, Reported, Threads
  <1> QED
    BY <1>1, <1>2, <1>3, <1>4, <1>5 DEF IInv

LEMMA NextIInv == IInv /\ [Next]_vars => IInv'
  BY NextTypeOK, NextLockInv, NextWorkerInv, NextNoStale, NextFifo, NextQuiet,
     NextReport DEF IInv

\* The inductive invariant holds in every reachable state.
THEOREM Inductive == Spec => []IInv
  BY InitIInv, NextIInv, PTL DEF Spec

\* No thread ever runs function code without the execution lock.
THEOREM FrameExclusion == Spec => []FrameOwnerHoldsLock
  <1>1. IInv => FrameOwnerHoldsLock
    BY ThreadsAssumption DEF IInv, LockInv, FrameOwnerHoldsLock
  <1> QED
    BY <1>1, Inductive, PTL

\* Code of a replaced program never runs, whatever was queued or popped when
\* reset() or reload() replaced it.
THEOREM GenerationSafety == Spec => []NoStaleExecution
  <1>1. IInv => NoStaleExecution
    BY DEF IInv
  <1> QED
    BY <1>1, Inductive, PTL

\* Tasks settle in admission order and none is lost or run twice.
THEOREM AdmissionOrder == Spec => []FifoNothingLost
  <1>1. IInv => FifoNothingLost
    BY DEF IInv
  <1> QED
    BY <1>1, Inductive, PTL

\* The destructor frees the interpreter only after every admitted task and
\* descendant has settled.
THEOREM DrainSafety == Spec => []DrainedBeforeTeardown
  <1>1. IInv => DrainedBeforeTeardown
    <2> SUFFICES ASSUME IInv, phase \in {"joined", "stopped", "dead"}
                 PROVE  queue = <<>> /\ ~running /\ Len(log) = admitted
      BY DEF DrainedBeforeTeardown
    <2>1. pc[Worker] \in {"off", "exited"} /\ queue = <<>>
      BY DEF IInv, WorkerInv
    <2>2. ~Popped /\ ~running
      BY <2>1 DEF IInv, WorkerInv, Popped
    <2>3. Len(queue) = 0 /\ Len(log) \in Nat
      BY <2>1 DEF IInv, TypeOK
    <2> QED
      BY <2>1, <2>2, <2>3 DEF IInv, FifoNothingLost, InHand
  <1> QED
    BY <1>1, Inductive, PTL

\* When the members of the interpreter are destroyed no thread is inside it:
\* not a client, not the worker, and not the event loop.
THEOREM TeardownQuiet == Spec => []QuietAtDeath
  <1>1. IInv => QuietAtDeath
    <2> SUFFICES ASSUME IInv, phase = "dead"
                 PROVE  /\ lock = NoThread /\ depth = 0
                        /\ \A t \in Threads :
                             pc[t] \in {"idle", "off", "exited", "destroying"}
      BY DEF QuietAtDeath
    <2>1. pc[Worker] \in {"off", "exited"}
      BY DEF IInv, WorkerInv
    <2>2. \A t \in Threads : pc[t] \in {"idle", "off", "exited", "destroying"}
      BY <2>1 DEF IInv, QuietInv, Threads, Callers
    <2>3. lock = NoThread
      BY <2>2 DEF IInv, LockInv, TypeOK
    <2>4. depth = 0
      BY <2>3, ThreadsAssumption, BoundsAssumption DEF IInv, LockInv, TypeOK
    <2> QED
      BY <2>2, <2>3, <2>4
  <1> QED
    BY <1>1, Inductive, PTL

-----------------------------------------------------------------------------
(* waitForAsync as a completion boundary.                                  *)

\* Every reported error is either waiting in asyncErrors or was handed out.
AllAccounted == Len(received) + Len(errors) = faults

LEMMA HandleErrorAccounted ==
  ASSUME TypeOK, AllAccounted, NEW t, HandleError(t), received' = received
  PROVE  AllAccounted'
  <1>1. /\ errors \in Seq(Nat) /\ faults \in Nat /\ cur.id \in Nat
        /\ Len(received) \in Nat /\ Len(errors) \in Nat
    BY DEF TypeOK, Task
  <1>2. Len(Append(errors, cur.id)) = Len(errors) + 1
    BY <1>1, AppendProperties
  <1>3. CASE t = Worker
    <2>1. /\ errors' = Append(errors, cur.id) /\ faults' = faults + 1
          /\ received' = received /\ Len(received) + Len(errors) = faults
      BY <1>3 DEF HandleError, AllAccounted
    <2>2. Len(received') = Len(received) /\ Len(errors') = Len(errors) + 1
      BY <1>2, <2>1
    <2> QED
      BY ONLY <1>1, <2>1, <2>2 DEF AllAccounted
  <1>4. CASE t # Worker
    BY <1>1, <1>4 DEF HandleError, AllAccounted
  <1> QED
    BY <1>3, <1>4

LEMMA WaitReturnAccounted ==
  ASSUME TypeOK, AllAccounted, NEW c \in Clients, WaitReturn(c)
  PROVE  AllAccounted' /\ Len(received') = faults
  <1>1. received \in Seq(Nat) /\ errors \in Seq(Nat) /\ faults \in Nat
    BY DEF TypeOK
  <1>2. /\ received' = received \o errors /\ errors' = <<>>
        /\ faults' = faults
    BY DEF WaitReturn, SwapErrors
  <1>3. Len(received \o errors) = Len(received) + Len(errors)
    BY <1>1, ConcatProperties
  <1>4. Len(<<>>) = 0
    OBVIOUS
  <1> QED
    BY <1>1, <1>2, <1>3, <1>4 DEF AllAccounted

LEMMA NextAccounted == TypeOK /\ AllAccounted /\ [Next]_vars => AllAccounted'
  <1> SUFFICES ASSUME TypeOK, AllAccounted, [Next]_vars PROVE AllAccounted'
    OBVIOUS
  <1> DEFINE Same == UNCHANGED <<received, errors, faults>>
  <1> USE DEF vars, queueVars, histVars
  <1>1. ASSUME NEW t \in Threads, StartCall(t) PROVE Same
    BY <1>1 DEF StartCall
  <1>2. ASSUME NEW t \in Threads, Acquire(t) PROVE Same
    BY <1>2 DEF Acquire
  <1>3. ASSUME NEW t \in Threads, Release(t) PROVE Same
    BY <1>3 DEF Release
  <1>4. ASSUME NEW t \in Threads, EnterFrame(t) PROVE Same
    BY <1>4 DEF EnterFrame
  <1>5. ASSUME NEW t \in Threads, LeaveFrame(t) PROVE Same
    BY <1>5 DEF LeaveFrame
  <1>6. ASSUME NEW t \in Threads, RaiseFunctionCallError(t) PROVE AllAccounted'
    BY <1>6, HandleErrorAccounted DEF RaiseFunctionCallError
  <1>7. ASSUME NEW t \in Threads, Admit(t) PROVE Same
    BY <1>7 DEF Admit
  <1>8. ASSUME NEW t \in Threads, Reset(t) PROVE Same
    BY <1>8 DEF Reset
  <1>9. ASSUME NEW t \in Threads, Abort(t) PROVE Same
    BY <1>9 DEF Abort
  <1>10. ASSUME WorkerSleep PROVE Same
    BY <1>10 DEF WorkerSleep
  <1>11. ASSUME WorkerPop PROVE Same
    BY <1>11 DEF WorkerPop
  <1>12. ASSUME WorkerExit PROVE Same
    BY <1>12 DEF WorkerExit
  <1>13. ASSUME WorkerCancel PROVE AllAccounted'
    BY <1>13, HandleErrorAccounted DEF WorkerCancel
  <1>14. ASSUME WorkerRefused PROVE AllAccounted'
    BY <1>14, HandleErrorAccounted DEF WorkerRefused
  <1>15. ASSUME WorkerEnter PROVE Same
    BY <1>15 DEF WorkerEnter
  <1>16. ASSUME WorkerIdle PROVE Same
    BY <1>16 DEF WorkerIdle
  <1>17. ASSUME WorkerNotify PROVE Same
    BY <1>17 DEF WorkerNotify
  <1>18. ASSUME StatementError PROVE AllAccounted'
    BY <1>18, HandleErrorAccounted DEF StatementError
  <1>19. ASSUME NEW t \in Clients, StartWait(t) PROVE Same
    BY <1>19 DEF StartWait
  <1>20. ASSUME NEW t \in Clients, WaitSleep(t) PROVE Same
    BY <1>20 DEF WaitSleep
  <1>21. ASSUME NEW t \in Clients, WaitReturn(t) PROVE AllAccounted'
    BY <1>21, WaitReturnAccounted
  <1>22. ASSUME NEW t \in Clients, BeginDestroy(t) PROVE Same
    BY <1>22 DEF BeginDestroy
  <1>23. ASSUME DestroyNotify PROVE Same
    BY <1>23 DEF DestroyNotify
  <1>24. ASSUME JoinWorker PROVE Same
    BY <1>24 DEF JoinWorker
  <1>25. ASSUME StopEventLoop PROVE Same
    BY <1>25 DEF StopEventLoop
  <1>26. ASSUME NEW t \in Handlers, LeaveEventLoop(t) PROVE Same
    BY <1>26 DEF LeaveEventLoop
  <1>27. ASSUME JoinEventLoop PROVE Same
    BY <1>27 DEF JoinEventLoop
  <1>28. CASE UNCHANGED vars
    BY <1>28 DEF AllAccounted
  <1> QED
    BY <1>1, <1>2, <1>3, <1>4, <1>5, <1>6, <1>7, <1>8, <1>9, <1>10,
       <1>11, <1>12, <1>13, <1>14, <1>15, <1>16, <1>17, <1>18, <1>19,
       <1>20, <1>21, <1>22, <1>23, <1>24, <1>25, <1>26, <1>27, <1>28
    DEF Next, Step, LockStep, WorkerLoop, WaitStep, DestroyStep, Finished,
        AllAccounted

\* A wait returns only when every admitted task has settled, and by then every
\* error reported so far has been handed to a waiter.
THEOREM WaitBoundary == Spec => WaitIsABoundary
  <1> DEFINE Boundary == \A c \in Clients :
        pc[c] = "waiting" /\ pc'[c] = "idle" =>
          Len(log) = admitted /\ Len(received') = faults
  <1>1. IInv /\ AllAccounted /\ [Next]_vars => [Boundary]_vars
    <2> SUFFICES ASSUME IInv, AllAccounted, [Next]_vars, NEW c \in Clients,
                        pc[c] = "waiting", pc'[c] = "idle"
                 PROVE  Len(log) = admitted /\ Len(received') = faults
      OBVIOUS
    <2>1. c \in Threads /\ c # Worker /\ pc \in [Threads -> CallerPC \cup WorkerPC]
      BY ThreadsAssumption DEF Threads, Callers, IInv, TypeOK
    <2>2. WaitReturn(c)
      BY <2>1 DEF Next, Step, LockStep, WorkerLoop, WaitStep, DestroyStep,
         Finished, StartCall, Acquire, Release, EnterFrame, LeaveFrame,
         RaiseFunctionCallError, Admit, Reset, Abort, WorkerSleep, WorkerPop,
         WorkerExit, WorkerCancel, WorkerRefused, WorkerEnter, WorkerIdle,
         WorkerNotify, StatementError, StartWait, WaitSleep, WaitReturn,
         BeginDestroy, DestroyNotify, JoinWorker, StopEventLoop,
         LeaveEventLoop, JoinEventLoop, Goto, vars
    <2>3. queue = <<>> /\ ~running
      BY <2>2 DEF WaitReturn, Quiescent
    <2>4. ~Popped /\ Len(queue) = 0 /\ Len(log) \in Nat
      BY <2>3 DEF IInv, WorkerInv, TypeOK
    <2>5. Len(log) = admitted
      BY <2>4 DEF IInv, FifoNothingLost, InHand
    <2> QED
      BY <2>2, <2>5, WaitReturnAccounted DEF IInv
  <1>2. Init => AllAccounted
    BY DEF Init, AllAccounted
  <1>3. IInv /\ AllAccounted /\ [Next]_vars => AllAccounted'
    BY NextAccounted DEF IInv
  <1> QED
    BY <1>1, <1>2, <1>3, InitIInv, NextIInv, PTL DEF Spec, WaitIsABoundary

\* An error of a task is kept until a wait takes it, is handed out once and in
\* the order of the tasks, and no task is skipped in silence.
THEOREM ErrorsDelivered == Spec => []ErrorsExactlyOnce
  <1>1. IInv /\ AllAccounted => ErrorsExactlyOnce
    <2> SUFFICES ASSUME IInv, AllAccounted PROVE ErrorsExactlyOnce
      OBVIOUS
    <2>1. received \in Seq(Nat) /\ errors \in Seq(Nat)
      BY DEF IInv, TypeOK
    <2>2. Len(Reported) = faults
      BY <2>1, ConcatProperties DEF Reported, AllAccounted
    <2> QED
      BY <2>2 DEF IInv, ReportInv, ErrorsExactlyOnce
  <1>2. Init => AllAccounted
    BY DEF Init, AllAccounted
  <1>3. IInv /\ AllAccounted /\ [Next]_vars => AllAccounted'
    BY NextAccounted DEF IInv
  <1> QED
    BY <1>1, <1>2, <1>3, InitIInv, NextIInv, PTL DEF Spec
=============================================================================
