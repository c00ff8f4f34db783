----------------------- MODULE AsyncRefinementProofs -----------------------
(***************************************************************************)
(* AsyncWorker implements AsyncContract, for every set of threads and      *)
(* every value of the bounds: each step is a contract step or a stutter.   *)
(***************************************************************************)
EXTENDS AsyncRefinement, AsyncWorkerProofs

mapped == <<pendingMap, activeMap, generation, stopping, goneMap, settledMap>>

\* ran says what the worker's position says, where it has a position.
RanInv ==
  /\ pc[Worker] \in {"acquire", "check"} => ~ran
  /\ pc[Worker] = "body" => ran

RefInv == IInv /\ RanInv

-----------------------------------------------------------------------------
(* Facts about one-element prefixes.                                       *)

LEMMA PrefixOne ==
  ASSUME NEW S, NEW x \in S, NEW q \in Seq(S)
  PROVE  /\ <<x>> \o q \in Seq(S)
         /\ <<x>> \o q # <<>>
         /\ Len(<<x>> \o q) = Len(q) + 1
         /\ Head(<<x>> \o q) = x
         /\ Tail(<<x>> \o q) = q
  <1>1. <<x>> \in Seq(S) /\ Len(<<x>>) = 1 /\ <<x>>[1] = x
    OBVIOUS
  <1>2. /\ <<x>> \o q \in Seq(S)
        /\ Len(<<x>> \o q) = Len(q) + 1
        /\ \A i \in 1..Len(q) + 1 :
             (<<x>> \o q)[i] = IF i <= 1 THEN <<x>>[i] ELSE q[i - 1]
    BY <1>1, ConcatProperties
  <1> DEFINE p == <<x>> \o q
  <1>3. p # <<>> /\ Head(p) = x
    BY <1>1, <1>2, EmptySeq
  <1>4. /\ Tail(p) \in Seq(S) /\ Len(Tail(p)) = Len(q)
        /\ \A i \in 1..Len(q) : Tail(p)[i] = p[i + 1]
    BY <1>2, <1>3, HeadTailProperties
  <1>5. \A i \in 1..Len(q) : Tail(p)[i] = q[i]
    BY <1>2, <1>4
  <1>6. Tail(p) = q
    BY <1>4, <1>5, SeqEqual
  <1> QED
    BY <1>2, <1>3, <1>6

LEMMA PrefixOfTail ==
  ASSUME NEW S, NEW q \in Seq(S), q # <<>>
  PROVE  <<Head(q)>> \o Tail(q) = q
  <1>1. Head(q) \in S /\ Tail(q) \in Seq(S) /\ Len(q) \in Nat /\ Len(q) > 0
    BY HeadTailProperties, EmptySeq
  <1> DEFINE p == <<Head(q)>> \o Tail(q)
  <1>2. /\ p \in Seq(S) /\ p # <<>> /\ Head(p) = Head(q) /\ Tail(p) = Tail(q)
        /\ Len(p) = Len(q)
    BY <1>1, PrefixOne, HeadTailProperties
  <1>3. \A i \in 1..Len(q) : p[i] = q[i]
    <2> SUFFICES ASSUME NEW i \in 1..Len(q) PROVE p[i] = q[i]
      OBVIOUS
    <2>1. CASE i = 1
      BY <1>1, <1>2, <2>1, HeadTailProperties
    <2>2. CASE i # 1
      <3>1. i - 1 \in 1..Len(q) - 1
        BY <1>1, <2>2
      <3>2. Tail(p)[i - 1] = p[i] /\ Tail(q)[i - 1] = q[i]
        BY <1>1, <1>2, <3>1, HeadTailProperties
      <3> QED
        BY <1>2, <3>2
    <2> QED
      BY <2>1, <2>2
  <1> QED
    BY <1>2, <1>3, SeqEqual

LEMMA PrefixAppend ==
  ASSUME NEW S, NEW x \in S, NEW y \in S, NEW q \in Seq(S)
  PROVE  Append(<<x>> \o q, y) = <<x>> \o Append(q, y)
  OBVIOUS

-----------------------------------------------------------------------------
(* The invariant behind the mapping.                                       *)

LEMMA NextRan == TypeOK /\ LockInv /\ RanInv /\ [Next]_vars => RanInv'
  <1> SUFFICES ASSUME TypeOK, LockInv, RanInv, [Next]_vars PROVE RanInv'
    OBVIOUS
  <1> USE ThreadsAssumption
      DEF TypeOK, Goto, Threads, Callers, CallerPC, WorkerPC, LockInv, RanInv,
          vars, lockVars, queueVars, lifeVars, histVars
  <1>1. ASSUME NEW t \in Threads, StartCall(t) PROVE RanInv'
    BY <1>1 DEF StartCall
  <1>2. ASSUME NEW t \in Threads, Acquire(t) PROVE RanInv'
    BY <1>2 DEF Acquire, LockFree
  <1>3. ASSUME NEW t \in Threads, Release(t) PROVE RanInv'
    BY <1>3 DEF Release
  <1>4. ASSUME NEW t \in Threads, EnterFrame(t) PROVE RanInv'
    BY <1>4 DEF EnterFrame
  <1>5. ASSUME NEW t \in Threads, LeaveFrame(t) PROVE RanInv'
    BY <1>5 DEF LeaveFrame
  <1>6. ASSUME NEW t \in Threads, RaiseFunctionCallError(t) PROVE RanInv'
    BY <1>6 DEF RaiseFunctionCallError
  <1>7. ASSUME NEW t \in Threads, Admit(t) PROVE RanInv'
    BY <1>7 DEF Admit
  <1>8. ASSUME NEW t \in Threads, Reset(t) PROVE RanInv'
    BY <1>8 DEF Reset
  <1>9. ASSUME NEW t \in Threads, Abort(t) PROVE RanInv'
    BY <1>9 DEF Abort
  <1>10. ASSUME WorkerSleep PROVE RanInv'
    BY <1>10 DEF WorkerSleep, WorkerAwake
  <1>11. ASSUME WorkerPop PROVE RanInv'
    BY <1>11 DEF WorkerPop, WorkerAwake
  <1>12. ASSUME WorkerExit PROVE RanInv'
    BY <1>12 DEF WorkerExit, WorkerAwake
  <1>13. ASSUME WorkerCancel PROVE RanInv'
    BY <1>13 DEF WorkerCancel
  <1>14. ASSUME WorkerRefused PROVE RanInv'
    BY <1>14 DEF WorkerRefused
  <1>15. ASSUME WorkerEnter PROVE RanInv'
    BY <1>15 DEF WorkerEnter
  <1>16. ASSUME WorkerIdle PROVE RanInv'
    BY <1>16 DEF WorkerIdle
  <1>17. ASSUME WorkerNotify PROVE RanInv'
    BY <1>17 DEF WorkerNotify
  <1>18. ASSUME StatementError PROVE RanInv'
    BY <1>18 DEF StatementError
  <1>19. ASSUME NEW t \in Clients, StartWait(t) PROVE RanInv'
    BY <1>19 DEF StartWait
  <1>20. ASSUME NEW t \in Clients, WaitSleep(t) PROVE RanInv'
    BY <1>20 DEF WaitSleep
  <1>21. ASSUME NEW t \in Clients, WaitReturn(t) PROVE RanInv'
    BY <1>21 DEF WaitReturn
  <1>22. ASSUME NEW t \in Clients, BeginDestroy(t) PROVE RanInv'
    BY <1>22 DEF BeginDestroy
  <1>23. ASSUME DestroyNotify PROVE RanInv'
    BY <1>23 DEF DestroyNotify
  <1>24. ASSUME JoinWorker PROVE RanInv'
    BY <1>24 DEF JoinWorker
  <1>25. ASSUME StopEventLoop PROVE RanInv'
    BY <1>25 DEF StopEventLoop
  <1>26. ASSUME NEW t \in Handlers, LeaveEventLoop(t) PROVE RanInv'
    BY <1>26 DEF LeaveEventLoop
  <1>27. ASSUME JoinEventLoop PROVE RanInv'
    BY <1>27 DEF JoinEventLoop
  <1>28. CASE UNCHANGED vars
    BY <1>28
  <1> QED
    BY <1>1, <1>2, <1>3, <1>4, <1>5, <1>6, <1>7, <1>8, <1>9, <1>10,
       <1>11, <1>12, <1>13, <1>14, <1>15, <1>16, <1>17, <1>18, <1>19,
       <1>20, <1>21, <1>22, <1>23, <1>24, <1>25, <1>26, <1>27, <1>28
    DEF Next, Step, LockStep, WorkerLoop, WaitStep, DestroyStep, Finished

LEMMA InitRefInv == Init => RefInv
  <1>1. Init => RanInv
    BY DEF Init, RanInv, Threads
  <1> QED
    BY <1>1, InitIInv DEF RefInv

LEMMA NextRefInv == RefInv /\ [Next]_vars => RefInv'
  BY NextIInv, NextRan DEF RefInv, IInv

-----------------------------------------------------------------------------
(* The steps that move a task.                                             *)

LEMMA MapTypes ==
  ASSUME RefInv
  PROVE  /\ cur \in Task /\ queue \in Seq(Task) /\ pendingMap \in Seq(Task)
         /\ Popped => cur # NoTask
         /\ Held \/ InUserCode \/ pc[Worker] = "released" <=> Popped
         /\ ~(Held /\ InUserCode)
  <1>1. cur \in Task /\ queue \in Seq(Task) /\ Len(log) \in Nat /\ ran \in BOOLEAN
    BY DEF RefInv, IInv, TypeOK
  <1>2. Popped => cur # NoTask
    BY <1>1 DEF RefInv, IInv, FifoNothingLost, NoTask
  <1>3. pendingMap \in Seq(Task)
    BY <1>1, PrefixOne DEF pendingMap
  <1> QED
    BY <1>1, <1>2, <1>3 DEF Held, InUserCode, Popped

LEMMA RefineAdmit ==
  ASSUME RefInv, NEW t \in Threads, Admit(t)
  PROVE  Contract!Admit
  <1> DEFINE new == [id |-> admitted + 1, gen |-> generation]
  <1>1. /\ queue' = Append(queue, new)
        /\ UNCHANGED <<cur, ran, log, generation, stopping, phase>>
        /\ pc[t] = "body"
    BY DEF Admit, lifeVars, queueVars, histVars
  <1>2. new \in Task /\ cur \in Task /\ queue \in Seq(Task)
    BY MapTypes DEF RefInv, IInv, TypeOK, Task
  <1>3. pc'[Worker] = pc[Worker] \/ (pc[Worker] = "off" /\ pc'[Worker] = "ready")
    BY DEF Admit, RefInv, IInv, TypeOK, Threads
  <1>4. /\ Held' = Held
        /\ activeMap' = activeMap
        /\ settledMap' = settledMap
        /\ goneMap' = goneMap
    BY <1>1, <1>3 DEF Held, InUserCode, activeMap, settledMap, goneMap
  <1>5. pendingMap' = Append(pendingMap, new)
    <2>1. CASE Held
      BY <1>1, <1>2, <1>4, <2>1, PrefixAppend DEF pendingMap
    <2>2. CASE ~Held
      BY <1>1, <1>4, <2>2 DEF pendingMap
    <2> QED
      BY <2>1, <2>2
  <1>6. ~stopping \/ activeMap # NoTask
    <2>1. CASE t = Worker
      BY <1>1, <2>1, MapTypes DEF activeMap, InUserCode, Popped
    <2>2. CASE t # Worker
      BY <2>2 DEF Admit, MayAdmit
    <2> QED
      BY <2>1, <2>2
  <1>7. Contract!NextId = admitted + 1
    <2> DEFINE held == IF Held THEN 1 ELSE 0
               inside == IF InUserCode THEN 1 ELSE 0
               over == IF pc[Worker] = "released" THEN 1 ELSE 0
               entry == [id |-> cur.id, ran |-> ran]
    <2>1. /\ Len(log) \in Nat /\ Len(queue) \in Nat /\ admitted \in Nat
          /\ log \in Seq([id : Nat, ran : BOOLEAN])
          /\ entry \in [id : Nat, ran : BOOLEAN]
      BY <1>2 DEF RefInv, IInv, TypeOK, Task
    <2>2. admitted = Len(log) + InHand + Len(queue)
      BY DEF RefInv, IInv, FifoNothingLost
    <2>3. Len(pendingMap) = Len(queue) + held
      BY <1>2, <2>1, PrefixOne DEF pendingMap
    <2>4. Len(settledMap) = Len(log) + over
      BY <2>1, AppendProperties DEF settledMap
    <2>5. (IF activeMap = NoTask THEN 0 ELSE 1) = inside
      BY MapTypes DEF activeMap
    <2>6. InHand = held + inside + over
      BY MapTypes DEF Held, InUserCode, InHand
    <2>7. held \in {0, 1} /\ inside \in {0, 1} /\ over \in {0, 1}
      OBVIOUS
    <2>8. Contract!NextId = Len(settledMap) + inside + Len(pendingMap) + 1
      BY <2>5 DEF Contract!NextId
    <2> HIDE DEF held, inside, over, entry
    <2> QED
      BY <2>1, <2>2, <2>3, <2>4, <2>6, <2>7, <2>8
  <1> QED
    BY <1>1, <1>4, <1>5, <1>6, <1>7 DEF Contract!Admit

LEMMA RefineEnter ==
  ASSUME RefInv, WorkerEnter
  PROVE  Contract!Begin
  <1>1. /\ pc[Worker] = "check" /\ pc'[Worker] = "body"
        /\ ~ran /\ ran' /\ cur.gen = generation
        /\ UNCHANGED <<cur, queue, log, generation, stopping, phase>>
    BY DEF WorkerEnter, SameGeneration, RefInv, IInv, TypeOK, Threads, RanInv,
           Goto, lifeVars, histVars
  <1>2. Held /\ ~InUserCode /\ ~Held' /\ InUserCode'
    BY <1>1 DEF Held, InUserCode
  <1>3. /\ pendingMap = <<cur>> \o queue /\ pendingMap' = queue
        /\ activeMap = NoTask /\ activeMap' = cur
        /\ settledMap' = settledMap /\ goneMap' = goneMap
    BY <1>1, <1>2 DEF pendingMap, activeMap, settledMap, goneMap
  <1>4. pendingMap # <<>> /\ Head(pendingMap) = cur /\ Tail(pendingMap) = queue
    BY <1>3, MapTypes, PrefixOne
  <1> QED
    BY <1>1, <1>3, <1>4 DEF Contract!Begin

LEMMA RefineRelease ==
  ASSUME RefInv, Release(Worker)
  PROVE  Contract!Finish \/ Contract!Skip
  <1>1. /\ pc[Worker] = "unwound" /\ pc'[Worker] = "released"
        /\ UNCHANGED <<cur, ran, queue, log, generation, stopping, phase>>
    BY DEF Release, RefInv, IInv, LockInv, TypeOK, Threads, Goto, queueVars,
           lifeVars, histVars
  <1>2. Popped /\ ~Held' /\ ~InUserCode'
    BY <1>1 DEF Popped, Held, InUserCode
  <1>3. /\ pendingMap' = queue /\ activeMap' = NoTask /\ goneMap' = goneMap
        /\ settledMap = log
        /\ settledMap' = Append(log, [id |-> cur.id, ran |-> ran])
    BY <1>1, <1>2 DEF pendingMap, activeMap, goneMap, settledMap
  <1>4. CASE ran
    <2>1. pendingMap = queue /\ activeMap = cur /\ cur # NoTask
      BY <1>1, <1>2, <1>4, MapTypes
      DEF pendingMap, activeMap, Held, InUserCode
    <2>2. [id |-> cur.id, ran |-> ran] = [id |-> cur.id, ran |-> TRUE]
      BY <1>4
    <2> QED
      BY <1>1, <1>3, <2>1, <2>2 DEF Contract!Finish
  <1>5. CASE ~ran
    <2>1. pendingMap = <<cur>> \o queue /\ activeMap = NoTask
      BY <1>1, <1>5 DEF pendingMap, activeMap, Held, InUserCode
    <2>2. pendingMap # <<>> /\ Head(pendingMap) = cur /\ Tail(pendingMap) = queue
      BY <2>1, MapTypes, PrefixOne
    <2>3. ran = FALSE
      BY <1>5 DEF RefInv, IInv, TypeOK
    <2> QED
      BY <1>1, <1>3, <2>1, <2>2, <2>3 DEF Contract!Skip
  <1> QED
    BY <1>4, <1>5

LEMMA RefinePop ==
  ASSUME RefInv, WorkerPop
  PROVE  UNCHANGED mapped
  <1>1. /\ pc[Worker] = "ready" /\ pc'[Worker] = "acquire"
        /\ queue # <<>> /\ queue \in Seq(Task)
        /\ cur' = Head(queue) /\ queue' = Tail(queue)
        /\ UNCHANGED <<log, generation, stopping, phase>>
    BY DEF WorkerPop, WorkerAwake, TakeOldest, RefInv, IInv, TypeOK, Threads,
           Goto, lifeVars, histVars
  <1>2. pendingMap = queue /\ pendingMap' = <<Head(queue)>> \o Tail(queue)
    BY <1>1 DEF pendingMap, Held
  <1>3. pendingMap' = pendingMap
    BY <1>1, <1>2, PrefixOfTail
  <1> QED
    BY <1>1, <1>3
    DEF mapped, activeMap, goneMap, settledMap, InUserCode

LEMMA RefineIdle ==
  ASSUME RefInv, WorkerIdle
  PROVE  UNCHANGED mapped
  <1>1. /\ pc[Worker] = "released" /\ pc'[Worker] = "notify"
        /\ log' = Append(log, [id |-> cur.id, ran |-> ran])
        /\ UNCHANGED <<queue, cur, ran, generation, stopping, phase>>
    BY DEF WorkerIdle, RefInv, IInv, TypeOK, Threads, Goto, lifeVars
  <1> QED
    BY <1>1 DEF mapped, pendingMap, activeMap, goneMap, settledMap, Held,
                InUserCode

LEMMA RefineReset ==
  ASSUME RefInv, NEW t \in Threads, Reset(t)
  PROVE  Contract!Reset
  <1>1. /\ pc[t] = "body" /\ depth = 0 /\ generation' = generation + 1
        /\ UNCHANGED <<pc, queue, cur, ran, log, stopping, phase>>
    BY DEF Reset, MayReset, queueVars, lifeVars, histVars
  <1>2. ~InUserCode
    BY <1>1 DEF RefInv, IInv, LockInv, InUserCode, Threads
  <1> QED
    BY <1>1, <1>2 DEF Contract!Reset, pendingMap, activeMap, goneMap,
                      settledMap, Held, InUserCode

LEMMA RefineClose ==
  ASSUME RefInv, NEW c \in Clients, BeginDestroy(c)
  PROVE  Contract!Close
  <1>1. /\ phase = "alive" /\ phase' = "closing" /\ ~stopping /\ stopping'
        /\ pc'[Worker] = pc[Worker]
        /\ UNCHANGED <<queue, cur, ran, log, generation>>
    BY ThreadsAssumption
    DEF BeginDestroy, RefInv, IInv, WorkerInv, TypeOK, Threads, Callers, Goto,
        queueVars, histVars
  <1>2. stopping' = TRUE
    BY DEF BeginDestroy
  <1> QED
    BY <1>1, <1>2 DEF Contract!Close, pendingMap, activeMap, goneMap,
                      settledMap, Held, InUserCode

LEMMA RefineTeardown ==
  ASSUME RefInv, JoinWorker
  PROVE  Contract!Teardown
  <1>1. /\ phase = "draining" /\ phase' = "joined"
        /\ pc[Worker] \in {"off", "exited"}
        /\ UNCHANGED <<pc, queue, cur, ran, log, generation, stopping>>
    BY DEF JoinWorker, queueVars, histVars
  <1>2. queue = <<>> /\ stopping
    BY <1>1 DEF RefInv, IInv, WorkerInv
  <1> QED
    BY <1>1, <1>2 DEF Contract!Teardown, pendingMap, activeMap, goneMap,
                      settledMap, Held, InUserCode

-----------------------------------------------------------------------------
(* Every other step leaves the mapped state alone.                         *)

\* Enough for a stutter: the worker's mapped position and its task stay.
LEMMA Stutter ==
  ASSUME UNCHANGED <<queue, cur, log, generation, stopping, goneMap, Held,
                     InUserCode, pc[Worker] = "released">>,
         pc[Worker] = "released" => ran' = ran
  PROVE  UNCHANGED mapped
  BY DEF mapped, pendingMap, activeMap, settledMap

LEMMA RefinementStep == RefInv /\ [Next]_vars => [Contract!Next]_mapped
  <1> SUFFICES ASSUME RefInv, [Next]_vars
               PROVE  Contract!Next \/ UNCHANGED mapped
    OBVIOUS
  <1> DEFINE Quiet ==
        /\ UNCHANGED <<queue, cur, log, generation, stopping, goneMap, Held,
                       InUserCode, pc[Worker] = "released">>
        /\ pc[Worker] = "released" => ran' = ran
  <1> USE ThreadsAssumption
      DEF RefInv, IInv, TypeOK, Goto, Threads, Callers, CallerPC, WorkerPC,
          LockInv, RanInv, Held, InUserCode, goneMap, Phase,
          vars, lockVars, queueVars, lifeVars, histVars
  <1>1. ASSUME NEW t \in Threads, StartCall(t) PROVE Quiet
    BY <1>1 DEF StartCall
  <1>2. ASSUME NEW t \in Threads, Acquire(t) PROVE Quiet
    BY <1>2 DEF Acquire, LockFree
  <1>3. ASSUME NEW t \in Threads, Release(t) PROVE Contract!Finish \/ Contract!Skip \/ Quiet
    <2>1. CASE t = Worker
      BY <1>3, <2>1, RefineRelease
    <2>2. CASE t # Worker
      BY <1>3, <2>2 DEF Release
    <2> QED
      BY <2>1, <2>2
  <1>4. ASSUME NEW t \in Threads, EnterFrame(t) PROVE Quiet
    BY <1>4 DEF EnterFrame
  <1>5. ASSUME NEW t \in Threads, LeaveFrame(t) PROVE Quiet
    BY <1>5 DEF LeaveFrame
  <1>6. ASSUME NEW t \in Threads, RaiseFunctionCallError(t) PROVE Quiet
    BY <1>6 DEF RaiseFunctionCallError
  <1>7. ASSUME NEW t \in Threads, Admit(t) PROVE Contract!Admit
    BY <1>7, RefineAdmit
  <1>8. ASSUME NEW t \in Threads, Reset(t) PROVE Contract!Reset
    BY <1>8, RefineReset
  <1>9. ASSUME NEW t \in Threads, Abort(t) PROVE Quiet
    BY <1>9 DEF Abort
  <1>10. ASSUME WorkerSleep PROVE Quiet
    BY <1>10 DEF WorkerSleep, WorkerAwake
  <1>11. ASSUME WorkerPop PROVE UNCHANGED mapped
    BY <1>11, RefinePop
  <1>12. ASSUME WorkerExit PROVE Quiet
    BY <1>12 DEF WorkerExit, WorkerAwake
  <1>13. ASSUME WorkerCancel PROVE Quiet
    BY <1>13 DEF WorkerCancel
  <1>14. ASSUME WorkerRefused PROVE Quiet
    BY <1>14 DEF WorkerRefused
  <1>15. ASSUME WorkerEnter PROVE Contract!Begin
    BY <1>15, RefineEnter
  <1>16. ASSUME WorkerIdle PROVE UNCHANGED mapped
    BY <1>16, RefineIdle
  <1>17. ASSUME WorkerNotify PROVE Quiet
    BY <1>17 DEF WorkerNotify
  <1>18. ASSUME StatementError PROVE Quiet
    BY <1>18 DEF StatementError
  <1>19. ASSUME NEW t \in Clients, StartWait(t) PROVE Quiet
    BY <1>19 DEF StartWait
  <1>20. ASSUME NEW t \in Clients, WaitSleep(t) PROVE Quiet
    BY <1>20 DEF WaitSleep
  <1>21. ASSUME NEW t \in Clients, WaitReturn(t) PROVE Quiet
    BY <1>21 DEF WaitReturn
  <1>22. ASSUME NEW t \in Clients, BeginDestroy(t) PROVE Contract!Close
    BY <1>22, RefineClose
  <1>23. ASSUME DestroyNotify PROVE Quiet
    BY <1>23 DEF DestroyNotify
  <1>24. ASSUME JoinWorker PROVE Contract!Teardown
    BY <1>24, RefineTeardown
  <1>25. ASSUME StopEventLoop PROVE Quiet
    BY <1>25 DEF StopEventLoop
  <1>26. ASSUME NEW t \in Handlers, LeaveEventLoop(t) PROVE Quiet
    BY <1>26 DEF LeaveEventLoop
  <1>27. ASSUME JoinEventLoop PROVE Quiet
    BY <1>27 DEF JoinEventLoop
  <1>28. UNCHANGED vars => Quiet
    OBVIOUS
  <1>29. Quiet => UNCHANGED mapped
    BY Stutter
  <1> HIDE DEF Quiet
  <1> QED
    BY <1>1, <1>2, <1>3, <1>4, <1>5, <1>6, <1>7, <1>8, <1>9, <1>10,
       <1>11, <1>12, <1>13, <1>14, <1>15, <1>16, <1>17, <1>18, <1>19,
       <1>20, <1>21, <1>22, <1>23, <1>24, <1>25, <1>26, <1>27, <1>28, <1>29
    DEF Next, Step, LockStep, WorkerLoop, WaitStep, DestroyStep, Finished,
        Contract!Next

LEMMA RefinementInit == Init => Contract!Init
  BY DEF Init, Contract!Init, Threads, pendingMap, activeMap, settledMap,
         goneMap, Held, InUserCode

\* The threads, locks and notifications of the interpreter implement the
\* contract of its async functions.
THEOREM Refinement == Spec => ImplementsContract
  <1>1. RefInv /\ [Next]_vars => [Contract!Next]_(Contract!vars)
    BY RefinementStep DEF mapped, Contract!vars
  <1> QED
    BY <1>1, RefinementInit, InitRefInv, NextRefInv, PTL
    DEF Spec, ImplementsContract, Contract!Spec
=============================================================================
