-------------------------- MODULE AsyncRefinement --------------------------
(***************************************************************************)
(* The locks, threads and notifications of AsyncWorker implement           *)
(* AsyncContract.  A popped task counts as pending until it enters user    *)
(* code and as settled once the worker has released the execution lock.    *)
(***************************************************************************)
EXTENDS AsyncWorker

\* Popped, but not in user code: it has not begun, or never will.
Held == \/ pc[Worker] \in {"acquire", "check"}
        \/ pc[Worker] = "unwound" /\ ~ran

InUserCode == pc[Worker] = "body" \/ (pc[Worker] = "unwound" /\ ran)

pendingMap == IF Held THEN <<cur>> \o queue ELSE queue

activeMap == IF InUserCode THEN cur ELSE NoTask

settledMap == IF pc[Worker] = "released"
              THEN Append(log, [id |-> cur.id, ran |-> ran])
              ELSE log

goneMap == phase \in {"joined", "stopped", "dead"}

Contract == INSTANCE AsyncContract WITH
  pending <- pendingMap,
  active <- activeMap,
  closed <- stopping,
  gone <- goneMap,
  settled <- settledMap

\* Every behaviour of the threads is one the contract allows: FIFO, no stale
\* generation in user code, admission closed to all but the draining task,
\* and nothing left when the worker has been joined.
ImplementsContract == Contract!Spec
=============================================================================
