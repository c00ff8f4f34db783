--------------------------- MODULE AsyncContract ---------------------------
(***************************************************************************)
(* What one Interpreter promises about its async functions, without locks, *)
(* threads or notifications: a queue of admitted tasks that settle one by  *)
(* one, in order; a task enters user code only in the program generation   *)
(* that admitted it and keeps that generation until it has finished; after *)
(* Close only the task being executed admits, and Teardown finds nothing   *)
(* left.                                                                   *)
(***************************************************************************)
EXTENDS Integers, Sequences

CONSTANT NoTask

VARIABLES
  pending,     \* admitted tasks that have not begun
  active,      \* the task inside user code, or NoTask
  generation,  \* the generation of the installed program
  closed,      \* no more admission from outside
  gone,        \* the interpreter's storage may be destroyed
  settled      \* the tasks that are over, in order, and whether they ran

vars == <<pending, active, generation, closed, gone, settled>>

Init ==
  /\ pending = <<>> /\ active = NoTask /\ generation = 0
  /\ closed = FALSE /\ gone = FALSE /\ settled = <<>>

\* Task ids number the admissions.
NextId == Len(settled) + (IF active = NoTask THEN 0 ELSE 1) + Len(pending) + 1

Admit ==
  /\ ~closed \/ active # NoTask
  /\ pending' = Append(pending, [id |-> NextId, gen |-> generation])
  /\ UNCHANGED <<active, generation, closed, gone, settled>>

Begin ==
  /\ active = NoTask /\ pending # <<>> /\ Head(pending).gen = generation
  /\ active' = Head(pending) /\ pending' = Tail(pending)
  /\ UNCHANGED <<generation, closed, gone, settled>>

Finish ==
  /\ active # NoTask
  /\ settled' = Append(settled, [id |-> active.id, ran |-> TRUE])
  /\ active' = NoTask
  /\ UNCHANGED <<pending, generation, closed, gone>>

\* Cancelled by a reset, or refused before its first statement.
Skip ==
  /\ active = NoTask /\ pending # <<>>
  /\ settled' = Append(settled, [id |-> Head(pending).id, ran |-> FALSE])
  /\ pending' = Tail(pending)
  /\ UNCHANGED <<active, generation, closed, gone>>

Reset ==
  /\ active = NoTask
  /\ generation' = generation + 1
  /\ UNCHANGED <<pending, active, closed, gone, settled>>

Close ==
  /\ ~closed /\ closed' = TRUE
  /\ UNCHANGED <<pending, active, generation, gone, settled>>

Teardown ==
  /\ closed /\ ~gone /\ pending = <<>> /\ active = NoTask
  /\ gone' = TRUE
  /\ UNCHANGED <<pending, active, generation, closed, settled>>

Next ==
  Admit \/ Begin \/ Finish \/ Skip \/ Reset \/ Close \/ Teardown

Spec == Init /\ [][Next]_vars
=============================================================================
