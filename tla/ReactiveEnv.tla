---------------------------- MODULE ReactiveEnv ----------------------------
(***************************************************************************)
(* The reactive graph of the global Environment                            *)
(* (src/src/jtml/legacy_runtime/environment.cpp) as the Interpreter        *)
(* (src/src/interpreter.cpp) drives it: top-level statements, event        *)
(* handlers, derived variables, dirty marks and subscriptions.             *)
(*                                                                         *)
(* One thread runs at a time (executionMutex), but callbacks run inside    *)
(* evaluations and recalculations, so the C++ call stack is explicit: the  *)
(* head of `stack` is the innermost call, and every engine action is one   *)
(* step of it.                                                             *)
(*                                                                         *)
(* Each name was first defined by a leading `define`; a formula stands for *)
(* an expression with its reads in evaluation order; an evaluation that    *)
(* throws yields no member of Values.  The depth computation of markDirty  *)
(* does not end on a cyclic graph: the model stops there (mode "cyclic").  *)
(*                                                                         *)
(* Histories, not in the code: heard, statements.                          *)
(***************************************************************************)
EXTENDS Naturals, Sequences, FiniteSets, Functions

CONSTANTS
  Vars, Values,
  Formulas,        \* expressions of the program
  Deps,            \* the names a formula reads, left to right
  Apply(_, _),     \* its value for the values read
  Shown(_),        \* getStringValue: what two values are compared by
  Falsy,           \* the values isTruthy rejects
  Argument,        \* the formula that is a callback's only parameter
  NoFormula,       \* the expression of a variable that is not derived
  Actions,         \* declared functions
  Body,            \* their statements: "if" guards the rest, "set" assigns
  Initial,         \* values of the leading defines
  Writes, Derives, Unbinds, Subscriptions, Handlers,
                   \* what the program and its page may do
  MaxStatements    \* bound: top-level statements and events

ASSUME NamesAssumption ==
  /\ NoFormula \notin Formulas
  /\ Argument \in Formulas
  /\ Deps \in [Formulas -> Seq(Vars)] /\ Deps[Argument] = <<>>
  /\ Initial \in [Vars -> Values]
  /\ Falsy \subseteq Values

ASSUME ProgramAssumption ==
  /\ Writes \subseteq Vars \X Values
  /\ Derives \subseteq Vars \X Formulas
  /\ Unbinds \subseteq Vars
  /\ Subscriptions \subseteq Actions \X Vars
  /\ Handlers \subseteq Actions \X Values
  /\ Body \in [Actions ->
                 Seq([op : {"if", "set"}, var : Vars, formula : Formulas])]
  /\ MaxStatements \in Nat

VARIABLES
  val,         \* VarInfo::currentValue
  formula,     \* VarInfo::expression; VarKind is Derived when there is one
  adj,         \* adjacency: the dependents of a variable
  dirty,       \* dirtyVars
  subs,        \* eventSubscribers
  names,       \* functionSubscriptions
  stack,       \* the calls in progress, innermost first
  mode,        \* "load": statements run, "serve": events arrive
  statements, heard

graphVars == <<formula, adj>>
subVars   == <<subs, names>>
vars == <<val, graphVars, dirty, subVars, stack, mode, statements, heard>>

top  == Head(stack)
rest == Tail(stack)

Derived(v) == formula[v] # NoFormula

\* How often a formula reads u: so many edges u has to its variable.
Repeats(u, f) == Cardinality({i \in DOMAIN Deps[f] : Deps[f][i] = u})

-----------------------------------------------------------------------------
(* The calls in progress.                                                  *)

UpdateFrame == [op : {"update"}, var : Vars, formula : Formulas,
                args : Seq(Values), asked : BOOLEAN]
DeriveFrame == [op : {"derive"}, var : Vars, formula : Formulas,
                args : Seq(Values), asked : BOOLEAN]
CallFrame   == [op : {"call"}, fn : Actions, pc : Nat \ {0}, arg : Values,
                args : Seq(Values), asked : BOOLEAN]
NotifyFrame == [op : {"notify"}, queue : Seq(Vars), also : [Vars -> Nat],
                about : Vars, due : SUBSET Actions]
RecalcFrame == {r \in [op : {"recalc"}, todo : SUBSET Vars, order : Seq(Vars)] :
                  r.todo = {} => r.order # <<>>}
SettleFrame == [op : {"settle"}]
Frame == UpdateFrame \cup DeriveFrame \cup CallFrame \cup NotifyFrame
           \cup RecalcFrame \cup SettleFrame

\* updateVariable
Update(v) == [op |-> "update", var |-> v, formula |-> formula[v],
              args |-> <<>>, asked |-> FALSE]

\* deriveVariable, at its evaluator
Derivation(v, f) == [op |-> "derive", var |-> v, formula |-> f,
                     args |-> <<>>, asked |-> FALSE]

\* executeFunction
Call(fn, w) == [op |-> "call", fn |-> fn, pc |-> 1, arg |-> w,
                args |-> <<>>, asked |-> FALSE]

\* notifySubscribers of v, and of each dependent as often as it is listed
Emit(v) == [op |-> "notify", queue |-> <<v>>,
            also |-> [w \in Vars |-> IF w \in adj[v]
                                       THEN Repeats(v, formula[w]) ELSE 0],
            about |-> v, due |-> {}]

\* MUTANT: the variables of the recalculation are not announced.
AnnounceNothing(order) == [op |-> "notify", queue |-> <<>>,
                           also |-> [w \in Vars |-> 0],
                           about |-> Head(order), due |-> {}]

\* the last loop of recalcDirty
Announce(order) == [op |-> "notify", queue |-> order,
                    also |-> [w \in Vars |-> 0],
                    about |-> Head(order), due |-> {}]

Recalc(D) == [op |-> "recalc", todo |-> D, order |-> <<>>]

\* recalcDirty, not begun
Settle == [op |-> "settle"]

Running(op) == stack # <<>> /\ top.op = op

-----------------------------------------------------------------------------
(* The dependency graph.                                                   *)

\* What a walk along the edges from v meets when it does not leave D.
Walk(D, v) ==
  {u \in Vars : \A T \in SUBSET Vars :
     (v \in T /\ \A w \in T \ D : adj[w] \subseteq T) => u \in T}

Reach(v) == Walk({}, v)

\* MUTANT: only direct dependents are marked.
MarkDirtyOnce(v) == dirty \cup {v} \cup adj[v]

MarkDirty(v) == dirty \cup Walk(dirty, v)

\* dfsCycleCheck: the walk from v comes to a variable for the second time.
Revisits(v) ==
  LET R == Reach(v) IN
  \/ \E u \in R : v \in adj[u]
  \/ \E w \in R : \E u \in R :
       w \in adj[u] /\ (Repeats(u, formula[w]) > 1
                          \/ \E t \in R \ {u} : w \in adj[t])

\* MUTANT: the edges from the names it read are left in place.
KeepEdges(v) == adj

\* removeDependency for every name the old expression read.
WithoutEdges(v) ==
  [u \in Vars |-> IF Derived(v) /\ u \in Range(Deps[formula[v]])
                    THEN adj[u] \ {v} ELSE adj[u]]

\* addDependency for every name the new expression reads.
WithEdges(v, f) ==
  [u \in Vars |-> IF u \in Range(Deps[f]) THEN adj[u] \cup {v} ELSE adj[u]]

-----------------------------------------------------------------------------
(* What a program's top-level statements, its end and its page start.      *)

Init ==
  /\ val = Initial
  /\ formula = [v \in Vars |-> NoFormula]
  /\ adj = [v \in Vars |-> {}]
  /\ dirty = {}
  /\ subs = [v \in Vars |-> {}] /\ names = [v \in Vars |-> {}]
  /\ stack = <<>>
  /\ mode = "load"
  /\ statements = 0
  /\ heard = [v \in Vars |-> [fn \in Actions |-> Initial[v]]]

AtRest == stack = <<>>

Statement(during) ==
  /\ AtRest /\ mode = during /\ statements < MaxStatements
  /\ statements' = statements + 1

\* interpretDefine of a known name, and interpretAssignment.
Assign ==
  /\ Statement("load")
  /\ \E write \in Writes :
       /\ val' = [val EXCEPT ![write[1]] = write[2]]
       /\ dirty' = MarkDirty(write[1])
  /\ stack' = <<Settle>>
  /\ UNCHANGED <<graphVars, subVars, mode, heard>>

\* The checks and erasures of deriveVariable, before its evaluator is called.
Derive ==
  /\ Statement("load")
  /\ \E d \in Derives :
       /\ ~Revisits(d[1])
       /\ adj' = WithoutEdges(d[1])
       /\ subs' = [subs EXCEPT ![d[1]] = {}]
       /\ names' = [names EXCEPT ![d[1]] = {}]
       /\ stack' = <<Derivation(d[1], d[2])>>
  /\ UNCHANGED <<val, formula, dirty, mode, heard>>

\* deriveVariable throws, and interpretDerive reports it.
DeriveRefused ==
  /\ Statement("load")
  /\ \E d \in Derives : Revisits(d[1])
  /\ UNCHANGED <<val, graphVars, dirty, subVars, stack, mode, heard>>

\* unbindVariable; the edges to dependents stay, because the loop over them
\* asks removeDependency for the opposite ones, and the names stay registered.
Unbind(v) ==
  /\ Statement("load")
  /\ subs' = [subs EXCEPT ![v] = {}]
  /\ adj' = WithoutEdges(v)
  /\ formula' = [formula EXCEPT ![v] = NoFormula]
  /\ dirty' = IF Derived(v) THEN dirty \ {v} ELSE dirty
  /\ UNCHANGED <<val, names, stack, mode, heard>>

\* A name that is registered is not registered again.
Subscribe(fn, v) ==
  /\ Statement("load")
  /\ IF fn \in names[v]
       THEN UNCHANGED <<subVars, heard>>
       ELSE /\ subs' = [subs EXCEPT ![v] = @ \cup {fn}]
            /\ names' = [names EXCEPT ![v] = @ \cup {fn}]
            /\ heard' = [heard EXCEPT ![v][fn] = val[v]]
  /\ UNCHANGED <<val, graphVars, dirty, stack, mode>>

Unsubscribe(fn, v) ==
  /\ Statement("load")
  /\ fn \in names[v]
  /\ subs' = [subs EXCEPT ![v] = @ \ {fn}]
  /\ names' = [names EXCEPT ![v] = @ \ {fn}]
  /\ UNCHANGED <<val, graphVars, dirty, stack, mode, heard>>

\* An expression statement that calls an action: nothing is recalculated.
Invoke ==
  /\ Statement("load")
  /\ \E h \in Handlers : stack' = <<Call(h[1], h[2])>>
  /\ UNCHANGED <<val, graphVars, dirty, subVars, mode, heard>>

\* The end of interpret(program), and the start of another.
EndProgram ==
  /\ AtRest /\ mode = "load"
  /\ mode' = "serve"
  /\ stack' = <<Settle>>
  /\ UNCHANGED <<val, graphVars, dirty, subVars, statements, heard>>

StartProgram ==
  /\ AtRest /\ mode = "serve" /\ statements < MaxStatements
  /\ mode' = "load"
  /\ UNCHANGED <<val, graphVars, dirty, subVars, stack, statements, heard>>

\* dispatchEvent, handleFrontendMessage: the handler, then recalcAllDirty.
Event ==
  /\ Statement("serve")
  /\ \E h \in Handlers : stack' = <<Call(h[1], h[2]), Settle>>
  /\ UNCHANGED <<val, graphVars, dirty, subVars, mode, heard>>

-----------------------------------------------------------------------------
(* Evaluation: reading a name first brings a dirty derived variable up to  *)
(* date, and an expression has a value once all its names are read.        *)

Evaluates(fr) == \/ fr.op \in {"update", "derive"}
                 \/ fr.op = "call" /\ fr.pc <= Len(Body[fr.fn])

FormulaOf(fr) == IF fr.op = "call" THEN Body[fr.fn][fr.pc].formula
                                   ELSE fr.formula

ToRead == Deps[FormulaOf(top)][Len(top.args) + 1]

Reads == /\ stack # <<>> /\ Evaluates(top)
         /\ Len(top.args) < Len(Deps[FormulaOf(top)])

Evaluated == /\ stack # <<>> /\ Evaluates(top)
             /\ Len(top.args) = Len(Deps[FormulaOf(top)])

Result == IF FormulaOf(top) = Argument /\ top.op = "call"
            THEN top.arg ELSE Apply(FormulaOf(top), top.args)

Threw == Result \notin Values

\* MUTANT: cached values are read as they are.
NeverOutdated(v) == FALSE

Outdated(v) == v \in dirty /\ Derived(v)

Refresh ==
  /\ Reads /\ ~top.asked /\ Outdated(ToRead)
  /\ stack' = <<Update(ToRead), [top EXCEPT !.asked = TRUE]>> \o rest
  /\ UNCHANGED <<val, graphVars, dirty, subVars, mode, statements, heard>>

Read ==
  /\ Reads /\ (top.asked \/ ~Outdated(ToRead))
  /\ stack' = <<[top EXCEPT !.args = Append(@, val[ToRead]),
                            !.asked = FALSE]>> \o rest
  /\ UNCHANGED <<val, graphVars, dirty, subVars, mode, statements, heard>>

-----------------------------------------------------------------------------
(* updateVariable and the end of deriveVariable.                           *)

\* A new value is one that is displayed differently.
Changes(v, w) == w \in Values /\ Shown(w) # Shown(val[v])

\* Nothing new, or handleError: the old value stays.
Unchanged ==
  /\ Evaluated /\ top.op = "update" /\ ~Changes(top.var, Result)
  /\ stack' = rest
  /\ UNCHANGED <<val, graphVars, dirty, subVars, mode, statements, heard>>

Changed ==
  /\ Evaluated /\ top.op = "update" /\ Changes(top.var, Result)
  /\ val' = [val EXCEPT ![top.var] = Result]
  /\ stack' = <<Emit(top.var)>> \o rest
  /\ UNCHANGED <<graphVars, dirty, subVars, mode, statements, heard>>

\* The evaluator threw: the erasures of Derive are not undone.
DeriveFails ==
  /\ Evaluated /\ top.op = "derive" /\ Threw
  /\ stack' = rest
  /\ UNCHANGED <<val, graphVars, dirty, subVars, mode, statements, heard>>

ClosesCycle(v, f) == Range(Deps[f]) \cap Reach(v) # {}

DeriveSucceeds ==
  /\ Evaluated /\ top.op = "derive" /\ ~Threw
  /\ LET v == top.var IN
     /\ val' = [val EXCEPT ![v] = Result]
     /\ formula' = [formula EXCEPT ![v] = top.formula]
     /\ adj' = WithEdges(v, top.formula)
     /\ IF ClosesCycle(v, top.formula)
          THEN mode' = "cyclic" /\ UNCHANGED dirty
          ELSE dirty' = MarkDirty(v) /\ UNCHANGED mode
  /\ stack' = rest
  /\ UNCHANGED <<subVars, statements, heard>>

-----------------------------------------------------------------------------
(* Subscribers are called one after the other, in any order.               *)

\* The next variable whose subscribers are told.
NotifyNext ==
  /\ Running("notify") /\ top.due = {}
  /\ IF top.queue # <<>>
       THEN LET v == Head(top.queue) IN
            stack' = <<[top EXCEPT !.queue = Tail(@), !.about = v,
                                   !.due = subs[v]]>> \o rest
       ELSE \E v \in Vars :
              /\ top.also[v] > 0
              /\ stack' = <<[top EXCEPT !.also[v] = @ - 1, !.about = v,
                                        !.due = subs[v]]>> \o rest
  /\ UNCHANGED <<val, graphVars, dirty, subVars, mode, statements, heard>>

\* The argument is the stored value: getVariable refreshes nothing.
CallSubscriber ==
  /\ Running("notify")
  /\ \E fn \in top.due :
       /\ stack' = <<Call(fn, val[top.about]),
                     [top EXCEPT !.due = @ \ {fn}]>> \o rest
       /\ heard' = [heard EXCEPT ![top.about][fn] = val[top.about]]
  /\ UNCHANGED <<val, graphVars, dirty, subVars, mode, statements>>

Notified ==
  /\ Running("notify") /\ top.due = {} /\ top.queue = <<>>
  /\ \A v \in Vars : top.also[v] = 0
  /\ stack' = rest
  /\ UNCHANGED <<val, graphVars, dirty, subVars, mode, statements, heard>>

-----------------------------------------------------------------------------
(* Statements of an action: it assigns to the global variable, and the     *)
(* recalculation that follows is that of the action's own, clean scope.    *)

Step == Body[top.fn][top.pc]

NextStep == [top EXCEPT !.pc = @ + 1, !.args = <<>>, !.asked = FALSE]

Guard ==
  /\ Evaluated /\ top.op = "call" /\ Step.op = "if"
  /\ stack' = (IF Result \in Values \ Falsy THEN <<NextStep>> ELSE <<>>) \o rest
  /\ UNCHANGED <<val, graphVars, dirty, subVars, mode, statements, heard>>

Set ==
  /\ Evaluated /\ top.op = "call" /\ Step.op = "set" /\ ~Threw
  /\ val' = [val EXCEPT ![Step.var] = Result]
  /\ dirty' = MarkDirty(Step.var)
  /\ stack' = <<NextStep>> \o rest
  /\ UNCHANGED <<graphVars, subVars, mode, statements, heard>>

\* interpretNode reports the error, and the next statement runs.
SetFails ==
  /\ Evaluated /\ top.op = "call" /\ Step.op = "set" /\ Threw
  /\ stack' = <<NextStep>> \o rest
  /\ UNCHANGED <<val, graphVars, dirty, subVars, mode, statements, heard>>

Return ==
  /\ Running("call") /\ top.pc > Len(Body[top.fn])
  /\ stack' = rest
  /\ UNCHANGED <<val, graphVars, dirty, subVars, mode, statements, heard>>

-----------------------------------------------------------------------------
(* recalcDirty.                                                            *)

StartRecalc ==
  /\ Running("settle")
  /\ stack' = (IF dirty = {} THEN <<>> ELSE <<Recalc(dirty)>>) \o rest
  /\ UNCHANGED <<val, graphVars, dirty, subVars, mode, statements, heard>>

\* The next of sortedVars; updateVariable skips one that is not derived.
UpdateNext ==
  /\ Running("recalc")
  /\ \E v \in top.todo :
       /\ \A u \in top.todo : v \notin adj[u]
       /\ stack' = (IF Derived(v) THEN <<Update(v)>> ELSE <<>>)
                     \o <<[top EXCEPT !.todo = @ \ {v},
                                      !.order = Append(@, v)]>> \o rest
  /\ UNCHANGED <<val, graphVars, dirty, subVars, mode, statements, heard>>

\* The recursive call at the end of recalcDirty.
FollowUp == <<Settle>>

\* MUTANT: the marks are not cleared.
RecalculatedStaysMarked ==
  /\ Running("recalc") /\ top.todo = {}
  /\ stack' = <<Announce(top.order)>> \o FollowUp \o rest
  /\ UNCHANGED <<val, graphVars, dirty, subVars, mode, statements, heard>>

\* Every mark is cleared before the subscribers are told.
Recalculated ==
  /\ Running("recalc") /\ top.todo = {}
  /\ dirty' = {}
  /\ stack' = <<Announce(top.order)>> \o FollowUp \o rest
  /\ UNCHANGED <<val, graphVars, subVars, mode, statements, heard>>

-----------------------------------------------------------------------------
Program == \/ Assign \/ Derive \/ DeriveRefused \/ Invoke
           \/ \E v \in Unbinds : Unbind(v)
           \/ \E s \in Subscriptions : \/ Subscribe(s[1], s[2])
                                       \/ Unsubscribe(s[1], s[2])
           \/ EndProgram \/ StartProgram \/ Event

Engine == \/ Refresh \/ Read
          \/ Unchanged \/ Changed \/ DeriveFails \/ DeriveSucceeds
          \/ NotifyNext \/ CallSubscriber \/ Notified
          \/ Guard \/ Set \/ SetFails \/ Return
          \/ StartRecalc \/ UpdateNext \/ Recalculated

Next == Program \/ Engine

Spec == Init /\ [][Next]_vars

\* The engine is synchronous code: what has begun goes on.
FairSpec == Spec /\ WF_vars(Engine)

-----------------------------------------------------------------------------
\* Types of variables, graph and calls in progress.
TypeOK ==
  /\ val \in [Vars -> Values]
  /\ formula \in [Vars -> Formulas \cup {NoFormula}]
  /\ adj \in [Vars -> SUBSET Vars]
  /\ dirty \subseteq Vars
  /\ subs \in [Vars -> SUBSET Actions]
  /\ names \in [Vars -> SUBSET Actions]
  /\ stack \in Seq(Frame)
  /\ mode \in {"load", "serve", "cyclic"}
  /\ statements \in 0..MaxStatements
  /\ heard \in [Vars -> [Actions -> Values]]

\* What the formula of v says for the values as they are.
Formula(v) == Apply(formula[v], [i \in DOMAIN Deps[formula[v]] |->
                                   val[Deps[formula[v]][i]]])

\* What v stands for, when every formula is followed down to the variables
\* a program assigns.
Meaning[v \in Vars] ==
  IF Derived(v) THEN Apply(formula[v], [i \in DOMAIN Deps[formula[v]] |->
                                          Meaning[Deps[formula[v]][i]]])
                ELSE val[v]

Acyclic == mode # "cyclic"

\* Whatever was derived, redefined, unbound, assigned and notified before,
\* once the interpreter is at rest a derived variable agrees with its formula
\* as far as the two are displayed, unless it is marked, or its formula fails.
\* "Derived values update when their dependencies update."
\* (docs/reference/language-reference.md:972).
DerivedCurrent ==
  AtRest /\ Acyclic =>
    \A v \in Vars \ dirty :
      Derived(v) /\ Formula(v) \in Values => Shown(val[v]) = Shown(Formula(v))

\* A page that waits for events has no marks left, whatever the callbacks of
\* the event before, and the callbacks of those recalculations, marked.
ServesClean == AtRest /\ mode = "serve" => dirty = {}

\* No subscriber is left with an outdated value: when the interpreter is at
\* rest, the last value it was called with is the one the variable has.
SubscribersCurrent ==
  AtRest => \A v \in Vars \ dirty : \A fn \in subs[v] : heard[v][fn] = val[v]

\* Everything that depends on a marked variable is marked.  setVariable and
\* the reads between a write and the recalculation rely on it.
DirtyClosed == Acyclic => \A v \in dirty : adj[v] \subseteq dirty

\* The edges are those of the current formulas: no redefinition leaves an
\* edge behind or takes one away that is needed.
EdgesMatch ==
  AtRest => \A u, v \in Vars :
              v \in adj[u] <=> Derived(v) /\ u \in Range(Deps[formula[v]])

\* A callback writes what a formula reads.
Feedback ==
  \E v, w \in Vars : \E fn \in names[v] :
    /\ Derived(w)
    /\ \E i \in DOMAIN Body[fn] :
         Body[fn][i].op = "set" /\ Body[fn][i].var \in Range(Deps[formula[w]])

\* v is derived, or a formula reads it.
Feeds(v) ==
  \E w \in Vars : Derived(w) /\ v \in {w} \cup Range(Deps[formula[w]])

\* A callback that updateVariable calls, before the marks are cleared, writes.
WriteInRecalc == Set /\ stack[Len(stack)].op = "recalc"

\* It writes a derived variable or what a formula reads, and the mark that
\* the write leaves is cleared although nothing followed it up (see
\* DerivedCurrent in ReactiveLostWrite.cfg).
LostWrite == WriteInRecalc /\ Feeds(Step.var)

\* It writes a variable with subscribers, and nothing announces the new value.
LostNotice == WriteInRecalc /\ subs[Step.var] # {}

\* A callback of a refresh writes what the expression that asked for it, or a
\* formula, reads: what was read before is out of date.
StaleRead ==
  Set /\ \E i \in 2..Len(stack) :
           /\ Evaluates(stack[i])
           /\ Feeds(Step.var) \/ Step.var \in Range(Deps[FormulaOf(stack[i])])

\* The new definition of a derived variable fails: the old one is half gone.
RedefinitionFails == DeriveFails /\ Derived(top.var)

\* Reading inside an action, a callback or a formula gives what the variables
\* mean now, derived ones included, although nothing was recalculated since
\* the assignments before it.
ReadsAreFresh ==
  stack # <<>> /\ Evaluates(top) /\ Acyclic /\ ~Feedback =>
    \A i \in DOMAIN top.args : top.args[i] = Meaning[Deps[FormulaOf(top)][i]]

\* A subscriber's argument is consistent with the variables it can read:
\* "events are deferred until after recalcDirty() to ensure subscribers see
\* consistent state after topological sort" (environment.cpp:491-492).
ArgumentsConsistent ==
  /\ Len(stack) > 1 /\ top.op = "call" /\ stack[2].op = "notify"
  /\ top.pc = 1 /\ top.args = <<>>
  => top.arg = Meaning[stack[2].about]

\* A definition that is visited again replaces itself: "Replace the derived
\* definition idempotently instead of treating the old dependency edges as
\* fatal" (environment.cpp:148-149).
RedefinitionAccepted ==
  AtRest /\ Acyclic => \A v \in Vars : Derived(v) => ~Revisits(v)

\* Every statement and every event ends, with all its recalculations.
RestsAgain == []<>AtRest

=============================================================================
