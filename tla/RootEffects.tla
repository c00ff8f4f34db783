---------------------------- MODULE RootEffects ----------------------------
(***************************************************************************)
(* Root effects and getters of a clean browser build: the order the        *)
(* compiler plans (src/src/runtime_plan.cpp, cli/browser_build_policy.cpp) *)
(* and the browser runtime that relies on it                               *)
(* (src/src/browser_runtime_assets.cpp).                                   *)
(*                                                                         *)
(* A program is compiled first and, unless it is refused (for the first    *)
(* reason; the code collects further ones), its page takes turns: the body *)
(* of an action runs statement by statement, then the getters are          *)
(* published, then one pass over the effects runs the callbacks of what    *)
(* was written.  A turn may end in an exception.                           *)
(*                                                                         *)
(* A formula stands for an expression with its reads in order; a body is   *)
(* its statements in order, where an `if` says how many of them it guards. *)
(* The rest of a turn, which patches the document, is left out.            *)
(*                                                                         *)
(* Histories, not in the code: turns, seen, ran, outcome.                  *)
(***************************************************************************)
EXTENDS Naturals, Sequences, FiniteSets, Functions

CONSTANTS
  Lets,               \* mutable scalar lets at module root
  Gets,               \* getters
  Others,             \* further slots: fetch bindings, parameters
  Values, Scalars,
  Falsy,
  Thrown,             \* what a read that throws gives
  Formulas, Deps, Apply(_, _),
  ScalarFormulas,     \* expressions whose planned type is a scalar
  CollectionFormulas, \* ... is known not to be one
  Actions, Params, Body,
  NoCall,             \* nothing runs
  Programs,           \* sequences of effect declarations <<action, name>>
  Definitions,        \* formulas of the getters
  Dispatches,         \* what the page calls: <<action, arguments>>
  Arrivals,           \* what requests and media store: <<slot, value>>
  Initial,
  MaxEffects,         \* 64 in the code
  MaxTurns            \* bound: turns of a page

Slots == Lets \cup Gets \cup Others

ASSUME SlotsAssumption ==
  /\ Lets \cap Gets = {} /\ Lets \cap Others = {} /\ Gets \cap Others = {}
  /\ Initial \in [Slots -> Values]
  /\ Thrown \notin Values
  /\ Scalars \subseteq Values
  /\ MaxEffects \in Nat /\ MaxTurns \in Nat

ASSUME FormulasAssumption ==
  /\ Deps \in [Formulas -> Seq(Slots)]
  /\ ScalarFormulas \subseteq Formulas
  /\ \A f \in Formulas : \A args \in [DOMAIN Deps[f] -> Values] :
       Apply(f, args) \in Values
  /\ Definitions \subseteq [Gets -> Formulas]

\* An assignment names a let, a fetch binding or a parameter of its action.
ASSUME ActionsAssumption ==
  /\ Params \in [Actions -> SUBSET Slots]
  /\ NoCall \notin [fn : Actions, pc : Nat \ {0}, saved : [Slots -> Values]]
  /\ Body \in [Actions -> Seq([op : {"if", "set"}, var : Slots,
                               formula : Formulas, skip : Nat])]
  /\ \A fn \in Actions : \A i \in DOMAIN Body[fn] :
       /\ Body[fn][i].op = "set" => Body[fn][i].var \notin Gets \ Params[fn]
       /\ i + Body[fn][i].skip <= Len(Body[fn])

ASSUME PageAssumption ==
  /\ Programs \subseteq Seq(Actions \X Slots)
  /\ \A d \in Dispatches : d[1] \in Actions /\ d[2] \in [Params[d[1]] -> Values]
  /\ Arrivals \subseteq Others \X Values

VARIABLES
  phase,         \* what the compiler or the page is doing
  declared,      \* effects not planned yet
  formula,       \* the getters' expressions
  subs,          \* subscriptions of the plan, in source order
  issues,        \* effectIssues is not empty
  ordered,       \* their topological order: indices of subs
  path,          \* getters being visited, innermost first
  derivedOrder,  \* getters visited
  clientState, clientWrites,
  call,          \* the action or callback that runs, and clientState as it
                 \* found it
  next,          \* the effect to consider; 0 while an action runs
  got,           \* getters published so far
  turns, seen, ran, outcome

plan    == <<declared, formula, subs, issues, ordered, path, derivedOrder>>
page    == <<clientState, clientWrites, call, next, got>>
history == <<turns, seen, ran, outcome>>
vars    == <<phase, plan, page, history>>

Subscriptions == Actions \X Lets

\* An effect in the order it is run.
Effect(i) == subs[ordered[i]]

Compiling == phase \in {"declare", "order", "getters",
                        "refused", "effectCycle", "getterCycle"}

-----------------------------------------------------------------------------
(* Planning the effects: planRootSubscriptions, orderRootSubscriptions.    *)

Writes(fn) ==
  {Body[fn][i].var : i \in {j \in DOMAIN Body[fn] : Body[fn][j].op = "set"}}

\* The dependency is a let, the callback takes no arguments.
Watchable(s) == s[2] \in Lets /\ Params[s[1]] = {}

\* The callback computes scalars only, and assigns them to lets.
Supported(fn) ==
  /\ Writes(fn) \subseteq Lets
  /\ \A i \in DOMAIN Body[fn] : Body[fn][i].formula \in ScalarFormulas

NewSubscription(s) == s \notin Range(subs)

Declare ==
  /\ phase = "declare" /\ declared # <<>>
  /\ LET s == Head(declared) IN
       /\ issues' = (issues \/ ~Watchable(s) \/ ~Supported(s[1]))
       /\ subs' = IF Watchable(s) /\ NewSubscription(s)
                    THEN Append(subs, s) ELSE subs
  /\ declared' = Tail(declared)
  /\ UNCHANGED <<phase, formula, ordered, path, derivedOrder, page, history>>

\* Some action assigns a collection to what an effect depends on.
WritesCollection ==
  \E fn \in Actions : \E i \in DOMAIN Body[fn] :
    /\ Body[fn][i].op = "set"
    /\ Body[fn][i].formula \in CollectionFormulas
    /\ Body[fn][i].var \notin Params[fn]
    /\ \E s \in Range(subs) : s[2] = Body[fn][i].var

EndDeclare ==
  /\ phase = "declare" /\ declared = <<>>
  /\ issues' = (issues \/ WritesCollection \/ Len(subs) > MaxEffects)
  /\ phase' = IF Len(subs) > MaxEffects THEN "refused" ELSE "order"
  /\ UNCHANGED <<declared, formula, subs, ordered, path, derivedOrder,
                 page, history>>

Unplaced == DOMAIN subs \ Range(ordered)

\* MUTANT: the edges of effects that are placed are not taken away.
NoWriter(i) == \A j \in DOMAIN subs : subs[i][2] \notin Writes(subs[j][1])

\* MUTANT: the edges are ignored.
SourceOrder(i) == TRUE

\* No effect that is not placed writes what i depends on: incoming[i] is 0.
Ready(i) == \A j \in Unplaced : subs[i][2] \notin Writes(subs[j][1])

\* MUTANT: the last one is taken.
LastReady(i) == \A j \in Unplaced : j > i => ~Ready(j)

FirstReady(i) == \A j \in Unplaced : j < i => ~Ready(j)

Place ==
  /\ phase = "order"
  /\ \E i \in Unplaced :
       /\ Ready(i) /\ FirstReady(i)
       /\ ordered' = Append(ordered, i)
  /\ UNCHANGED <<phase, declared, formula, subs, issues, path, derivedOrder,
                 page, history>>

EffectCycle ==
  /\ phase = "order" /\ Unplaced # {}
  /\ \A i \in Unplaced : ~Ready(i)
  /\ phase' = "effectCycle"
  /\ UNCHANGED <<plan, page, history>>

\* validateStaticComponentModuleForProduction refuses a plan with issues.
EndOrder ==
  /\ phase = "order" /\ Unplaced = {}
  /\ phase' = IF issues THEN "refused" ELSE "getters"
  /\ UNCHANGED <<plan, page, history>>

-----------------------------------------------------------------------------
(* Planning the getters: planBrowserDerivedOrder.  The roots of its search *)
(* (reads of actions, captures, then all getters) are taken in any order.  *)

GetsRead(g) == Range(Deps[formula[g]]) \cap Gets

Visit(g) ==
  /\ path' = <<g>> \o path
  /\ UNCHANGED <<phase, declared, formula, subs, issues, ordered,
                 derivedOrder, page, history>>

VisitRoot ==
  /\ phase = "getters" /\ path = <<>>
  /\ \E g \in Gets \ Range(derivedOrder) : Visit(g)

VisitRead ==
  /\ phase = "getters" /\ path # <<>>
  /\ \E g \in GetsRead(Head(path)) \ Range(derivedOrder) :
       g \notin Range(path) /\ Visit(g)

GetterCycle ==
  /\ phase = "getters" /\ path # <<>>
  /\ GetsRead(Head(path)) \cap Range(path) # {}
  /\ phase' = "getterCycle"
  /\ UNCHANGED <<plan, page, history>>

\* MUTANT: a getter is appended before those it reads.
AppendFirst(g) == TRUE

ReadsComplete(g) == GetsRead(g) \subseteq Range(derivedOrder)

AppendGetter ==
  /\ phase = "getters" /\ path # <<>>
  /\ ReadsComplete(Head(path))
  /\ derivedOrder' = Append(derivedOrder, Head(path))
  /\ path' = Tail(path)
  /\ UNCHANGED <<phase, declared, formula, subs, issues, ordered,
                 page, history>>

\* The page starts: bootstrapClientManifest, and the first applyClientState.
Boot ==
  /\ phase = "getters" /\ path = <<>> /\ Range(derivedOrder) = Gets
  /\ phase' = "publish"
  /\ next' = 1 /\ got' = 0
  /\ UNCHANGED <<plan, clientState, clientWrites, call, history>>

-----------------------------------------------------------------------------
(* Turns of the page.                                                      *)

NewTurn ==
  /\ phase = "rest" /\ turns < MaxTurns
  /\ turns' = turns + 1
  /\ ran' = [s \in Subscriptions |-> 0]
  /\ UNCHANGED <<seen, outcome>>

\* executeClientAction puts the arguments where clientState keeps names.
Dispatch ==
  /\ NewTurn
  /\ \E d \in Dispatches :
       /\ call' = [fn |-> d[1], pc |-> 1, saved |-> clientState]
       /\ clientState' = [v \in Slots |-> IF v \in Params[d[1]] THEN d[2][v]
                                                                ELSE clientState[v]]
  /\ phase' = "body" /\ next' = 0
  /\ UNCHANGED <<plan, clientWrites, got>>

\* executeFetch and others store a value and call applyClientState.
Arrive ==
  /\ NewTurn
  /\ \E a \in Arrivals : clientState' = [clientState EXCEPT ![a[1]] = a[2]]
  /\ phase' = "publish" /\ next' = 1 /\ got' = 0
  /\ UNCHANGED <<plan, clientWrites, call>>

\* What a getter or its reads give inside an action: getters are evaluated
\* anew, must be scalars, and see the roots that parameters shadow.
Root[v \in Slots] ==
  IF v \in Gets
    THEN LET f == formula[v]
             args == [i \in DOMAIN Deps[f] |-> Root[Deps[f][i]]]
         IN IF Thrown \in Range(args) \/ Apply(f, args) \notin Scalars
              THEN Thrown ELSE Apply(f, args)
    ELSE IF v \in Params[call.fn] THEN call.saved[v] ELSE clientState[v]

\* actionReadScope
Read(v) == IF v \in Params[call.fn] THEN clientState[v] ELSE Root[v]

Statement == Body[call.fn][call.pc]

Running == phase = "body" /\ call.pc <= Len(Body[call.fn])

Arguments == [i \in DOMAIN Deps[Statement.formula] |->
                Read(Deps[Statement.formula][i])]

Result == IF Thrown \in Range(Arguments) THEN Thrown
                                         ELSE Apply(Statement.formula, Arguments)

SkipGuarded == 1 + Statement.skip

If ==
  /\ Running /\ Statement.op = "if" /\ Result \in Values
  /\ call' = [call EXCEPT !.pc = @ + IF Result \in Falsy THEN SkipGuarded ELSE 1]
  /\ UNCHANGED <<phase, plan, clientState, clientWrites, next, got,
                 history>>

\* assignClientPath: only what is not a parameter is a write of the turn.
Record(v) == IF v \in Params[call.fn] THEN clientWrites
                                      ELSE clientWrites \cup {v}

Set ==
  /\ Running /\ Statement.op = "set" /\ Result \in Values
  /\ clientState' = [clientState EXCEPT ![Statement.var] = Result]
  /\ clientWrites' = Record(Statement.var)
  /\ call' = [call EXCEPT !.pc = @ + 1]
  /\ UNCHANGED <<phase, plan, next, got, history>>

\* MUTANT: parameters keep their slots.
NotRestored == clientState

\* A callback has no parameters: for it nothing is restored.
Restored == [v \in Slots |-> IF v \in Params[call.fn] THEN call.saved[v]
                                                      ELSE clientState[v]]

BodyDone ==
  /\ phase = "body" /\ call.pc > Len(Body[call.fn])
  /\ clientState' = Restored
  /\ phase' = "publish" /\ next' = next + 1 /\ got' = 0 /\ call' = NoCall
  /\ UNCHANGED <<plan, clientWrites, history>>

\* applyClientDerived, one getter
Publish ==
  /\ phase = "publish" /\ got < Len(derivedOrder)
  /\ LET g == derivedOrder[got + 1]
         f == formula[g]
     IN clientState' = [clientState EXCEPT ![g] =
          Apply(f, [i \in DOMAIN Deps[f] |-> clientState[Deps[f][i]]])]
  /\ got' = got + 1
  /\ UNCHANGED <<phase, plan, clientWrites, call, next, history>>

Published ==
  /\ phase = "publish" /\ got = Len(derivedOrder)
  /\ phase' = "effects"
  /\ UNCHANGED <<plan, page, history>>

-----------------------------------------------------------------------------
(* flushRootSubscriptions.                                                 *)

Considers == phase = "effects" /\ next <= Len(ordered)

Due(s) == s[2] \in clientWrites

SkipEffect ==
  /\ Considers /\ ~Due(Effect(next))
  /\ next' = next + 1
  /\ UNCHANGED <<phase, plan, clientState, clientWrites, call, got,
                 history>>

RunEffect ==
  /\ Considers /\ Due(Effect(next))
  /\ LET s == Effect(next) IN
       /\ clientState[s[2]] \in Scalars
       /\ call' = [fn |-> s[1], pc |-> 1, saved |-> clientState]
       /\ seen' = [seen EXCEPT ![s] = clientState[s[2]]]
       /\ ran' = [ran EXCEPT ![s] = @ + 1]
  /\ phase' = "body"
  /\ UNCHANGED <<plan, clientState, clientWrites, next, got, turns,
                 outcome>>

\* MUTANT: the writes are kept for the next turn.
KeepWrites == clientWrites

NoWrites == {}

EffectsDone ==
  /\ phase = "effects" /\ next > Len(ordered)
  /\ clientWrites' = NoWrites
  /\ phase' = "rest" /\ outcome' = "ok" /\ next' = 0 /\ got' = 0
  /\ UNCHANGED <<plan, clientState, call, turns, seen, ran>>

\* An exception in an action: its writes wait for the next flush.
ActionThrows ==
  /\ Running /\ next = 0 /\ Result \notin Values
  /\ clientState' = Restored
  /\ phase' = "rest" /\ outcome' = "threw" /\ call' = NoCall
  /\ UNCHANGED <<plan, clientWrites, next, got, turns, seen, ran>>

\* An exception in the flush: the effects left are dropped, and the history
\* takes them as told.
FlushThrows ==
  /\ \/ Considers /\ Due(Effect(next)) /\ clientState[Effect(next)[2]] \notin Scalars
     \/ Running /\ next > 0 /\ Result \notin Values
  /\ clientWrites' = {}
  /\ phase' = "rest" /\ outcome' = "threw" /\ call' = NoCall
  /\ next' = 0 /\ got' = 0
  /\ seen' = [s \in Subscriptions |-> clientState[s[2]]]
  /\ UNCHANGED <<plan, clientState, turns, ran>>

-----------------------------------------------------------------------------
Init ==
  /\ phase = "declare"
  /\ declared \in Programs
  /\ formula \in Definitions
  /\ subs = <<>> /\ issues = FALSE /\ ordered = <<>>
  /\ path = <<>> /\ derivedOrder = <<>>
  /\ clientState = Initial /\ clientWrites = {}
  /\ call = NoCall
  /\ next = 0 /\ got = 0
  /\ turns = 0 /\ outcome = "ok"
  /\ seen = [s \in Subscriptions |-> Initial[s[2]]]
  /\ ran = [s \in Subscriptions |-> 0]

Compiler == \/ Declare \/ EndDeclare \/ Place \/ EffectCycle \/ EndOrder
            \/ VisitRoot \/ VisitRead \/ GetterCycle \/ AppendGetter \/ Boot

Page == \/ Dispatch \/ Arrive \/ If \/ Set \/ BodyDone \/ Publish \/ Published
        \/ SkipEffect \/ RunEffect \/ EffectsDone \/ ActionThrows \/ FlushThrows

Next == Compiler \/ Page

Spec == Init /\ [][Next]_vars

-----------------------------------------------------------------------------
\* Types; an action never leaves its body, however its conditions skip.
TypeOK ==
  /\ phase \in {"declare", "order", "getters", "refused", "effectCycle",
               "getterCycle", "rest", "body", "publish", "effects"}
  /\ declared \in Seq(Actions \X Slots)
  /\ formula \in [Gets -> Formulas]
  /\ subs \in Seq(Subscriptions)
  /\ issues \in BOOLEAN
  /\ ordered \in Seq(DOMAIN subs)
  /\ path \in Seq(Gets)
  /\ derivedOrder \in Seq(Gets)
  /\ clientState \in [Slots -> Values]
  /\ clientWrites \subseteq Slots
  /\ call \in {NoCall} \cup
       [fn : Actions, pc : Nat \ {0}, saved : [Slots -> Values]]
  /\ phase = "body" => call # NoCall /\ call.pc <= Len(Body[call.fn]) + 1
  /\ next \in 0..(Len(ordered) + 1)
  /\ got \in 0..Len(derivedOrder)
  /\ turns \in 0..MaxTurns
  /\ seen \in [Subscriptions -> Values]
  /\ ran \in [Subscriptions -> Nat]
  /\ outcome \in {"ok", "threw"}

Planned == phase \notin {"declare", "order", "refused", "effectCycle"}

\* One pass is enough: once a turn has ended without an exception, every
\* effect was last called with the value its dependency has now, also when
\* callbacks wrote what other effects watch, when earlier turns threw, and
\* when parameters shadowed a dependency.  "downstream effects observe
\* upstream writes" (docs/architecture/root-effects/README.md).
EffectsHeard ==
  phase = "rest" /\ outcome = "ok" =>
    \A s \in Range(subs) : seen[s] = clientState[s[2]]

\* "Each subscription runs at most once per dispatch" (the same README),
\* although effects may be declared twice and write what others watch.
OncePerTurn == \A s \in Subscriptions : ran[s] <= 1

Current(g) ==
  clientState[g] = Apply(formula[g], [i \in DOMAIN Deps[formula[g]] |->
                                        clientState[Deps[formula[g]][i]]])

\* Getters agree with their expressions when a callback starts and when a turn
\* has ended without an exception, whatever order they were declared in.
GettersPublished ==
  phase = "effects" \/ (phase = "rest" /\ outcome = "ok") =>
    \A g \in Gets : Current(g)

OnlyParameter(v) ==
  /\ v \in Others
  /\ \A a \in Arrivals : a[1] # v
  /\ \A fn \in Actions : v \notin Writes(fn) \ Params[fn]

\* A slot that is only a parameter is as it was before the action: also
\* after an exception, and effects do not see it.
ParametersRestored ==
  phase # "body" =>
    \A v \in Slots : OnlyParameter(v) => clientState[v] = Initial[v]

\* An effect runs after every effect that writes what it depends on, and
\* effects run in source order otherwise: "Stable topological ordering
\* preserves source order between ready callbacks".
OrderIsStable ==
  Planned => \A i, j \in DOMAIN ordered :
    /\ Effect(j)[2] \in Writes(Effect(i)[1]) => i < j
    /\ i < j /\ ordered[j] < ordered[i] =>
         \E k \in DOMAIN ordered :
           i <= k /\ k < j /\ Effect(j)[2] \in Writes(Effect(k)[1])

\* Only real cycles are refused: of effects that write what one of them
\* depends on, and of getters that read one another.
OnlyCyclesRefused ==
  /\ phase = "effectCycle" =>
       \E S \in SUBSET Range(subs) :
         S # {} /\ \A s \in S : \E r \in S : s[2] \in Writes(r[1])
  /\ phase = "getterCycle" =>
       \E S \in SUBSET Gets : S # {} /\ \A g \in S : GetsRead(g) \cap S # {}

-----------------------------------------------------------------------------
(* The inductive invariant.                                                *)

\* The planner: what is placed depends on nothing that is not, and what had to
\* wait for a later declared effect still has, or had, a writer to wait for.
PlacedInv ==
  /\ \A i, j \in DOMAIN ordered : ordered[i] = ordered[j] => i = j
  /\ \A i, j \in DOMAIN ordered :
       Effect(j)[2] \in Writes(Effect(i)[1]) => i < j
  /\ \A i \in DOMAIN ordered : \A u \in Unplaced :
       Effect(i)[2] \notin Writes(subs[u][1])

StableInv ==
  /\ \A i, j \in DOMAIN ordered : i < j /\ ordered[j] < ordered[i] =>
       \E k \in DOMAIN ordered :
         i <= k /\ k < j /\ Effect(j)[2] \in Writes(Effect(k)[1])
  /\ \A i \in DOMAIN ordered : \A u \in Unplaced : u < ordered[i] =>
       \/ ~Ready(u)
       \/ \E k \in DOMAIN ordered :
            i <= k /\ subs[u][2] \in Writes(Effect(k)[1])

SubsInv ==
  /\ \A i, j \in DOMAIN subs : subs[i] = subs[j] => i = j
  /\ \A i \in DOMAIN subs : Params[subs[i][1]] = {}
  /\ phase = "declare" => ordered = <<>>
  /\ phase = "effectCycle" => Unplaced # {} /\ \A u \in Unplaced : ~Ready(u)
  /\ Planned => Unplaced = {}

GettersInv ==
  /\ \A i, j \in DOMAIN path : path[i] = path[j] => i = j
  /\ \A i \in DOMAIN path : path[i] \notin Range(derivedOrder)
  /\ \A i \in DOMAIN path : i > 1 => path[i - 1] \in GetsRead(path[i])
  /\ \A i, j \in DOMAIN derivedOrder : derivedOrder[i] = derivedOrder[j] => i = j
  /\ \A i \in DOMAIN derivedOrder : \A g \in GetsRead(derivedOrder[i]) :
       \E k \in DOMAIN derivedOrder : k < i /\ derivedOrder[k] = g
  /\ phase = "getterCycle" =>
       path # <<>> /\ GetsRead(Head(path)) \cap Range(path) # {}
  /\ ~Compiling => Range(derivedOrder) = Gets

\* Effects the flush has come to; the value of a root that parameters shadow.
Told(i) == i < next \/ (phase = "body" /\ i = next)

Live(v) == IF phase = "body" /\ v \in Params[call.fn] THEN call.saved[v]
                                                      ELSE clientState[v]

PhaseInv ==
  /\ Compiling =>
       /\ clientState = Initial /\ clientWrites = {} /\ next = 0
       /\ seen = [s \in Subscriptions |-> Initial[s[2]]]
       /\ ran = [s \in Subscriptions |-> 0]
  /\ phase = "rest" => next = 0 /\ (outcome = "ok" => clientWrites = {})
  /\ phase = "body" /\ next > 0 => next \in DOMAIN ordered
                                  /\ call.fn = Effect(next)[1]
  /\ phase \in {"publish", "effects"} => next > 0

HeardInv ==
  \A i \in DOMAIN ordered :
    Told(i) \/ Effect(i)[2] \notin clientWrites =>
      seen[Effect(i)] = Live(Effect(i)[2])

RanInv ==
  /\ OncePerTurn
  /\ phase \in {"body", "publish", "effects"} =>
       \A i \in DOMAIN ordered : ~Told(i) => ran[Effect(i)] = 0

ParametersInv == \A v \in Slots : OnlyParameter(v) => Live(v) = Initial[v]

PublishedInv ==
  /\ GettersPublished
  /\ phase = "publish" => \A i \in 1..got : Current(derivedOrder[i])

\* What the properties above rest on, for planner, page and histories.
IInv == /\ TypeOK /\ SubsInv /\ PlacedInv /\ StableInv /\ GettersInv
        /\ PhaseInv /\ HeardInv /\ RanInv /\ ParametersInv /\ PublishedInv

=============================================================================
