------------------------- MODULE ReactiveEnvProofs -------------------------
(***************************************************************************)
(* For every program: types, closed marks, sound edges and clean serving.  *)
(* Until a redefinition fails: complete edges.  Until, besides, a write    *)
(* inside a recalculation is lost: current derived variables.  Until such  *)
(* a write or its notice is lost: informed subscribers.  Until a callback  *)
(* writes what a waiting evaluation depends on: fresh reads.  In programs  *)
(* whose definitions never fail and whose subscribers write what nothing   *)
(* depends on: all of them, always.                                        *)
(***************************************************************************)
EXTENDS ReactiveEnv, TLAPS, FiniteSetTheorems, SequenceTheorems

\* An edge leads to a variable whose formula reads the edge's source: nothing
\* else is ever notified, marked or recalculated.
EdgesSound ==
  \A u, v \in Vars : v \in adj[u] =>
    formula[v] \in Formulas /\ u \in Range(Deps[formula[v]])

\* A derivation in progress is the outermost call, and its variable has no
\* incoming edges.
Shape(s, g) ==
  /\ s \in Seq(Frame)
  /\ \A i \in 1..Len(s) :
       s[i].op = "derive" => i = Len(s) /\ \A u \in Vars : s[i].var \notin g[u]

Outermost(s) == s[Len(s)].op

\* What serves an event ends with a recalculation that finds no marks.
ServesShape ==
  mode = "serve" =>
    IF stack = <<>> THEN dirty = {} ELSE Outermost(stack) \in {"settle", "recalc"}

\* Nothing happens after the depth computation did not end.
CyclicStops == mode = "cyclic" => stack = <<>>

IInv ==
  /\ TypeOK
  /\ CyclicStops
  /\ EdgesSound
  /\ DirtyClosed
  /\ Shape(stack, adj)
  /\ ServesShape

-----------------------------------------------------------------------------
(* The stack: how a step changes it, and what survives.                    *)

\* A call returns.
LEMMA PopShape ==
  ASSUME NEW s, NEW g, Shape(s, g), s # <<>>
  PROVE  /\ Shape(Tail(s), g)
         /\ Tail(s) # <<>> => Outermost(Tail(s)) = Outermost(s)
         /\ Tail(s) = <<>> => Outermost(s) = Head(s).op
<1> DEFINE t == Tail(s)
<1>1. /\ s \in Seq(Frame) /\ Len(s) \in Nat \ {0}
      /\ t \in Seq(Frame) /\ Len(t) = Len(s) - 1
      /\ \A i \in 1..Len(s) - 1 : t[i] = s[i + 1]
      /\ Head(s) = s[1]
  BY DEF Shape
<1> HIDE DEF t
<1>2. t = <<>> <=> Len(t) = 0
  BY <1>1, EmptySeq
<1>3. Shape(t, g)
  <2>1. ASSUME NEW i \in 1..Len(t), t[i].op = "derive"
        PROVE  i = Len(t) /\ \A u \in Vars : t[i].var \notin g[u]
    <3>1. i + 1 \in 1..Len(s) /\ t[i] = s[i + 1]
      BY <1>1
    <3>2. i + 1 = Len(s) /\ \A u \in Vars : s[i + 1].var \notin g[u]
      BY <3>1, <2>1 DEF Shape
    <3> QED  BY <1>1, <3>1, <3>2
  <2> QED  BY <2>1, <1>1 DEF Shape
<1>4. t # <<>> => Outermost(t) = Outermost(s)
  BY <1>1, <1>2 DEF Outermost
<1>5. t = <<>> => Outermost(s) = Head(s).op
  <2>1. t = <<>> => Len(s) = 1
    BY <1>1, <1>2
  <2> QED  BY <2>1, <1>1 DEF Outermost
<1> QED  BY <1>3, <1>4, <1>5 DEF t

\* The innermost call goes on.
LEMMA ReplaceShape ==
  ASSUME NEW s, NEW g, Shape(s, g), s # <<>>, NEW x \in Frame,
         x.op = "derive" => Head(s).op = "derive" /\ Head(s).var = x.var
  PROVE  /\ Shape(<<x>> \o Tail(s), g)
         /\ <<x>> \o Tail(s) # <<>>
         /\ Outermost(<<x>> \o Tail(s)) =
              IF Len(s) = 1 THEN x.op ELSE Outermost(s)
<1> DEFINE t == <<x>> \o Tail(s)
<1>1. /\ s \in Seq(Frame) /\ Len(s) \in Nat \ {0}
      /\ t \in Seq(Frame) /\ Len(t) = Len(s)
      /\ t[1] = x /\ \A i \in 2..Len(s) : t[i] = s[i]
      /\ Head(s) = s[1]
  BY DEF Shape
<1> HIDE DEF t
<1>2. Shape(t, g)
  BY <1>1 DEF Shape
<1>3. t # <<>> /\ Outermost(t) = IF Len(s) = 1 THEN x.op ELSE Outermost(s)
  BY <1>1 DEF Outermost
<1> QED  BY <1>2, <1>3 DEF t

\* The innermost call makes another one.
LEMMA PushShape ==
  ASSUME NEW s, NEW g, Shape(s, g), s # <<>>, NEW x \in Frame, NEW y \in Frame,
         x.op = "derive" => Head(s).op = "derive" /\ Head(s).var = x.var,
         y.op # "derive"
  PROVE  /\ Shape(<<y, x>> \o Tail(s), g)
         /\ <<y, x>> \o Tail(s) # <<>>
         /\ Outermost(<<y, x>> \o Tail(s)) =
              IF Len(s) = 1 THEN x.op ELSE Outermost(s)
<1> DEFINE t == <<y, x>> \o Tail(s)
<1>1. /\ s \in Seq(Frame) /\ Len(s) \in Nat \ {0}
      /\ t \in Seq(Frame) /\ Len(t) = Len(s) + 1
      /\ t[1] = y /\ t[2] = x /\ \A i \in 3..Len(s) + 1 : t[i] = s[i - 1]
      /\ Head(s) = s[1]
  BY DEF Shape
<1> HIDE DEF t
<1>2. Shape(t, g)
  BY <1>1 DEF Shape
<1>3. t # <<>>
  BY <1>1
<1>4. Len(s) = 1 => Outermost(t) = x.op
  BY <1>1 DEF Outermost
<1>5. Len(s) # 1 => Outermost(t) = Outermost(s)
  <2>1. SUFFICES ASSUME Len(s) # 1
                 PROVE  Outermost(t) = Outermost(s)
    OBVIOUS
  <2>2. Len(s) \in Nat /\ Len(s) > 1
    <3> DEFINE n == Len(s)
    <3>1. n \in Nat \ {0} /\ n # 1
      BY EmptySeq, <2>1 DEF Shape
    <3> HIDE DEF n
    <3>2. n \in Nat /\ n > 1
      BY <3>1
    <3> QED  BY <3>2 DEF n
  <2>3. \A i \in 3..Len(s) + 1 : t[i] = s[i - 1]
    BY <1>1
  <2>4. t[Len(s) + 1] = s[Len(s)]
    <3> DEFINE n == Len(s)
    <3>1. n + 1 \in 3..n + 1 /\ (n + 1) - 1 = n
      <4> HIDE DEF n
      <4>1. n \in Nat /\ n > 1
        BY <2>2 DEF n
      <4> QED  BY <4>1
    <3> QED  BY <3>1, <2>3
  <2> QED  BY <2>4, <1>1 DEF Outermost
<1> QED  BY <1>2, <1>3, <1>4, <1>5 DEF t

-----------------------------------------------------------------------------
(* The calls in progress keep their types.                                 *)

\* The kind of a call is its op.
LEMMA FrameKinds ==
  ASSUME NEW fr \in Frame
  PROVE  /\ fr.op = "update" => fr \in UpdateFrame
         /\ fr.op = "derive" => fr \in DeriveFrame
         /\ fr.op = "call" => fr \in CallFrame
         /\ fr.op = "notify" => fr \in NotifyFrame
         /\ fr.op = "recalc" => fr \in RecalcFrame
BY DEF Frame, UpdateFrame, DeriveFrame, CallFrame, NotifyFrame, RecalcFrame,
       SettleFrame

\* The calls as they start.
LEMMA StartFrames ==
  ASSUME TypeOK, NEW v \in Vars, NEW f \in Formulas, NEW fn \in Actions,
         NEW w \in Values
  PROVE  /\ Derived(v) => Update(v) \in Frame /\ Update(v).op = "update"
         /\ Derivation(v, f) \in Frame
         /\ Derivation(v, f).op = "derive" /\ Derivation(v, f).var = v
         /\ Call(fn, w) \in Frame /\ Call(fn, w).op = "call"
         /\ Settle \in Frame /\ Settle.op = "settle"
         /\ dirty # {} => Recalc(dirty) \in Frame /\ Recalc(dirty).op = "recalc"
<1>1. Derived(v) => Update(v) \in UpdateFrame /\ Update(v).op = "update"
  <2>1. <<>> \in Seq(Values)
    BY EmptySeq
  <2> QED  BY <2>1 DEF TypeOK, Derived, Update, UpdateFrame
<1>2. /\ Derivation(v, f) \in DeriveFrame
      /\ Derivation(v, f).op = "derive" /\ Derivation(v, f).var = v
  BY EmptySeq DEF Derivation, DeriveFrame
<1>3. Call(fn, w) \in CallFrame /\ Call(fn, w).op = "call"
  BY EmptySeq DEF Call, CallFrame
<1>4. Settle \in SettleFrame /\ Settle.op = "settle"
  BY DEF Settle, SettleFrame
<1>5. dirty # {} => Recalc(dirty) \in RecalcFrame /\ Recalc(dirty).op = "recalc"
  <2>1. <<>> \in Seq(Vars)
    BY EmptySeq
  <2> QED  BY <2>1 DEF TypeOK, Recalc, RecalcFrame
<1> QED  BY <1>1, <1>2, <1>3, <1>4, <1>5 DEF Frame

\* A formula reads a variable finitely often.
LEMMA RepeatsNat ==
  ASSUME NEW u \in Vars, NEW f \in Formulas
  PROVE  Repeats(u, f) \in Nat
<1>1. Deps[f] \in Seq(Vars)
  BY NamesAssumption
<1>2. IsFiniteSet(1..Len(Deps[f]))
  BY <1>1, FS_Interval
<1>3. {i \in DOMAIN Deps[f] : Deps[f][i] = u} \subseteq 1..Len(Deps[f])
  BY <1>1
<1>4. IsFiniteSet({i \in DOMAIN Deps[f] : Deps[f][i] = u})
  BY <1>2, <1>3, FS_Subset
<1> QED  BY <1>4, FS_CardinalityType DEF Repeats

\* Notifications as they start.
LEMMA NotifyFrames ==
  ASSUME EdgesSound, NEW v \in Vars
  PROVE  /\ Emit(v) \in Frame /\ Emit(v).op = "notify"
         /\ \A order \in Seq(Vars) : order # <<>> =>
              Announce(order) \in Frame /\ Announce(order).op = "notify"
<1> DEFINE also == [w \in Vars |-> IF w \in adj[v] THEN Repeats(v, formula[w])
                                                   ELSE 0]
<1>1. \A w \in Vars : w \in adj[v] => Repeats(v, formula[w]) \in Nat
  BY RepeatsNat DEF EdgesSound
<1>2. also \in [Vars -> Nat]
  BY <1>1
<1> HIDE DEF also
<1>3. <<v>> \in Seq(Vars)
  OBVIOUS
<1>4. [op |-> "notify", queue |-> <<v>>, also |-> also, about |-> v, due |-> {}]
        \in NotifyFrame
  BY <1>2, <1>3 DEF NotifyFrame
<1>5. Emit(v) \in Frame /\ Emit(v).op = "notify"
  BY <1>4 DEF also, Emit, Frame
<1>6. ASSUME NEW order \in Seq(Vars), order # <<>>
      PROVE  Announce(order) \in Frame /\ Announce(order).op = "notify"
  <2>1. Head(order) \in Vars
    BY <1>6, HeadTailProperties
  <2>2. Announce(order) \in NotifyFrame
    BY <2>1 DEF Announce, NotifyFrame
  <2> QED  BY <2>2 DEF Announce, Frame
<1> QED  BY <1>5, <1>6

-----------------------------------------------------------------------------
(* Three ways to go on, and what is left to show of a step that takes one. *)

Serving(s) == mode = "serve" => Outermost(s) \in {"settle", "recalc"}

\* The innermost call may become x.
May(x) == /\ x \in Frame
          /\ x.op = "derive" => top.op = "derive" /\ top.var = x.var
          /\ top.op \in {"settle", "recalc"} => x.op \in {"settle", "recalc"}

LEMMA Returns ==
  ASSUME IInv, stack # <<>>, top.op \notin {"settle", "recalc"}
  PROVE  Shape(rest, adj) /\ Serving(rest)
         /\ (mode = "serve" => rest # <<>>)
<1>1. /\ Shape(rest, adj)
      /\ rest # <<>> => Outermost(rest) = Outermost(stack)
      /\ rest = <<>> => Outermost(stack) = top.op
  BY PopShape DEF IInv, rest, top
<1>2. Serving(stack)
  BY DEF IInv, ServesShape, Serving
<1> QED  BY <1>1, <1>2 DEF Serving

LEMMA Continues ==
  ASSUME IInv, stack # <<>>, NEW x, May(x)
  PROVE  /\ Shape(<<x>> \o rest, adj) /\ <<x>> \o rest # <<>>
         /\ Serving(<<x>> \o rest)
<1>1. /\ Shape(<<x>> \o rest, adj) /\ <<x>> \o rest # <<>>
      /\ Outermost(<<x>> \o rest) =
           IF Len(stack) = 1 THEN x.op ELSE Outermost(stack)
  BY ReplaceShape DEF IInv, rest, top, May
<1>2. Serving(stack)
  BY DEF IInv, ServesShape, Serving
<1>3. Len(stack) = 1 => Outermost(stack) = top.op
  BY DEF IInv, Shape, Outermost, top
<1> QED  BY <1>1, <1>2, <1>3 DEF Serving, May

LEMMA Calls ==
  ASSUME IInv, stack # <<>>, NEW x, May(x), NEW y \in Frame, y.op # "derive"
  PROVE  /\ Shape(<<y, x>> \o rest, adj) /\ <<y, x>> \o rest # <<>>
         /\ Serving(<<y, x>> \o rest)
<1>1. /\ Shape(<<y, x>> \o rest, adj) /\ <<y, x>> \o rest # <<>>
      /\ Outermost(<<y, x>> \o rest) =
           IF Len(stack) = 1 THEN x.op ELSE Outermost(stack)
  BY PushShape DEF IInv, rest, top, May
<1>2. Serving(stack)
  BY DEF IInv, ServesShape, Serving
<1>3. Len(stack) = 1 => Outermost(stack) = top.op
  BY DEF IInv, Shape, Outermost, top
<1> QED  BY <1>1, <1>2, <1>3 DEF Serving, May

\* A step that leaves the graph, the marks and the mode alone.
LEMMA Keeps ==
  ASSUME IInv, Acyclic, UNCHANGED <<graphVars, dirty, subVars, mode, statements>>,
         val' \in [Vars -> Values], heard' \in [Vars -> [Actions -> Values]],
         Shape(stack', adj), Serving(stack'),
         mode = "serve" => stack' # <<>>
  PROVE  IInv'
<1>1. TypeOK'
  BY DEF IInv, TypeOK, Shape, graphVars, subVars
<1>2. EdgesSound' /\ DirtyClosed'
  BY DEF IInv, EdgesSound, DirtyClosed, Acyclic, graphVars
<1>3. Shape(stack, adj)' /\ ServesShape' /\ CyclicStops'
  BY DEF Shape, ServesShape, Serving, Outermost, CyclicStops, Acyclic, graphVars
<1> QED  BY <1>1, <1>2, <1>3 DEF IInv

-----------------------------------------------------------------------------
(* Evaluation.                                                             *)

\* The innermost call, when there is one.
LEMMA TopFrame ==
  ASSUME IInv, stack # <<>>
  PROVE  top \in Frame
BY HeadTailProperties DEF IInv, Shape, top

\* The statement an action is at.
LEMMA StepType ==
  ASSUME IInv, stack # <<>>, top.op = "call", top.pc <= Len(Body[top.fn])
  PROVE  Step.var \in Vars /\ Step.formula \in Formulas /\ Step.op \in {"if", "set"}
<1>1. top \in CallFrame
  BY TopFrame, FrameKinds
<1>2. top.fn \in Actions /\ top.pc \in Nat \ {0}
  BY <1>1 DEF CallFrame
<1>3. Body[top.fn] \in Seq([op : {"if", "set"}, var : Vars, formula : Formulas])
  BY <1>2, ProgramAssumption
<1>4. Step \in [op : {"if", "set"}, var : Vars, formula : Formulas]
  <2>1. top.pc \in 1..Len(Body[top.fn])
    BY <1>2, <1>3, LenProperties
  <2> QED  BY <2>1, <1>3, ElementOfSeq DEF Step
<1> QED  BY <1>4

LEMMA Evaluating ==
  ASSUME IInv, stack # <<>>, Evaluates(top)
  PROVE  /\ top \in UpdateFrame \cup DeriveFrame \cup CallFrame
         /\ top.op \in {"update", "derive", "call"}
         /\ FormulaOf(top) \in Formulas
         /\ Deps[FormulaOf(top)] \in Seq(Vars)
         /\ top.args \in Seq(Values)
<1>1. top \in Frame
  BY TopFrame
<1>2. /\ top \in UpdateFrame \cup DeriveFrame \cup CallFrame
      /\ top.op \in {"update", "derive", "call"}
  BY <1>1, FrameKinds DEF Evaluates
<1>3. top.args \in Seq(Values)
  BY <1>2 DEF UpdateFrame, DeriveFrame, CallFrame
<1>4. FormulaOf(top) \in Formulas
  <2>1. CASE top.op = "call"
    BY <2>1, StepType DEF Evaluates, FormulaOf, Step
  <2>2. CASE top.op # "call"
    BY <2>2, <1>2 DEF FormulaOf, UpdateFrame, DeriveFrame, CallFrame
  <2> QED  BY <2>1, <2>2
<1> QED  BY <1>2, <1>3, <1>4, NamesAssumption

\* What a read and a finished evaluation make of the innermost call.
LEMMA Evaluation ==
  ASSUME IInv, stack # <<>>, Evaluates(top), NEW w \in Values
  PROVE  /\ May([top EXCEPT !.asked = TRUE])
         /\ May([top EXCEPT !.args = Append(@, w), !.asked = FALSE])
         /\ top.op = "call" => May(NextStep)
<1>1. /\ top \in UpdateFrame \cup DeriveFrame \cup CallFrame
      /\ top.op \in {"update", "derive", "call"}
      /\ top.args \in Seq(Values) /\ Append(top.args, w) \in Seq(Values)
      /\ <<>> \in Seq(Values)
  BY Evaluating, EmptySeq, AppendProperties
<1>2. CASE top \in UpdateFrame
  BY <1>1, <1>2 DEF UpdateFrame, May, Frame
<1>3. CASE top \in DeriveFrame
  BY <1>1, <1>3 DEF DeriveFrame, May, Frame
<1>4. CASE top \in CallFrame
  <2>1. May([top EXCEPT !.asked = TRUE])
    BY <1>1, <1>4 DEF CallFrame, May, Frame
  <2>2. May([top EXCEPT !.args = Append(@, w), !.asked = FALSE])
    BY <1>1, <1>4 DEF CallFrame, May, Frame
  <2>3. NextStep \in CallFrame /\ NextStep.op = "call"
    <3>1. top.pc + 1 \in Nat \ {0}
      BY <1>4 DEF CallFrame
    <3> QED  BY <1>1, <1>4, <3>1 DEF CallFrame, NextStep
  <2> QED  BY <2>1, <2>2, <2>3, <1>4 DEF May, Frame, CallFrame
<1> QED  BY <1>1, <1>2, <1>3, <1>4

LEMMA ReadsAVariable ==
  ASSUME IInv, Reads
  PROVE  ToRead \in Vars
<1>1. Deps[FormulaOf(top)] \in Seq(Vars) /\ top.args \in Seq(Values)
  BY Evaluating DEF Reads
<1>2. Len(top.args) \in Nat /\ Len(top.args) < Len(Deps[FormulaOf(top)])
  BY <1>1, LenProperties DEF Reads
<1> QED  BY <1>1, <1>2, ElementOfSeq DEF ToRead

LEMMA EvaluationSteps ==
  ASSUME IInv, Acyclic, Refresh \/ Read \/ Unchanged \/ Changed \/ DeriveFails
  PROVE  IInv'
<1>1. CASE Refresh
  <2>1. stack # <<>> /\ Evaluates(top) /\ ToRead \in Vars
    BY <1>1, ReadsAVariable DEF Refresh, Reads
  <2>2. Update(ToRead) \in Frame /\ Update(ToRead).op = "update"
    <3>1. Derived(ToRead)
      BY <1>1 DEF Refresh, Outdated
    <3> QED  BY <2>1, <3>1 DEF IInv, TypeOK, Derived, Update, UpdateFrame, Frame
  <2>3. May([top EXCEPT !.asked = TRUE])
    <3>1. PICK w : w \in Values
      BY <2>1 DEF IInv, TypeOK
    <3> QED  BY <2>1, <3>1, Evaluation
  <2>4. /\ Shape(stack', adj) /\ stack' # <<>> /\ Serving(stack')
    BY <1>1, <2>1, <2>2, <2>3, Calls DEF Refresh
  <2> QED  BY <1>1, <2>4, Keeps DEF Refresh, IInv, TypeOK
<1>2. CASE Read
  <2>1. stack # <<>> /\ Evaluates(top) /\ val[ToRead] \in Values
    BY <1>2, ReadsAVariable DEF Read, Reads, IInv, TypeOK
  <2>2. May([top EXCEPT !.args = Append(@, val[ToRead]), !.asked = FALSE])
    BY <2>1, Evaluation
  <2>3. /\ Shape(stack', adj) /\ stack' # <<>> /\ Serving(stack')
    BY <1>2, <2>1, <2>2, Continues DEF Read
  <2> QED  BY <1>2, <2>3, Keeps DEF Read, IInv, TypeOK
<1>3. CASE Unchanged \/ DeriveFails
  <2>1. stack # <<>> /\ top.op \notin {"settle", "recalc"} /\ stack' = rest
    BY <1>3 DEF Unchanged, DeriveFails, Evaluated
  <2>2. Shape(stack', adj) /\ Serving(stack') /\ (mode = "serve" => stack' # <<>>)
    BY <2>1, Returns
  <2> QED  BY <1>3, <2>2, Keeps DEF Unchanged, DeriveFails, IInv, TypeOK
<1>4. CASE Changed
  <2>1. /\ stack # <<>> /\ top.op = "update" /\ Result \in Values
        /\ val' = [val EXCEPT ![top.var] = Result]
        /\ stack' = <<Emit(top.var)>> \o rest
    BY <1>4 DEF Changed, Evaluated, Changes
  <2>2. top.var \in Vars
    BY <2>1, TopFrame, FrameKinds DEF UpdateFrame
  <2>3. May(Emit(top.var))
    BY <2>1, <2>2, NotifyFrames DEF May, IInv
  <2>4. /\ Shape(stack', adj) /\ stack' # <<>> /\ Serving(stack')
    BY <2>1, <2>3, Continues
  <2>5. val' \in [Vars -> Values]
    BY <2>1, <2>2 DEF IInv, TypeOK
  <2> QED  BY <1>4, <2>4, <2>5, Keeps DEF Changed, IInv, TypeOK
<1> QED  BY <1>1, <1>2, <1>3, <1>4

LEMMA NotificationSteps ==
  ASSUME IInv, Acyclic, NotifyNext \/ CallSubscriber \/ Notified
  PROVE  IInv'
<1>1. stack # <<>> /\ top.op = "notify" /\ top \in NotifyFrame
  BY TopFrame, FrameKinds DEF NotifyNext, CallSubscriber, Notified, Running
<1>2. CASE NotifyNext
  <2>1. CASE top.queue # <<>>
    <3> DEFINE v == Head(top.queue)
               x == [top EXCEPT !.queue = Tail(@), !.about = v, !.due = subs[v]]
    <3>1. v \in Vars /\ Tail(top.queue) \in Seq(Vars)
      BY <1>1, <2>1, HeadTailProperties DEF NotifyFrame
    <3>2. subs[v] \subseteq Actions
      BY <3>1 DEF IInv, TypeOK
    <3> HIDE DEF v
    <3>3. x \in NotifyFrame /\ x.op = "notify"
      BY <1>1, <3>1, <3>2 DEF NotifyFrame
    <3>4. May(x)
      BY <1>1, <3>3 DEF May, Frame
    <3>5. stack' = <<x>> \o rest
      BY <1>2, <2>1 DEF NotifyNext, v
    <3>6. Shape(stack', adj) /\ stack' # <<>> /\ Serving(stack')
      BY <1>1, <3>4, <3>5, Continues
    <3> QED  BY <1>2, <3>6, Keeps DEF NotifyNext, IInv, TypeOK
  <2>2. CASE top.queue = <<>>
    <3>1. PICK v \in Vars :
            /\ top.also[v] > 0
            /\ stack' = <<[top EXCEPT !.also[v] = @ - 1, !.about = v,
                                      !.due = subs[v]]>> \o rest
      BY <1>2, <2>2 DEF NotifyNext
    <3> DEFINE x == [top EXCEPT !.also[v] = @ - 1, !.about = v, !.due = subs[v]]
    <3>2. top.also \in [Vars -> Nat] /\ top.also[v] - 1 \in Nat
      BY <1>1, <3>1 DEF NotifyFrame
    <3>3. [top.also EXCEPT ![v] = @ - 1] \in [Vars -> Nat]
      BY <3>2
    <3>4. subs[v] \subseteq Actions
      BY DEF IInv, TypeOK
    <3>5. x \in NotifyFrame /\ x.op = "notify"
      BY <1>1, <3>3, <3>4 DEF NotifyFrame
    <3>6. May(x)
      BY <1>1, <3>5 DEF May, Frame
    <3>7. Shape(stack', adj) /\ stack' # <<>> /\ Serving(stack')
      BY <1>1, <3>1, <3>6, Continues
    <3> QED  BY <1>2, <3>7, Keeps DEF NotifyNext, IInv, TypeOK
  <2> QED  BY <2>1, <2>2
<1>3. CASE CallSubscriber
  <2>1. PICK fn \in top.due :
          /\ stack' = <<Call(fn, val[top.about]),
                        [top EXCEPT !.due = @ \ {fn}]>> \o rest
          /\ heard' = [heard EXCEPT ![top.about][fn] = val[top.about]]
    BY <1>3 DEF CallSubscriber
  <2>2. fn \in Actions /\ top.about \in Vars /\ val[top.about] \in Values
    BY <1>1, <2>1 DEF NotifyFrame, IInv, TypeOK
  <2>3. Call(fn, val[top.about]) \in Frame /\ Call(fn, val[top.about]).op = "call"
    BY <2>2, EmptySeq DEF Call, CallFrame, Frame
  <2>4. May([top EXCEPT !.due = @ \ {fn}])
    BY <1>1 DEF NotifyFrame, May, Frame
  <2>5. Shape(stack', adj) /\ stack' # <<>> /\ Serving(stack')
    BY <1>1, <2>1, <2>3, <2>4, Calls
  <2>6. heard' \in [Vars -> [Actions -> Values]]
    BY <2>1, <2>2 DEF IInv, TypeOK
  <2> QED  BY <1>3, <2>5, <2>6, Keeps DEF CallSubscriber, IInv, TypeOK
<1>4. CASE Notified
  <2>1. Shape(stack', adj) /\ Serving(stack') /\ (mode = "serve" => stack' # <<>>)
    BY <1>1, <1>4, Returns DEF Notified
  <2> QED  BY <1>4, <2>1, Keeps DEF Notified, IInv, TypeOK
<1> QED  BY <1>2, <1>3, <1>4

-----------------------------------------------------------------------------
(* Marks.                                                                  *)

\* The walk that stops at marked variables marks everything that depends on
\* what it marks, because what it stops at was closed before.
LEMMA MarkDirtyCloses ==
  ASSUME NEW v \in Vars, dirty \subseteq Vars, adj \in [Vars -> SUBSET Vars],
         \A u \in dirty : adj[u] \subseteq dirty
  PROVE  /\ MarkDirty(v) \subseteq Vars /\ v \in MarkDirty(v)
         /\ \A u \in MarkDirty(v) : adj[u] \subseteq MarkDirty(v)
<1>1. MarkDirty(v) \subseteq Vars /\ v \in MarkDirty(v)
  BY DEF MarkDirty, Walk
<1>2. ASSUME NEW u \in Walk(dirty, v), u \notin dirty, NEW w \in adj[u]
      PROVE  w \in Walk(dirty, v)
  <2>1. u \in Vars /\ w \in Vars
    BY <1>2 DEF Walk
  <2>2. ASSUME NEW T \in SUBSET Vars,
               v \in T /\ \A t \in T \ dirty : adj[t] \subseteq T
        PROVE  w \in T
    BY <1>2, <2>2 DEF Walk
  <2> QED  BY <2>1, <2>2 DEF Walk
<1> QED  BY <1>1, <1>2 DEF MarkDirty

\* A step that assigns to v and marks.
LEMMA MarksKeep ==
  ASSUME IInv, NEW v \in Vars, dirty' = MarkDirty(v), Acyclic,
         UNCHANGED <<graphVars, subVars, mode, heard>>,
         statements' \in 0..MaxStatements,
         val' \in [Vars -> Values], Shape(stack', adj), stack' # <<>>,
         Serving(stack')
  PROVE  IInv'
<1>1. dirty' \subseteq Vars /\ \A u \in dirty' : adj[u] \subseteq dirty'
  BY MarkDirtyCloses DEF IInv, TypeOK, DirtyClosed
<1>2. TypeOK'
  BY <1>1 DEF IInv, TypeOK, Shape, graphVars, subVars
<1>3. EdgesSound' /\ DirtyClosed'
  BY <1>1 DEF IInv, EdgesSound, DirtyClosed, Acyclic, graphVars
<1>4. Shape(stack, adj)' /\ ServesShape' /\ CyclicStops'
  BY DEF Shape, ServesShape, Serving, Outermost, CyclicStops, Acyclic, graphVars
<1> QED  BY <1>2, <1>3, <1>4 DEF IInv

LEMMA ActionSteps ==
  ASSUME IInv, Acyclic, Guard \/ Set \/ SetFails \/ Return
  PROVE  IInv'
<1>1. stack # <<>> /\ top.op = "call"
  BY DEF Guard, Set, SetFails, Return, Evaluated, Running
<1>2. Evaluates(top) => May(NextStep)
  <2>1. PICK w : w \in Values
    <3>1. top.arg \in Values
      BY <1>1, TopFrame, FrameKinds DEF CallFrame
    <3> QED  BY <3>1
  <2> QED  BY <1>1, <2>1, Evaluation
<1>3. Evaluates(top) =>
        /\ Shape(<<NextStep>> \o rest, adj) /\ <<NextStep>> \o rest # <<>>
        /\ Serving(<<NextStep>> \o rest)
  BY <1>1, <1>2, Continues
<1>4. Shape(rest, adj) /\ Serving(rest) /\ (mode = "serve" => rest # <<>>)
  BY <1>1, Returns
<1>5. CASE Guard
  <2>1. Evaluates(top) /\ (stack' = <<NextStep>> \o rest \/ stack' = <<>> \o rest)
    BY <1>5 DEF Guard, Evaluated
  <2>2. <<>> \o rest = rest
    BY <1>1, HeadTailProperties, ConcatEmptySeq DEF IInv, Shape, rest
  <2>3. Shape(stack', adj) /\ Serving(stack') /\ (mode = "serve" => stack' # <<>>)
    BY <1>3, <1>4, <2>1, <2>2
  <2> QED  BY <1>5, <2>3, Keeps DEF Guard, IInv, TypeOK
<1>6. CASE Set
  <2>1. /\ Evaluates(top) /\ stack' = <<NextStep>> \o rest
        /\ val' = [val EXCEPT ![Step.var] = Result] /\ Result \in Values
        /\ dirty' = MarkDirty(Step.var)
    BY <1>6 DEF Set, Evaluated, Threw
  <2>2. Step.var \in Vars
    BY <1>1, <2>1, StepType DEF Evaluates
  <2>3. val' \in [Vars -> Values]
    BY <2>1, <2>2 DEF IInv, TypeOK
  <2>4. UNCHANGED <<graphVars, subVars, mode, heard>> /\ statements' \in 0..MaxStatements
    BY <1>6 DEF Set, IInv, TypeOK
  <2> QED  BY <1>3, <2>1, <2>2, <2>3, <2>4, MarksKeep
<1>7. CASE SetFails
  <2>1. Evaluates(top) /\ stack' = <<NextStep>> \o rest
    BY <1>7 DEF SetFails, Evaluated
  <2> QED  BY <1>3, <1>7, <2>1, Keeps DEF SetFails, IInv, TypeOK
<1>8. CASE Return
  BY <1>4, <1>8, Keeps DEF Return, IInv, TypeOK
<1> QED  BY <1>5, <1>6, <1>7, <1>8

LEMMA RecalcSteps ==
  ASSUME IInv, Acyclic, StartRecalc \/ UpdateNext \/ Recalculated
  PROVE  IInv'
<1>1. stack # <<>> /\ top.op \in {"settle", "recalc"} /\ top \in Frame
  BY TopFrame DEF StartRecalc, UpdateNext, Recalculated, Running
<1>2. CASE StartRecalc
  <2>1. CASE dirty = {}
    <3>1. stack' = rest
      <4>1. stack' = <<>> \o rest
        BY <1>2, <2>1 DEF StartRecalc
      <4> QED
        BY <1>1, <4>1, HeadTailProperties, ConcatEmptySeq DEF IInv, Shape, rest
    <3>2. /\ Shape(rest, adj)
          /\ rest # <<>> => Outermost(rest) = Outermost(stack)
      BY <1>1, PopShape DEF IInv, rest
    <3>3. UNCHANGED <<val, graphVars, dirty, subVars, mode, statements, heard>>
      BY <1>2 DEF StartRecalc
    <3>4. TypeOK' /\ EdgesSound' /\ DirtyClosed'
      BY <3>1, <3>2, <3>3 DEF IInv, TypeOK, Shape, EdgesSound, DirtyClosed,
                              Acyclic, graphVars, subVars
    <3>5. Shape(stack, adj)' /\ CyclicStops'
      BY <3>1, <3>2, <3>3 DEF Shape, CyclicStops, Acyclic, graphVars
    <3>6. ServesShape'
      BY <1>1, <2>1, <3>1, <3>2, <3>3 DEF IInv, ServesShape, Outermost
    <3> QED  BY <3>4, <3>5, <3>6 DEF IInv
  <2>2. CASE dirty # {}
    <3>1. stack' = <<Recalc(dirty)>> \o rest
      BY <1>2, <2>2 DEF StartRecalc
    <3>2. Recalc(dirty) \in RecalcFrame /\ Recalc(dirty).op = "recalc"
      <4>1. <<>> \in Seq(Vars)
        BY EmptySeq
      <4> QED  BY <2>2, <4>1 DEF IInv, TypeOK, Recalc, RecalcFrame
    <3>3. May(Recalc(dirty))
      BY <3>2 DEF May, Frame
    <3>4. Shape(stack', adj) /\ stack' # <<>> /\ Serving(stack')
      BY <1>1, <3>1, <3>3, Continues
    <3> QED  BY <1>2, <3>4, Keeps DEF StartRecalc, IInv, TypeOK
  <2> QED  BY <2>1, <2>2
<1>3. CASE UpdateNext
  <2>1. PICK v \in top.todo :
          stack' = (IF Derived(v) THEN <<Update(v)>> ELSE <<>>)
                     \o <<[top EXCEPT !.todo = @ \ {v},
                                      !.order = Append(@, v)]>> \o rest
    BY <1>3 DEF UpdateNext
  <2> DEFINE x == [top EXCEPT !.todo = @ \ {v}, !.order = Append(@, v)]
  <2>2. top \in RecalcFrame /\ top.op = "recalc"
    BY <1>1, <1>3, FrameKinds DEF UpdateNext, Running
  <2>3. v \in Vars
    BY <2>2 DEF RecalcFrame
  <2>4. May(x)
    <3>1. Append(top.order, v) \in Seq(Vars) /\ Append(top.order, v) # <<>>
      BY <2>2, <2>3, AppendProperties DEF RecalcFrame
    <3>2. x \in RecalcFrame /\ x.op = "recalc"
      BY <2>2, <3>1 DEF RecalcFrame
    <3> QED  BY <3>2 DEF May, Frame
  <2>5. CASE Derived(v)
    <3>1. Update(v) \in Frame /\ Update(v).op = "update"
      BY <2>3, <2>5, EmptySeq
        DEF IInv, TypeOK, Derived, Update, UpdateFrame, Frame
    <3>2. stack' = <<Update(v), x>> \o rest
      BY <2>1, <2>5
    <3>3. Shape(stack', adj) /\ stack' # <<>> /\ Serving(stack')
      BY <1>1, <2>4, <3>1, <3>2, Calls
    <3> QED  BY <1>3, <3>3, Keeps DEF UpdateNext, IInv, TypeOK
  <2>6. CASE ~Derived(v)
    <3>1. stack' = <<x>> \o rest
      BY <2>1, <2>6
    <3>2. Shape(stack', adj) /\ stack' # <<>> /\ Serving(stack')
      BY <1>1, <2>4, <3>1, Continues
    <3> QED  BY <1>3, <3>2, Keeps DEF UpdateNext, IInv, TypeOK
  <2> QED  BY <2>5, <2>6
<1>4. CASE Recalculated
  <2>1. top \in RecalcFrame /\ top.todo = {}
    BY <1>1, <1>4, FrameKinds DEF Recalculated, Running
  <2>2. Announce(top.order) \in Frame /\ Announce(top.order).op = "notify"
    <3>1. top.order \in Seq(Vars) /\ top.order # <<>>
      BY <2>1 DEF RecalcFrame
    <3>2. Head(top.order) \in Vars
      BY <3>1, HeadTailProperties
    <3> QED  BY <3>1, <3>2, NotifyFrames DEF IInv
  <2>3. May(Settle)
    BY DEF May, Settle, SettleFrame, Frame
  <2>4. stack' = <<Announce(top.order), Settle>> \o rest
    BY <1>4 DEF Recalculated, FollowUp
  <2>5. Shape(stack', adj) /\ stack' # <<>> /\ Serving(stack')
    BY <1>1, <2>2, <2>3, <2>4, Calls
  <2>6. dirty' = {} /\ UNCHANGED <<val, graphVars, subVars, mode, statements, heard>>
    BY <1>4 DEF Recalculated
  <2>7. TypeOK' /\ EdgesSound' /\ DirtyClosed'
    BY <2>5, <2>6 DEF IInv, TypeOK, Shape, EdgesSound, DirtyClosed, Acyclic,
                      graphVars, subVars
  <2>8. Shape(stack, adj)' /\ ServesShape' /\ CyclicStops'
    BY <2>5, <2>6 DEF Shape, ServesShape, Serving, Outermost, CyclicStops,
                      Acyclic, graphVars
  <2> QED  BY <2>7, <2>8 DEF IInv
<1> QED  BY <1>2, <1>3, <1>4

LEMMA DeriveSucceedsStep ==
  ASSUME IInv, Acyclic, DeriveSucceeds
  PROVE  IInv'
<1> DEFINE v == top.var
           f == top.formula
<1>1. /\ stack # <<>> /\ top.op = "derive" /\ Result \in Values
      /\ val' = [val EXCEPT ![v] = Result]
      /\ formula' = [formula EXCEPT ![v] = f]
      /\ adj' = WithEdges(v, f)
      /\ stack' = rest
      /\ UNCHANGED <<subVars, statements, heard>>
  BY DEF DeriveSucceeds, Evaluated, Threw
<1>2. v \in Vars /\ f \in Formulas
  BY <1>1, TopFrame, FrameKinds DEF DeriveFrame
<1>3. \/ mode' = "cyclic" /\ dirty' = dirty
      \/ mode' = mode /\ dirty' = MarkDirty(v)
  BY DEF DeriveSucceeds
<1>4. stack[1] = top /\ Len(stack) \in Nat \ {0}
  BY <1>1, EmptySeq DEF IInv, Shape, top
<1>5. Len(stack) = 1 /\ \A u \in Vars : v \notin adj[u]
  <2>1. 1 \in 1..Len(stack) /\ stack[1].op = "derive" /\ stack[1].var = v
    BY <1>1, <1>4
  <2> QED  BY <2>1 DEF IInv, Shape
<1>6. rest = <<>>
  BY <1>1, <1>5, EmptySeq, HeadTailProperties DEF IInv, Shape, rest
<1>7. mode # "serve"
  <2>1. Outermost(stack) = "derive"
    BY <1>1, <1>4, <1>5 DEF Outermost
  <2> QED  BY <1>1, <2>1 DEF IInv, ServesShape
<1> HIDE DEF v, f
<1>8. /\ dirty' \subseteq Vars
      /\ mode' = mode => v \in dirty' /\ \A u \in dirty' : adj[u] \subseteq dirty'
  BY <1>2, <1>3, MarkDirtyCloses DEF IInv, TypeOK, DirtyClosed, Acyclic
<1>9. /\ adj' \in [Vars -> SUBSET Vars]
      /\ \A u \in Vars : adj'[u] = IF u \in Range(Deps[f]) THEN adj[u] \cup {v}
                                                         ELSE adj[u]
  BY <1>1, <1>2 DEF WithEdges, IInv, TypeOK
<1>10. TypeOK'
  <2>1. val' \in [Vars -> Values] /\ formula' \in [Vars -> Formulas \cup {NoFormula}]
    BY <1>1, <1>2 DEF IInv, TypeOK
  <2>2. stack' \in Seq(Frame)
    BY <1>1, <1>6, EmptySeq
  <2>3. mode' \in {"load", "serve", "cyclic"}
    BY <1>3 DEF IInv, TypeOK
  <2> QED  BY <1>1, <1>8, <1>9, <2>1, <2>2, <2>3 DEF IInv, TypeOK, subVars
<1>11. EdgesSound'
  <2>1. ASSUME NEW u \in Vars, NEW w \in Vars, w \in adj'[u]
        PROVE  formula'[w] \in Formulas /\ u \in Range(Deps[formula'[w]])
    <3>1. CASE w = v
      <4>1. u \in Range(Deps[f])
        BY <1>5, <1>9, <2>1, <3>1
      <4> QED  BY <1>1, <1>2, <3>1, <4>1 DEF IInv, TypeOK
    <3>2. CASE w # v
      <4>1. w \in adj[u]
        BY <1>9, <2>1, <3>2
      <4> QED  BY <1>1, <3>2, <4>1 DEF IInv, TypeOK, EdgesSound
    <3> QED  BY <3>1, <3>2
  <2> QED  BY <2>1 DEF EdgesSound
<1>12. DirtyClosed'
  BY <1>3, <1>8, <1>9 DEF DirtyClosed, Acyclic
<1>13. Shape(stack, adj)'
  <2>1. stack' = <<>> /\ <<>> \in Seq(Frame) /\ Len(<<>>) = 0
    BY <1>1, <1>6, EmptySeq
  <2> QED  BY <2>1 DEF Shape
<1>14. ServesShape'
  BY <1>3, <1>7 DEF ServesShape
<1>15. CyclicStops'
  BY <1>1, <1>6 DEF CyclicStops
<1> QED  BY <1>10, <1>11, <1>12, <1>13, <1>14, <1>15 DEF IInv

-----------------------------------------------------------------------------
(* Statements and events: nothing runs when they begin.                    *)

LEMMA OneCall ==
  ASSUME NEW g, NEW x \in Frame, x.op # "derive"
  PROVE  Shape(<<x>>, g) /\ <<x>> # <<>> /\ Outermost(<<x>>) = x.op
<1>1. <<x>> \in Seq(Frame) /\ Len(<<x>>) = 1 /\ <<x>>[1] = x
  OBVIOUS
<1> QED  BY <1>1 DEF Shape, Outermost

LEMMA StatementSteps ==
  ASSUME IInv, Assign \/ DeriveRefused \/ Invoke \/ EndProgram \/ StartProgram \/ Event
  PROVE  IInv'
<1>1. Acyclic /\ stack = <<>> /\ statements' \in 0..MaxStatements
  <2>1. mode \in {"load", "serve"} /\ stack = <<>>
    BY DEF Assign, DeriveRefused, Invoke, EndProgram, StartProgram, Event,
           Statement, AtRest
  <2>2. statements' \in 0..MaxStatements
    BY ProgramAssumption DEF Assign, DeriveRefused, Invoke, EndProgram,
         StartProgram, Event, Statement, IInv, TypeOK
  <2> QED  BY <2>1, <2>2 DEF Acyclic
<1>2. Settle \in Frame /\ Settle.op = "settle"
  BY DEF Settle, SettleFrame, Frame
<1>3. CASE Assign
  <2>1. PICK write \in Writes : /\ val' = [val EXCEPT ![write[1]] = write[2]]
                                /\ dirty' = MarkDirty(write[1])
    BY <1>3 DEF Assign
  <2>2. write[1] \in Vars /\ write[2] \in Values
    BY <2>1, ProgramAssumption
  <2>3. Shape(stack', adj) /\ stack' # <<>> /\ Serving(stack')
    BY <1>2, <1>3, OneCall DEF Assign, Serving
  <2>4. val' \in [Vars -> Values]
    BY <2>1, <2>2 DEF IInv, TypeOK
  <2> QED  BY <1>1, <1>3, <2>1, <2>2, <2>3, <2>4, MarksKeep DEF Assign
<1>4. CASE DeriveRefused
  BY <1>1, <1>4 DEF DeriveRefused, IInv, TypeOK, CyclicStops, EdgesSound,
                    DirtyClosed, Acyclic, Shape, ServesShape, Outermost, graphVars, subVars
<1>5. CASE Invoke \/ Event
  <2>1. PICK h \in Handlers :
          \/ Invoke /\ stack' = <<Call(h[1], h[2])>>
          \/ Event /\ stack' = <<Call(h[1], h[2]), Settle>>
    BY <1>5 DEF Invoke, Event
  <2> DEFINE c == Call(h[1], h[2])
  <2>2. h[1] \in Actions /\ h[2] \in Values
    BY <2>1, ProgramAssumption
  <2>3. c \in Frame /\ c.op = "call"
    BY <2>2, EmptySeq DEF Call, CallFrame, Frame
  <2> HIDE DEF c
  <2>4. CASE Invoke /\ stack' = <<c>>
    <3>1. Shape(stack', adj) /\ stack' # <<>>
      BY <2>3, <2>4, OneCall
    <3>2. mode' = "load" /\ UNCHANGED <<val, graphVars, dirty, subVars, mode, heard>>
      BY <2>4 DEF Invoke, Statement
    <3> QED
      BY <1>1, <3>1, <3>2 DEF IInv, TypeOK, CyclicStops, EdgesSound, DirtyClosed,
           Acyclic, Shape, ServesShape, graphVars, subVars
  <2>5. CASE Event /\ stack' = <<c, Settle>>
    <3>1. /\ <<c, Settle>> \in Seq(Frame) /\ Len(<<c, Settle>>) = 2
          /\ <<c, Settle>>[1] = c /\ <<c, Settle>>[2] = Settle
      BY <1>2, <2>3
    <3>2. Shape(stack', adj) /\ stack' # <<>> /\ Outermost(stack') = "settle"
      BY <1>2, <2>3, <2>5, <3>1 DEF Shape, Outermost
    <3>3. UNCHANGED <<val, graphVars, dirty, subVars, mode, heard>>
      BY <2>5 DEF Event
    <3>4. TypeOK' /\ EdgesSound' /\ DirtyClosed' /\ CyclicStops'
      BY <1>1, <3>2, <3>3 DEF IInv, TypeOK, CyclicStops, EdgesSound, DirtyClosed,
           Acyclic, Shape, graphVars, subVars
    <3>5. Shape(stack, adj)' /\ ServesShape'
      BY <3>2, <3>3 DEF Shape, ServesShape, Outermost, graphVars
    <3> QED  BY <3>4, <3>5 DEF IInv
  <2> QED  BY <2>1, <2>4, <2>5 DEF c
<1>6. CASE EndProgram
  <2>1. Shape(stack', adj) /\ stack' # <<>> /\ Outermost(stack') = "settle"
    BY <1>2, <1>6, OneCall DEF EndProgram
  <2>2. mode' = "serve" /\ UNCHANGED <<val, graphVars, dirty, subVars, statements, heard>>
    BY <1>6 DEF EndProgram
  <2>3. TypeOK' /\ EdgesSound' /\ DirtyClosed' /\ CyclicStops'
    BY <1>1, <2>1, <2>2 DEF IInv, TypeOK, CyclicStops, EdgesSound, DirtyClosed,
         Acyclic, Shape, graphVars, subVars
  <2>4. Shape(stack, adj)' /\ ServesShape'
    BY <2>1, <2>2 DEF Shape, ServesShape, Outermost, graphVars
  <2> QED  BY <2>3, <2>4 DEF IInv
<1>7. CASE StartProgram
  <2>1. /\ mode' = "load" /\ UNCHANGED <<val, graphVars, dirty, subVars, stack,
                                        statements, heard>>
    BY <1>7 DEF StartProgram
  <2> QED
    BY <1>1, <2>1 DEF IInv, TypeOK, CyclicStops, EdgesSound, DirtyClosed, Acyclic,
         Shape, ServesShape, graphVars, subVars
<1> QED  BY <1>3, <1>4, <1>5, <1>6, <1>7

\* Taking a definition down keeps every edge sound and every mark closed.
LEMMA WithoutEdgesSound ==
  ASSUME IInv, Acyclic, NEW v \in Vars
  PROVE  /\ WithoutEdges(v) \in [Vars -> SUBSET Vars]
         /\ \A u \in Vars : WithoutEdges(v)[u] \subseteq adj[u] \ {v}
         /\ \A u \in dirty : WithoutEdges(v)[u] \subseteq dirty \ {v}
<1>1. \A u \in Vars : v \in adj[u] =>
                       Derived(v) /\ u \in Range(Deps[formula[v]])
  BY NamesAssumption DEF IInv, EdgesSound, Derived
<1>2. adj \in [Vars -> SUBSET Vars] /\ dirty \subseteq Vars
  BY DEF IInv, TypeOK
<1>3. /\ WithoutEdges(v) \in [Vars -> SUBSET Vars]
      /\ \A u \in Vars : WithoutEdges(v)[u] =
           IF Derived(v) /\ u \in Range(Deps[formula[v]]) THEN adj[u] \ {v} ELSE adj[u]
  BY <1>2 DEF WithoutEdges
<1>4. \A u \in Vars : WithoutEdges(v)[u] \subseteq adj[u] \ {v}
  BY <1>1, <1>3
<1> QED  BY <1>2, <1>3, <1>4 DEF IInv, DirtyClosed

LEMMA DeriveStep ==
  ASSUME IInv, Derive
  PROVE  IInv'
<1>1. /\ Acyclic /\ stack = <<>> /\ statements' \in 0..MaxStatements
      /\ UNCHANGED <<val, formula, dirty, mode, heard>> /\ mode = "load"
  BY ProgramAssumption DEF Derive, Statement, AtRest, Acyclic, IInv, TypeOK
<1>2. PICK d \in Derives : /\ adj' = WithoutEdges(d[1])
                           /\ subs' = [subs EXCEPT ![d[1]] = {}]
                           /\ names' = [names EXCEPT ![d[1]] = {}]
                           /\ stack' = <<Derivation(d[1], d[2])>>
  BY DEF Derive
<1>3. d[1] \in Vars /\ d[2] \in Formulas
  BY ProgramAssumption
<1> DEFINE v == d[1]
           x == Derivation(v, d[2])
<1>4. x \in Frame /\ x.op = "derive" /\ x.var = v
  BY <1>3, EmptySeq DEF Derivation, DeriveFrame, Frame
<1> HIDE DEF v
<1>5. /\ adj' \in [Vars -> SUBSET Vars]
      /\ \A u \in Vars : adj'[u] \subseteq adj[u] \ {v}
      /\ \A u \in dirty : adj'[u] \subseteq dirty
  BY <1>1, <1>2, <1>3, WithoutEdgesSound DEF v
<1>6. stack' = <<x>>
  BY <1>2 DEF v
<1> HIDE DEF x
<1>7. <<x>> \in Seq(Frame) /\ Len(<<x>>) = 1 /\ <<x>>[1] = x
  BY <1>4
<1>8. TypeOK'
  <2>1. subs' \in [Vars -> SUBSET Actions] /\ names' \in [Vars -> SUBSET Actions]
    BY <1>2, <1>3 DEF IInv, TypeOK
  <2> QED  BY <1>1, <1>5, <1>6, <1>7, <2>1 DEF IInv, TypeOK
<1>9. EdgesSound' /\ DirtyClosed'
  BY <1>1, <1>5 DEF IInv, TypeOK, EdgesSound, DirtyClosed
<1>10. Shape(stack, adj)'
  BY <1>4, <1>5, <1>6, <1>7 DEF Shape
<1>11. ServesShape' /\ CyclicStops'
  BY <1>1 DEF ServesShape, CyclicStops
<1> QED  BY <1>8, <1>9, <1>10, <1>11 DEF IInv

LEMMA UnbindStep ==
  ASSUME IInv, NEW v \in Unbinds, Unbind(v)
  PROVE  IInv'
<1>1. /\ Acyclic /\ stack = <<>> /\ statements' \in 0..MaxStatements
      /\ UNCHANGED <<val, names, stack, mode, heard>> /\ mode = "load" /\ v \in Vars
  BY ProgramAssumption DEF Unbind, Statement, AtRest, Acyclic, IInv, TypeOK
<1>2. /\ adj' = WithoutEdges(v)
      /\ formula' = [formula EXCEPT ![v] = NoFormula]
      /\ dirty' = IF Derived(v) THEN dirty \ {v} ELSE dirty
      /\ subs' = [subs EXCEPT ![v] = {}]
  BY DEF Unbind
<1>3. /\ adj' \in [Vars -> SUBSET Vars]
      /\ \A u \in Vars : adj'[u] \subseteq adj[u] \ {v}
      /\ \A u \in dirty : adj'[u] \subseteq dirty \ {v}
  BY <1>1, <1>2, WithoutEdgesSound
<1>4. TypeOK'
  BY <1>1, <1>2, <1>3 DEF IInv, TypeOK
<1>5. EdgesSound'
  <2>1. \A w \in Vars : w # v => formula'[w] = formula[w]
    BY <1>2 DEF IInv, TypeOK
  <2> QED  BY <1>3, <2>1 DEF IInv, EdgesSound
<1>6. DirtyClosed'
  BY <1>2, <1>3 DEF DirtyClosed
<1>7. Shape(stack, adj)' /\ ServesShape' /\ CyclicStops'
  BY <1>1, EmptySeq DEF Shape, ServesShape, CyclicStops
<1> QED  BY <1>4, <1>5, <1>6, <1>7 DEF IInv

LEMMA SubscriptionSteps ==
  ASSUME IInv, NEW fn \in Actions, NEW v \in Vars,
         Subscribe(fn, v) \/ Unsubscribe(fn, v)
  PROVE  IInv'
<1>1. /\ mode = "load" /\ statements' \in 0..MaxStatements
      /\ UNCHANGED <<val, graphVars, dirty, stack, mode>>
  BY ProgramAssumption DEF Subscribe, Unsubscribe, Statement, IInv, TypeOK
<1>2. /\ subs' \in [Vars -> SUBSET Actions] /\ names' \in [Vars -> SUBSET Actions]
      /\ heard' \in [Vars -> [Actions -> Values]]
  <2>1. CASE Unsubscribe(fn, v)
    BY <2>1 DEF Unsubscribe, IInv, TypeOK
  <2>2. CASE Subscribe(fn, v) /\ fn \in names[v]
    BY <2>2 DEF Subscribe, IInv, TypeOK, subVars
  <2>3. CASE Subscribe(fn, v) /\ fn \notin names[v]
    <3>1. /\ subs' = [subs EXCEPT ![v] = @ \cup {fn}]
          /\ names' = [names EXCEPT ![v] = @ \cup {fn}]
          /\ heard' = [heard EXCEPT ![v][fn] = val[v]]
      BY <2>3 DEF Subscribe
    <3>2. subs' \in [Vars -> SUBSET Actions] /\ names' \in [Vars -> SUBSET Actions]
      BY <3>1 DEF IInv, TypeOK
    <3>3. heard' \in [Vars -> [Actions -> Values]]
      <4>1. heard \in [Vars -> [Actions -> Values]] /\ val[v] \in Values
        BY DEF IInv, TypeOK
      <4> QED  BY <3>1, <4>1
    <3> QED  BY <3>2, <3>3
  <2> QED  BY <2>1, <2>2, <2>3
<1>3. TypeOK'
  BY <1>1, <1>2 DEF IInv, TypeOK, graphVars
<1> QED
  BY <1>1, <1>3 DEF IInv, EdgesSound, DirtyClosed, Acyclic, Shape, ServesShape,
       Outermost, CyclicStops, graphVars

-----------------------------------------------------------------------------
(* The theorems.                                                           *)

LEMMA InitInv ==
  ASSUME Init
  PROVE  IInv
<1>1. <<>> \in Seq(Frame) /\ Len(<<>>) = 0
  BY EmptySeq
<1>2. TypeOK
  BY <1>1, NamesAssumption, ProgramAssumption DEF Init, TypeOK
<1> QED
  BY <1>1, <1>2 DEF Init, IInv, EdgesSound, DirtyClosed, Acyclic, Shape,
       ServesShape, CyclicStops

LEMMA NextInv ==
  ASSUME IInv, [Next]_vars
  PROVE  IInv'
<1>1. CASE Program
  BY <1>1, StatementSteps, DeriveStep, UnbindStep, SubscriptionSteps, ProgramAssumption
    DEF Program
<1>2. CASE Engine
  <2>1. stack # <<>>
    BY <1>2 DEF Engine, Refresh, Read, Unchanged, Changed, DeriveFails,
         DeriveSucceeds, NotifyNext, CallSubscriber, Notified, Guard, Set,
         SetFails, Return, StartRecalc, UpdateNext, Recalculated, Reads,
         Evaluated, Running
  <2>2. Acyclic
    BY <2>1 DEF IInv, CyclicStops, Acyclic
  <2> QED
    BY <1>2, <2>2, EvaluationSteps, DeriveSucceedsStep, NotificationSteps,
       ActionSteps, RecalcSteps DEF Engine
<1>3. CASE UNCHANGED vars
  BY <1>3 DEF vars, graphVars, subVars, IInv, TypeOK, EdgesSound, DirtyClosed,
       Acyclic, Shape, ServesShape, Outermost, CyclicStops
<1> QED  BY <1>1, <1>2, <1>3 DEF Next

\* The inductive invariant, whatever a program and its page do.
THEOREM Inductive == Spec => []IInv
  BY InitInv, NextInv, PTL DEF Spec

\* Types of the environment and of every call in progress.
THEOREM TypeCorrect == Spec => []TypeOK
<1>1. IInv => TypeOK
  BY DEF IInv
<1> QED  BY <1>1, Inductive, PTL

\* Whatever depends on a marked variable is marked (markDirty stops at marked
\* variables), through every redefinition, unbinding and callback.
THEOREM MarksClosed == Spec => []DirtyClosed
<1>1. IInv => DirtyClosed
  BY DEF IInv
<1> QED  BY <1>1, Inductive, PTL

\* Edges lead only to derived variables that read their source.
THEOREM EdgesHonest == Spec => []EdgesSound
<1>1. IInv => EdgesSound
  BY DEF IInv
<1> QED  BY <1>1, Inductive, PTL

\* recalcAllDirty leaves no marks to a page that waits for events, however
\* often callbacks mark variables again.
THEOREM NothingLeftToRecalculate == Spec => []ServesClean
<1>1. IInv => ServesClean
  BY DEF IInv, ServesShape, ServesClean, AtRest
<1> QED  BY <1>1, Inductive, PTL

\* markDirty does not go on from a variable that is marked already, and loses
\* nothing by it: what it marks is everything the variable leads to.
THEOREM MarkingComplete ==
  Spec => [](Acyclic => \A v \in Vars : MarkDirty(v) = dirty \cup Reach(v))
<1>1. ASSUME IInv, Acyclic, NEW v \in Vars
      PROVE  MarkDirty(v) = dirty \cup Reach(v)
  <2>1. Walk(dirty, v) \subseteq Reach(v)
    BY DEF Reach, Walk
  <2>2. ASSUME NEW u \in Reach(v)
        PROVE  u \in MarkDirty(v)
    <3>1. /\ MarkDirty(v) \in SUBSET Vars /\ v \in MarkDirty(v)
          /\ \A w \in MarkDirty(v) \ {} : adj[w] \subseteq MarkDirty(v)
      BY <1>1, MarkDirtyCloses DEF IInv, TypeOK, DirtyClosed
    <3> QED  BY <3>1 DEF Reach, Walk
  <2> QED  BY <2>1, <2>2 DEF MarkDirty
<1>2. IInv => (Acyclic => \A v \in Vars : MarkDirty(v) = dirty \cup Reach(v))
  BY <1>1
<1> QED  BY <1>2, Inductive, PTL

-----------------------------------------------------------------------------
(* The calls in progress from the outermost in.  A step changes only the   *)
(* end of this chain.                                                      *)

Chain == [k \in 1..Len(stack) |-> stack[Len(stack) + 1 - k]]

Below == \A k \in 1..Len(stack) - 1 : Chain'[k] = Chain[k]

\* The innermost call returned, went on as x, or made the call y.
Returned == Below /\ Len(stack') = Len(stack) - 1
Became(x) == Below /\ Len(stack') = Len(stack) /\ Chain'[Len(stack)] = x
Called(x, y) == /\ Below /\ Len(stack') = Len(stack) + 1
                /\ Chain'[Len(stack)] = x /\ Chain'[Len(stack) + 1] = y

LEMMA ChainMoves ==
  ASSUME IInv, stack # <<>>, NEW x \in Frame, NEW y \in Frame
  PROVE  /\ Len(stack) \in Nat \ {0} /\ Chain[Len(stack)] = top
         /\ stack' = rest => Returned
         /\ stack' = <<x>> \o rest => Became(x)
         /\ stack' = <<y, x>> \o rest => Called(x, y)
<1> DEFINE n == Len(stack)
           at(k) == stack[n + 1 - k]
<1>1. /\ stack \in Seq(Frame) /\ n \in Nat \ {0} /\ top = stack[1]
      /\ rest \in Seq(Frame) /\ Len(rest) = n - 1
      /\ \A i \in 1..n - 1 : rest[i] = stack[i + 1]
  BY EmptySeq, HeadTailProperties DEF IInv, Shape, top, rest
<1>2. \A k \in 1..n : Chain[k] = stack[n + 1 - k]
  BY DEF Chain
<1>3. \A k \in 1..Len(stack') : Chain'[k] = stack'[Len(stack') + 1 - k]
  BY DEF Chain
<1> HIDE DEF n
<1>4. Chain[n] = top
  BY <1>1, <1>2
<1>5. ASSUME stack' = rest PROVE Returned
  <2>1. Len(stack') = n - 1
    BY <1>1, <1>5
  <2>2. ASSUME NEW k \in 1..n - 1 PROVE Chain'[k] = Chain[k]
    <3>1. Chain'[k] = rest[n - k]
      <4>1. k \in 1..Len(stack') /\ Len(stack') + 1 - k = n - k
        BY <1>1, <2>1
      <4> QED  BY <1>3, <1>5, <4>1
    <3>2. Chain[k] = stack[n + 1 - k] /\ n - k \in 1..n - 1
      BY <1>1, <1>2
    <3>3. rest[n - k] = stack[n - k + 1] /\ n - k + 1 = n + 1 - k
      BY <1>1, <3>2
    <3> QED  BY <3>1, <3>2, <3>3
  <2> QED  BY <2>1, <2>2 DEF Returned, Below, n
<1>6. ASSUME stack' = <<x>> \o rest PROVE Became(x)
  <2>1. /\ Len(stack') = n /\ stack'[1] = x
        /\ \A i \in 2..n : stack'[i] = rest[i - 1]
    BY <1>1, <1>6
  <2>2. ASSUME NEW k \in 1..n - 1 PROVE Chain'[k] = Chain[k]
    <3>1. n + 1 - k \in 2..n /\ n - k \in 1..n - 1 /\ n + 1 - k - 1 = n - k
      BY <1>1
    <3>2. Chain'[k] = stack'[n + 1 - k] /\ Chain[k] = stack[n + 1 - k]
      BY <1>1, <1>2, <1>3, <2>1
    <3>3. stack'[n + 1 - k] = rest[n - k]
      BY <2>1, <3>1
    <3>4. rest[n - k] = stack[n - k + 1] /\ n - k + 1 = n + 1 - k
      BY <1>1, <3>1
    <3> QED  BY <3>2, <3>3, <3>4
  <2>3. Chain'[n] = x
    BY <1>1, <1>3, <2>1
  <2> QED  BY <2>1, <2>2, <2>3 DEF Became, Below, n
<1>7. ASSUME stack' = <<y, x>> \o rest PROVE Called(x, y)
  <2>1. /\ Len(stack') = n + 1 /\ stack'[1] = y /\ stack'[2] = x
        /\ \A i \in 1..n - 1 : stack'[i + 2] = rest[i]
    BY <1>1, <1>7
  <2>2. ASSUME NEW k \in 1..n - 1 PROVE Chain'[k] = Chain[k]
    <3>1. n - k \in 1..n - 1 /\ n - k + 2 = n + 2 - k
      BY <1>1
    <3>2. Chain'[k] = stack'[n + 2 - k] /\ Chain[k] = stack[n + 1 - k]
      <4>1. k \in 1..n + 1 /\ k \in 1..n /\ n + 1 + 1 - k = n + 2 - k
        BY <1>1
      <4> QED  BY <1>2, <1>3, <2>1, <4>1
    <3>3. stack'[n + 2 - k] = rest[n - k]
      <4>1. stack'[n - k + 2] = rest[n - k]
        BY <2>1, <3>1
      <4> QED  BY <3>1, <4>1
    <3>4. rest[n - k] = stack[n - k + 1] /\ n - k + 1 = n + 1 - k
      BY <1>1, <3>1
    <3> QED  BY <3>2, <3>3, <3>4
  <2>3. Chain'[n] = x /\ Chain'[n + 1] = y
    <3>1. /\ n \in 1..n + 1 /\ n + 1 \in 1..n + 1
          /\ n + 1 + 1 - n = 2 /\ n + 1 + 1 - (n + 1) = 1
      <4>1. n \in Nat \ {0}
        BY <1>1
      <4> QED  BY <4>1
    <3>2. \A k \in 1..n + 1 : Chain'[k] = stack'[n + 1 + 1 - k]
      BY <1>3, <2>1
    <3> QED  BY <2>1, <3>1, <3>2
  <2> QED  BY <2>1, <2>2, <2>3 DEF Called, Below, n
<1> QED  BY <1>1, <1>4, <1>5, <1>6, <1>7 DEF n

\* A statement or an event begins with one call or two.
LEMMA ChainStarts ==
  ASSUME NEW x, NEW y
  PROVE  /\ stack' = <<>> => Len(stack') = 0
         /\ stack' = <<x>> => Len(stack') = 1 /\ Chain'[1] = x
         /\ stack' = <<y, x>> =>
              Len(stack') = 2 /\ Chain'[1] = x /\ Chain'[2] = y
<1>1. stack' = <<x>> => Len(stack') = 1 /\ stack'[1] = x
  OBVIOUS
<1>2. stack' = <<y, x>> => Len(stack') = 2 /\ stack'[1] = y /\ stack'[2] = x
  OBVIOUS
<1>3. \A k \in 1..Len(stack') : Chain'[k] = stack'[Len(stack') + 1 - k]
  BY DEF Chain
<1>4. stack' = <<x>> => Chain'[1] = x
  BY <1>1, <1>3
<1>5. ASSUME stack' = <<y, x>> PROVE Chain'[1] = x /\ Chain'[2] = y
  <2>1. /\ 1 \in 1..Len(stack') /\ 2 \in 1..Len(stack')
        /\ Len(stack') + 1 - 1 = 2 /\ Len(stack') + 1 - 2 = 1
    BY <1>2, <1>5
  <2> QED  BY <1>2, <1>3, <1>5, <2>1
<1> QED  BY <1>1, <1>2, <1>4, <1>5

\* Every call of the chain is a call.
LEMMA ChainFrames ==
  ASSUME IInv
  PROVE  \A k \in 1..Len(stack) : Chain[k] \in Frame
<1>1. stack \in Seq(Frame)
  BY DEF IInv, Shape
<1>2. ASSUME NEW k \in 1..Len(stack)
      PROVE  Chain[k] \in Frame
  <2>1. Len(stack) + 1 - k \in 1..Len(stack)
    BY <1>1
  <2> QED  BY <1>1, <2>1, ElementOfSeq DEF Chain
<1> QED  BY <1>2

\* x is the call fr, further on.
Like(x, fr) ==
  /\ x.op = fr.op
  /\ fr.op \in {"update", "derive"} => x.var = fr.var /\ x.formula = fr.formula
  /\ fr.op = "call" => x.fn = fr.fn

LEMMA EvaluationLike ==
  ASSUME IInv, stack # <<>>, Evaluates(top), NEW w \in Values
  PROVE  LET asks  == [top EXCEPT !.asked = TRUE]
             reads == [top EXCEPT !.args = Append(@, w), !.asked = FALSE]
         IN  /\ asks \in Frame /\ Like(asks, top) /\ asks.args = top.args
             /\ reads \in Frame /\ Like(reads, top)
             /\ reads.args = Append(top.args, w)
             /\ top.op = "call" => NextStep \in Frame /\ Like(NextStep, top)
<1>1. top \in UpdateFrame \cup DeriveFrame \cup CallFrame
  BY Evaluating
<1>2. /\ [top EXCEPT !.asked = TRUE] \in Frame
      /\ [top EXCEPT !.args = Append(@, w), !.asked = FALSE] \in Frame
      /\ top.op = "call" => NextStep \in Frame
  BY Evaluation DEF May
<1>3. CASE top \in UpdateFrame \/ top \in DeriveFrame
  BY <1>2, <1>3 DEF Like, UpdateFrame, DeriveFrame
<1>4. CASE top \in CallFrame
  BY <1>2, <1>4 DEF Like, CallFrame, NextStep
<1> QED  BY <1>1, <1>3, <1>4

-----------------------------------------------------------------------------
(* What each step of the engine does to the chain.                         *)

LEMMA RefreshMove ==
  ASSUME IInv, Refresh
  PROVE  /\ stack # <<>> /\ Evaluates(top) /\ ToRead \in Vars /\ Outdated(ToRead)
         /\ \E x \in Frame : /\ Called(x, Update(ToRead))
                             /\ Like(x, top) /\ x.args = top.args
<1>1. stack # <<>> /\ Evaluates(top) /\ ToRead \in Vars /\ Outdated(ToRead)
  BY ReadsAVariable DEF Refresh, Reads
<1>2. Update(ToRead) \in Frame
  BY <1>1, EmptySeq DEF Outdated, IInv, TypeOK, Derived, Update, UpdateFrame, Frame
<1>3. PICK w : w \in Values
  BY <1>1 DEF IInv, TypeOK
<1> DEFINE x == [top EXCEPT !.asked = TRUE]
<1>4. x \in Frame /\ Like(x, top) /\ x.args = top.args
  BY <1>1, <1>3, EvaluationLike
<1>5. stack' = <<Update(ToRead), x>> \o rest
  BY DEF Refresh
<1> HIDE DEF x
<1>6. Called(x, Update(ToRead))
  BY <1>1, <1>2, <1>4, <1>5, ChainMoves
<1> QED  BY <1>1, <1>4, <1>6

LEMMA ReadMove ==
  ASSUME IInv, Read
  PROVE  /\ stack # <<>> /\ Evaluates(top) /\ ToRead \in Vars
         /\ \E x \in Frame : /\ Became(x)
                             /\ Like(x, top) /\ x.args = Append(top.args, val[ToRead])
<1>1. /\ stack # <<>> /\ Evaluates(top) /\ ToRead \in Vars
      /\ val[ToRead] \in Values
  BY ReadsAVariable DEF Read, Reads, IInv, TypeOK
<1> DEFINE x == [top EXCEPT !.args = Append(@, val[ToRead]), !.asked = FALSE]
<1>2. x \in Frame /\ Like(x, top) /\ x.args = Append(top.args, val[ToRead])
  BY <1>1, EvaluationLike
<1>3. stack' = <<x>> \o rest
  BY DEF Read
<1> HIDE DEF x
<1>4. Became(x)
  BY <1>1, <1>2, <1>3, ChainMoves
<1> QED  BY <1>1, <1>2, <1>4

LEMMA ReturnMove ==
  ASSUME IInv,
         Unchanged \/ DeriveFails \/ DeriveSucceeds \/ Notified \/ Return
  PROVE  stack # <<>> /\ Returned /\ top \in Frame
<1>1. stack # <<>> /\ stack' = rest
  BY DEF Unchanged, DeriveFails, DeriveSucceeds, Notified, Return, Evaluated,
         Running
<1>2. top \in Frame
  BY <1>1, TopFrame
<1> QED  BY <1>1, <1>2, ChainMoves

LEMMA ChangedMove ==
  ASSUME IInv, Changed
  PROVE  /\ stack # <<>> /\ top \in UpdateFrame /\ top.op = "update"
         /\ Became(Emit(top.var))
         /\ Emit(top.var).op = "notify" /\ Emit(top.var).due = {}
<1>1. /\ stack # <<>> /\ top.op = "update"
      /\ stack' = <<Emit(top.var)>> \o rest
  BY DEF Changed, Evaluated
<1>2. top \in UpdateFrame /\ top.var \in Vars
  BY <1>1, TopFrame, FrameKinds DEF UpdateFrame
<1>3. Emit(top.var) \in Frame
  BY <1>2, NotifyFrames DEF IInv
<1>4. Became(Emit(top.var))
  BY <1>1, <1>3, ChainMoves
<1>5. Emit(top.var).op = "notify" /\ Emit(top.var).due = {}
  BY DEF Emit
<1> QED  BY <1>1, <1>2, <1>4, <1>5

LEMMA NotifyMove ==
  ASSUME IInv, NotifyNext
  PROVE  /\ stack # <<>> /\ top \in NotifyFrame /\ top.op = "notify" /\ top.due = {}
         /\ \E x \in NotifyFrame :
              /\ Became(x)
              /\ x.op = "notify" /\ x.due = subs[x.about]
              /\ \A v \in Range(top.queue) : v = x.about \/ v \in Range(x.queue)
<1>1. stack # <<>> /\ top.op = "notify" /\ top \in NotifyFrame /\ top.due = {}
  BY TopFrame, FrameKinds DEF NotifyNext, Running
<1>2. CASE top.queue # <<>>
  <2> DEFINE v == Head(top.queue)
             x == [top EXCEPT !.queue = Tail(@), !.about = v, !.due = subs[v]]
  <2>1. /\ v \in Vars /\ Tail(top.queue) \in Seq(Vars) /\ top.queue \in Seq(Vars)
        /\ v = top.queue[1]
    BY <1>1, <1>2, HeadTailProperties DEF NotifyFrame
  <2>2. subs[v] \subseteq Actions
    BY <2>1 DEF IInv, TypeOK
  <2>3. stack' = <<x>> \o rest
    BY <1>2 DEF NotifyNext
  <2> HIDE DEF v
  <2>4. /\ x \in NotifyFrame /\ x.op = "notify" /\ x.about = v
        /\ x.due = subs[v] /\ x.queue = Tail(top.queue)
    BY <1>1, <2>1, <2>2 DEF NotifyFrame
  <2> HIDE DEF x
  <2>5. \A u \in Range(top.queue) : u = v \/ u \in Range(Tail(top.queue))
    <3> SUFFICES ASSUME NEW i \in DOMAIN top.queue, top.queue[i] # v
                 PROVE  top.queue[i] \in Range(Tail(top.queue))
      BY DEF Range
    <3>1. /\ Len(top.queue) \in Nat /\ i \in 1..Len(top.queue) /\ i # 1
          /\ Len(Tail(top.queue)) = Len(top.queue) - 1
          /\ \A j \in 1..Len(top.queue) - 1 : Tail(top.queue)[j] = top.queue[j + 1]
      BY <1>2, <2>1
    <3>2. i - 1 \in 1..Len(top.queue) - 1 /\ i - 1 + 1 = i
      BY <3>1
    <3>3. /\ i - 1 \in DOMAIN Tail(top.queue)
          /\ Tail(top.queue)[i - 1] = top.queue[i]
      BY <2>1, <3>1, <3>2
    <3> QED  BY <3>3 DEF Range
  <2>6. Became(x)
    BY <1>1, <2>3, <2>4, ChainMoves DEF Frame
  <2> QED  BY <1>1, <2>4, <2>5, <2>6
<1>3. CASE top.queue = <<>>
  <2>1. PICK v \in Vars :
          /\ top.also[v] > 0
          /\ stack' = <<[top EXCEPT !.also[v] = @ - 1, !.about = v,
                                    !.due = subs[v]]>> \o rest
    BY <1>3 DEF NotifyNext
  <2> DEFINE x == [top EXCEPT !.also[v] = @ - 1, !.about = v, !.due = subs[v]]
  <2>2. top.also \in [Vars -> Nat] /\ top.also[v] - 1 \in Nat
    BY <1>1, <2>1 DEF NotifyFrame
  <2>3. [top.also EXCEPT ![v] = @ - 1] \in [Vars -> Nat]
    BY <2>2
  <2>4. subs[v] \subseteq Actions
    BY DEF IInv, TypeOK
  <2>5. /\ x \in NotifyFrame /\ x.op = "notify" /\ x.about = v
        /\ x.due = subs[v]
    BY <1>1, <2>3, <2>4 DEF NotifyFrame
  <2>6. stack' = <<x>> \o rest
    BY <2>1
  <2> HIDE DEF x
  <2>7. Range(top.queue) = {}
    BY <1>3 DEF Range
  <2>8. Became(x)
    BY <1>1, <2>5, <2>6, ChainMoves DEF Frame
  <2> QED  BY <1>1, <2>5, <2>7, <2>8
<1> QED  BY <1>2, <1>3

LEMMA SubscriberMove ==
  ASSUME IInv, CallSubscriber
  PROVE  /\ stack # <<>> /\ top \in NotifyFrame /\ top.op = "notify"
         /\ \E fn \in top.due : \E x \in Frame :
              /\ heard' = [heard EXCEPT ![top.about][fn] = val[top.about]]
              /\ Called(x, Call(fn, val[top.about]))
              /\ x.op = "notify" /\ x.about = top.about /\ x.queue = top.queue
              /\ x.due = top.due \ {fn}
<1>1. stack # <<>> /\ top.op = "notify" /\ top \in NotifyFrame
  BY TopFrame, FrameKinds DEF CallSubscriber, Running
<1>2. PICK fn \in top.due :
        /\ stack' = <<Call(fn, val[top.about]),
                      [top EXCEPT !.due = @ \ {fn}]>> \o rest
        /\ heard' = [heard EXCEPT ![top.about][fn] = val[top.about]]
  BY DEF CallSubscriber
<1> DEFINE x == [top EXCEPT !.due = @ \ {fn}]
<1>3. /\ x \in Frame /\ x.op = "notify" /\ x.about = top.about
      /\ x.queue = top.queue /\ x.due = top.due \ {fn}
  BY <1>1 DEF NotifyFrame, Frame
<1>4. Call(fn, val[top.about]) \in Frame
  <2>1. fn \in Actions /\ val[top.about] \in Values
    BY <1>1, <1>2 DEF NotifyFrame, IInv, TypeOK
  <2> QED  BY <2>1, EmptySeq DEF Call, CallFrame, Frame
<1>5. stack' = <<Call(fn, val[top.about]), x>> \o rest
  BY <1>2
<1> HIDE DEF x
<1>6. Called(x, Call(fn, val[top.about]))
  BY <1>1, <1>3, <1>4, <1>5, ChainMoves
<1> QED  BY <1>1, <1>2, <1>3, <1>6

LEMMA ActionMove ==
  ASSUME IInv, Guard \/ Set \/ SetFails
  PROVE  /\ stack # <<>> /\ top \in CallFrame /\ top.op = "call"
         /\ \/ Returned /\ Guard
            \/ Became(NextStep) /\ Like(NextStep, top)
<1>1. stack # <<>> /\ top.op = "call" /\ Evaluates(top)
  BY DEF Guard, Set, SetFails, Evaluated
<1>2. top \in CallFrame
  BY <1>1, TopFrame, FrameKinds
<1>3. NextStep \in Frame /\ Like(NextStep, top)
  <2>1. top.arg \in Values
    BY <1>2 DEF CallFrame
  <2> QED  BY <1>1, <2>1, EvaluationLike
<1>4. \/ stack' = <<NextStep>> \o rest
      \/ Guard /\ stack' = <<>> \o rest
  BY DEF Guard, Set, SetFails
<1>5. <<>> \o rest = rest
  BY <1>1, HeadTailProperties, ConcatEmptySeq DEF IInv, Shape, rest
<1> QED  BY <1>1, <1>2, <1>3, <1>4, <1>5, ChainMoves

-----------------------------------------------------------------------------
(* Where the calls may be, and what they belong to.                        *)

\* What only the outermost call can be.
Ground == {"settle", "recalc", "derive"}

Layout == \A k \in 1..Len(stack) : Chain[k].op \in Ground => k = 1

Recalculating == Len(stack) > 0 /\ Chain[1].op = "recalc"

\* A variable is recomputed because it is marked, and by its formula; a
\* recalculation goes through marked variables.
Fits(fr) ==
  /\ fr.op = "update" =>
       Derived(fr.var) /\ fr.formula = formula[fr.var] /\ fr.var \in dirty
  /\ fr.op = "recalc" => fr.todo \subseteq dirty

FramesFit == \A k \in 1..Len(stack) : Fits(Chain[k])

\* The variable whose definition is being replaced, if there is one.
Redefining ==
  {v \in Vars : Len(stack) > 0 /\ Chain[1].op = "derive" /\ Chain[1].var = v}

LEMMA TopOfChain ==
  ASSUME IInv, stack # <<>>
  PROVE  /\ top \in Frame /\ Len(stack) \in Nat \ {0}
         /\ Len(stack) \in 1..Len(stack) /\ Chain[Len(stack)] = top
<1>1. top \in Frame
  BY TopFrame
<1>2. Len(stack) \in Nat \ {0} /\ Chain[Len(stack)] = top
  BY <1>1, ChainMoves
<1>3. Len(stack) \in 1..Len(stack)
  BY <1>2
<1> QED  BY <1>1, <1>2, <1>3

LEMMA Alone ==
  ASSUME IInv, Layout, stack # <<>>, top.op \in Ground
  PROVE  Len(stack) = 1 /\ Chain[1] = top /\ rest = <<>>
<1>1. top \in Frame /\ stack \in Seq(Frame)
  BY TopFrame DEF IInv, Shape
<1>2. Len(stack) = 1 /\ Chain[Len(stack)] = top
  BY TopOfChain DEF Layout
<1>3. Len(rest) = 0 /\ rest \in Seq(Frame)
  BY <1>1, <1>2, HeadTailProperties DEF rest
<1> QED  BY <1>1, <1>2, <1>3, EmptySeq

\* A step of an inner call leaves the outermost one alone.
LEMMA Inner ==
  ASSUME IInv, Layout, stack # <<>>, top.op \notin Ground, Recalculating
  PROVE  Len(stack) \in Nat /\ Len(stack) > 1 /\ (Below => Chain'[1] = Chain[1])
<1>1. Len(stack) \in Nat \ {0} /\ Chain[Len(stack)] = top
  BY ChainMoves, TopFrame
<1>2. Len(stack) # 1
  BY <1>1 DEF Recalculating, Ground
<1> DEFINE n == Len(stack)
<1>3. n > 1 /\ 1 \in 1..n - 1
  <2>1. n \in Nat \ {0} /\ n # 1
    BY <1>1, <1>2
  <2> HIDE DEF n
  <2> QED  BY <2>1
<1> QED  BY <1>1, <1>3 DEF Below

LEMMA MovesFit ==
  ASSUME IInv, stack # <<>>, Layout, FramesFit,
         UNCHANGED formula, dirty \subseteq dirty',
         NEW x, NEW y,
         \/ Returned /\ top.op \notin Ground
         \/ /\ Became(x) \/ (Called(x, y) /\ y.op \notin Ground /\ Fits(y))
            /\ Fits(x)
            /\ x.op \in Ground \/ top.op \in Ground => x.op = top.op
            /\ x.op = "derive" => x.var = top.var
  PROVE  /\ Layout' /\ FramesFit'
         /\ Redefining' = Redefining /\ (Recalculating' <=> Recalculating)
<1> DEFINE n == Len(stack)
<1>1. n \in Nat \ {0} /\ Chain[n] = top
  BY ChainMoves, TopFrame
<1>2. /\ \A k \in 1..n - 1 : Chain'[k] = Chain[k]
      /\ \/ Len(stack') = n - 1 /\ top.op \notin Ground
         \/ /\ Len(stack') = n \/ (Len(stack') = n + 1 /\ Chain'[n + 1] = y
                                     /\ y.op \notin Ground /\ Fits(y))
            /\ Chain'[n] = x /\ Fits(x)
            /\ x.op \in Ground \/ top.op \in Ground => x.op = top.op
            /\ x.op = "derive" => x.var = top.var
  BY DEF Returned, Became, Called, Below
<1> HIDE DEF n
<1>3. ASSUME Len(stack') > 0
      PROVE  /\ Chain'[1].op \in Ground \/ Chain[1].op \in Ground
                  => Chain'[1].op = Chain[1].op
             /\ Chain'[1].op = "derive" => Chain'[1].var = Chain[1].var
  BY <1>1, <1>2, <1>3
<1>4. Len(stack') = 0 => Chain[1].op \notin Ground
  BY <1>1, <1>2
<1>5. Recalculating' <=> Recalculating
  BY <1>1, <1>2, <1>3, <1>4 DEF Recalculating, Ground, n
<1>6. Redefining' = Redefining
  BY <1>1, <1>2, <1>3, <1>4 DEF Redefining, Ground, n
<1>7. ASSUME NEW k \in 1..Len(stack'), Chain'[k].op \in Ground
      PROVE  k = 1
  BY <1>1, <1>2, <1>7 DEF Layout, n
<1>8. ASSUME NEW k \in 1..Len(stack')
      PROVE  /\ Chain'[k].op = "update" =>
                  /\ formula'[Chain'[k].var] # NoFormula
                  /\ Chain'[k].formula = formula'[Chain'[k].var]
                  /\ Chain'[k].var \in dirty'
             /\ Chain'[k].op = "recalc" => Chain'[k].todo \subseteq dirty'
  <2>1. \/ k \in 1..n - 1 /\ Chain'[k] = Chain[k]
        \/ k = n /\ Chain'[k] = x /\ Fits(x)
        \/ k = n + 1 /\ Chain'[k] = y /\ Fits(y)
    BY <1>1, <1>2
  <2>2. PICK fr : Chain'[k] = fr /\ Fits(fr)
    BY <1>1, <2>1 DEF FramesFit, n
  <2> QED  BY <2>2 DEF Fits, Derived
<1>9. FramesFit'
  BY <1>8 DEF FramesFit, Fits, Derived
<1> QED  BY <1>5, <1>6, <1>7, <1>9 DEF Layout

\* A call goes on as itself.
LEMMA LikeFits ==
  ASSUME NEW x, NEW fr, Like(x, fr), fr.op \in {"update", "derive", "call"}, Fits(fr)
  PROVE  Fits(x) /\ (x.op \in Ground \/ fr.op \in Ground => x.op = fr.op)
         /\ (x.op = "derive" => x.var = fr.var)
BY DEF Like, Fits

\* The recalculation itself, alone on the chain.
LEMMA StartRecalcMove ==
  ASSUME IInv, Layout, StartRecalc
  PROVE  /\ Len(stack) = 1 /\ Chain[1].op = "settle"
         /\ \/ dirty = {} /\ Len(stack') = 0
            \/ dirty # {} /\ Len(stack') = 1 /\ Chain'[1] = Recalc(dirty)
<1>1. stack # <<>> /\ top.op = "settle"
  BY DEF StartRecalc, Running
<1>2. Len(stack) = 1 /\ Chain[1] = top /\ rest = <<>>
  BY <1>1, Alone DEF Ground
<1>3. stack' = (IF dirty = {} THEN <<>> ELSE <<Recalc(dirty)>>) \o <<>>
  BY <1>2 DEF StartRecalc
<1>4. \/ dirty = {} /\ stack' = <<>>
      \/ dirty # {} /\ stack' = <<Recalc(dirty)>>
  BY <1>3
<1> QED  BY <1>1, <1>2, <1>4, ChainStarts

LEMMA UpdateNextMove ==
  ASSUME IInv, Layout, UpdateNext
  PROVE  /\ Len(stack) = 1 /\ Chain[1] = top /\ top.op = "recalc" /\ top \in RecalcFrame
         /\ \E v \in top.todo : \E x \in RecalcFrame :
              /\ v \in Vars /\ \A u \in top.todo : v \notin adj[u]
              /\ Chain'[1] = x /\ x.op = "recalc" /\ x.todo = top.todo \ {v}
              /\ x.order = Append(top.order, v)
              /\ \/ ~Derived(v) /\ Len(stack') = 1
                 \/ Derived(v) /\ Len(stack') = 2 /\ Chain'[2] = Update(v)
<1>1. stack # <<>> /\ top.op = "recalc" /\ top \in RecalcFrame
  BY TopFrame, FrameKinds DEF UpdateNext, Running
<1>2. Len(stack) = 1 /\ Chain[1] = top
  BY <1>1, Alone DEF Ground
<1>3. PICK v \in top.todo :
        /\ \A u \in top.todo : v \notin adj[u]
        /\ stack' = (IF Derived(v) THEN <<Update(v)>> ELSE <<>>)
                      \o <<[top EXCEPT !.todo = @ \ {v},
                                       !.order = Append(@, v)]>> \o rest
  BY DEF UpdateNext
<1> DEFINE x == [top EXCEPT !.todo = @ \ {v}, !.order = Append(@, v)]
<1>4. v \in Vars
  BY <1>1 DEF RecalcFrame
<1>5. /\ x \in RecalcFrame /\ x.op = "recalc" /\ x.todo = top.todo \ {v}
      /\ x.order = Append(top.order, v)
  <2>1. Append(top.order, v) \in Seq(Vars) /\ Append(top.order, v) # <<>>
    BY <1>1, <1>4, AppendProperties DEF RecalcFrame
  <2> QED  BY <1>1, <2>1 DEF RecalcFrame
<1>6. x \in Frame
  BY <1>5 DEF Frame
<1>7. CASE Derived(v)
  <2>1. Update(v) \in Frame
    BY <1>4, <1>7, EmptySeq DEF IInv, TypeOK, Derived, Update, UpdateFrame, Frame
  <2>2. stack' = <<Update(v), x>> \o rest
    BY <1>3, <1>7
  <2> HIDE DEF x
  <2>3. Called(x, Update(v))
    BY <1>1, <1>6, <2>1, <2>2, ChainMoves
  <2>4. Len(stack') = 2 /\ Chain'[1] = x /\ Chain'[2] = Update(v)
    BY <1>2, <2>3 DEF Called
  <2> QED  BY <1>1, <1>2, <1>3, <1>4, <1>5, <1>7, <2>4
<1>8. CASE ~Derived(v)
  <2>1. stack' = <<x>> \o rest
    BY <1>3, <1>8
  <2> HIDE DEF x
  <2>2. Became(x)
    BY <1>1, <1>6, <2>1, ChainMoves
  <2>3. Len(stack') = 1 /\ Chain'[1] = x
    BY <1>2, <2>2 DEF Became
  <2> QED  BY <1>1, <1>2, <1>3, <1>4, <1>5, <1>8, <2>3
<1> QED  BY <1>7, <1>8

LEMMA RecalculatedMove ==
  ASSUME IInv, Layout, Recalculated
  PROVE  /\ Len(stack) = 1 /\ Chain[1] = top /\ top.op = "recalc" /\ top \in RecalcFrame
         /\ top.todo = {} /\ dirty' = {} /\ Announce(top.order) \in NotifyFrame
         /\ Len(stack') = 2 /\ Chain'[1] = Settle /\ Chain'[2] = Announce(top.order)
<1>1. stack # <<>> /\ top.op = "recalc" /\ top \in RecalcFrame /\ top.todo = {}
  BY TopFrame, FrameKinds DEF Recalculated, Running
<1>2. Len(stack) = 1 /\ Chain[1] = top
  BY <1>1, Alone DEF Ground
<1>3. stack' = <<Announce(top.order), Settle>> \o rest /\ dirty' = {}
  BY DEF Recalculated, FollowUp
<1>4. Announce(top.order) \in Frame /\ Announce(top.order) \in NotifyFrame
  <2>1. top.order \in Seq(Vars) /\ top.order # <<>>
    BY <1>1 DEF RecalcFrame
  <2>2. Head(top.order) \in Vars
    BY <2>1, HeadTailProperties
  <2>3. /\ Announce(top.order) \in Frame
        /\ Announce(top.order).op = "notify"
    BY <2>1, <2>2, NotifyFrames DEF IInv
  <2> QED  BY <2>3, FrameKinds
<1>5. Settle \in Frame
  BY DEF Settle, SettleFrame, Frame
<1>6. Called(Settle, Announce(top.order))
  BY <1>1, <1>3, <1>4, <1>5, ChainMoves
<1>7. Len(stack') = 2 /\ Chain'[1] = Settle /\ Chain'[2] = Announce(top.order)
  BY <1>2, <1>6 DEF Called
<1> QED  BY <1>1, <1>2, <1>3, <1>4, <1>7

\* What the engine does above the outermost call.
InnerStep == \/ Refresh \/ Read \/ Unchanged \/ Changed
             \/ NotifyNext \/ CallSubscriber \/ Notified
             \/ Guard \/ Set \/ SetFails \/ Return

\* What it does in the outermost call.
OuterStep == DeriveFails \/ DeriveSucceeds \/ StartRecalc \/ UpdateNext \/ Recalculated

LEMMA InnerStepFits ==
  ASSUME IInv, Layout, FramesFit, InnerStep
  PROVE  /\ Layout' /\ FramesFit'
         /\ Redefining' = Redefining /\ (Recalculating' <=> Recalculating)
<1>1. stack # <<>> /\ UNCHANGED <<formula, adj, subs>> /\ dirty \subseteq dirty'
  BY DEF InnerStep, Refresh, Read, Unchanged, Changed, NotifyNext, CallSubscriber,
         Notified, Guard, Set, SetFails, Return, Reads, Evaluated, Running,
         graphVars, subVars, MarkDirty
<1>2. top \in Frame /\ Fits(top)
  BY <1>1, TopOfChain DEF FramesFit
<1> DEFINE Fit(x, y) ==
      \/ Returned /\ top.op \notin Ground
      \/ /\ Became(x) \/ (Called(x, y) /\ y.op \notin Ground /\ Fits(y))
         /\ Fits(x)
         /\ x.op \in Ground \/ top.op \in Ground => x.op = top.op
         /\ x.op = "derive" => x.var = top.var
<1>3. SUFFICES \E x, y : Fit(x, y)
  <2>1. ASSUME NEW x, NEW y, Fit(x, y)
        PROVE  /\ Layout' /\ FramesFit'
               /\ Redefining' = Redefining /\ (Recalculating' <=> Recalculating)
    BY <1>1, <2>1, MovesFit
  <2> QED  BY <2>1
<1>4. CASE Refresh
  <2>1. /\ Evaluates(top) /\ ToRead \in Vars /\ Outdated(ToRead)
        /\ \E x \in Frame : Called(x, Update(ToRead)) /\ Like(x, top)
    BY <1>4, RefreshMove
  <2>2. top.op \in {"update", "derive", "call"}
    BY <1>1, <2>1, Evaluating
  <2>3. Update(ToRead).op \notin Ground /\ Fits(Update(ToRead))
    BY <2>1 DEF Ground, Fits, Update, Outdated
  <2> QED  BY <1>2, <2>1, <2>2, <2>3, LikeFits
<1>5. CASE Read
  <2>1. Evaluates(top) /\ \E x \in Frame : Became(x) /\ Like(x, top)
    BY <1>5, ReadMove
  <2>2. top.op \in {"update", "derive", "call"}
    BY <1>1, <2>1, Evaluating
  <2> QED  BY <1>2, <2>1, <2>2, LikeFits
<1>6. CASE Unchanged \/ Notified \/ Return
  <2>1. top.op \notin Ground
    BY <1>6 DEF Unchanged, Notified, Return, Running, Ground
  <2> QED  BY <1>6, <2>1, ReturnMove
<1>7. CASE Changed
  <2>1. /\ top.op = "update" /\ Became(Emit(top.var))
        /\ Emit(top.var).op = "notify" /\ Emit(top.var).due = {}
    BY <1>7, ChangedMove
  <2> QED  BY <2>1 DEF Fits, Ground
<1>8. CASE NotifyNext
  <2>1. /\ top.op = "notify"
        /\ \E x \in NotifyFrame : Became(x) /\ x.op = "notify" /\ x.due = subs[x.about]
    BY <1>8, NotifyMove
  <2> QED  BY <2>1 DEF Fits, Ground
<1>9. CASE CallSubscriber
  <2>1. top.op = "notify" /\ top \in NotifyFrame
    BY <1>9, SubscriberMove
  <2>2. PICK fn \in top.due : \E x \in Frame :
          /\ Called(x, Call(fn, val[top.about]))
          /\ x.op = "notify" /\ x.about = top.about /\ x.due = top.due \ {fn}
    BY <1>9, SubscriberMove
  <2>3. PICK x \in Frame :
          /\ Called(x, Call(fn, val[top.about]))
          /\ x.op = "notify" /\ x.about = top.about /\ x.due = top.due \ {fn}
    BY <2>2
  <2>4. Call(fn, val[top.about]).op = "call"
    BY DEF Call
  <2> HIDE DEF Fit
  <2>5. Fits(x) /\ Fits(Call(fn, val[top.about]))
    BY <2>3, <2>4 DEF Fits
  <2>6. Fit(x, Call(fn, val[top.about]))
    BY <2>1, <2>3, <2>4, <2>5 DEF Fit, Ground
  <2> QED  BY <2>6
<1>10. CASE Guard \/ Set \/ SetFails
  <2>1. /\ top.op = "call"
        /\ Returned \/ (Became(NextStep) /\ Like(NextStep, top))
    BY <1>10, ActionMove
  <2> QED  BY <1>2, <2>1, LikeFits DEF Ground
<1> QED  BY <1>4, <1>5, <1>6, <1>7, <1>8, <1>9, <1>10 DEF InnerStep

\* The definition of v failed or succeeded, and nothing is left to do.
LEMMA DefinedMove ==
  ASSUME IInv, Layout, DeriveFails \/ DeriveSucceeds
  PROVE  /\ Len(stack) = 1 /\ Chain[1] = top /\ top \in DeriveFrame
         /\ top.op = "derive" /\ Redefining = {top.var}
         /\ Len(stack') = 0
<1>1. stack # <<>> /\ top.op = "derive" /\ top \in DeriveFrame
  BY TopFrame, FrameKinds DEF DeriveFails, DeriveSucceeds, Evaluated
<1>2. Len(stack) = 1 /\ Chain[1] = top
  BY <1>1, Alone DEF Ground
<1>3. Len(stack') = 0
  BY <1>2, ReturnMove DEF Returned
<1>4. Redefining = {top.var}
  BY <1>1, <1>2 DEF Redefining, DeriveFrame
<1> QED  BY <1>1, <1>2, <1>3, <1>4

LEMMA OuterStepFits ==
  ASSUME IInv, Layout, FramesFit, OuterStep
  PROVE  /\ Layout' /\ FramesFit' /\ Redefining' = {}
         /\ Recalculating' => StartRecalc \/ UpdateNext
<1>1. CASE DeriveFails \/ DeriveSucceeds
  <2>1. Len(stack') = 0
    BY <1>1, DefinedMove
  <2> QED  BY <2>1 DEF Layout, FramesFit, Redefining, Recalculating
<1>2. CASE StartRecalc
  <2>1. \/ Len(stack') = 0
        \/ Len(stack') = 1 /\ Chain'[1] = Recalc(dirty)
    BY <1>2, StartRecalcMove
  <2>2. CASE Len(stack') = 0
    BY <1>2, <2>2 DEF Layout, FramesFit, Redefining
  <2>3. CASE Len(stack') = 1 /\ Chain'[1] = Recalc(dirty)
    <3>1. \A k \in 1..Len(stack') :
            k = 1 /\ Chain'[k].op = "recalc" /\ Chain'[k].todo = dirty'
      BY <1>2, <2>3 DEF Recalc, StartRecalc
    <3>2. Layout' /\ Redefining' = {}
      BY <2>3, <3>1 DEF Layout, Redefining
    <3>3. FramesFit'
      BY <3>1 DEF FramesFit, Fits
    <3> QED  BY <1>2, <3>2, <3>3
  <2> QED  BY <2>1, <2>2, <2>3
<1>3. CASE UpdateNext
  <2>1. /\ Len(stack) = 1 /\ Chain[1] = top /\ top.op = "recalc" /\ top \in RecalcFrame
        /\ \E v \in top.todo : \E x \in RecalcFrame :
             /\ v \in Vars
             /\ Chain'[1] = x /\ x.op = "recalc" /\ x.todo = top.todo \ {v}
             /\ \/ ~Derived(v) /\ Len(stack') = 1
                \/ Derived(v) /\ Len(stack') = 2 /\ Chain'[2] = Update(v)
    BY <1>3, UpdateNextMove
  <2>2. PICK v \in top.todo, x \in RecalcFrame :
          /\ Chain'[1] = x /\ x.op = "recalc" /\ x.todo = top.todo \ {v}
          /\ \/ Len(stack') = 1
             \/ Derived(v) /\ Len(stack') = 2 /\ Chain'[2] = Update(v)
    BY <2>1
  <2>3. top.todo \subseteq dirty
    BY <2>1 DEF FramesFit, Fits
  <2>4. UNCHANGED <<formula, subs, dirty>>
    BY <1>3 DEF UpdateNext, graphVars, subVars
  <2>5. /\ Update(v).op = "update" /\ Update(v).var = v
        /\ Update(v).formula = formula[v]
    BY DEF Update
  <2>6. ASSUME NEW k \in 1..Len(stack')
        PROVE  \/ k = 1 /\ Chain'[k].op = "recalc" /\ Chain'[k].todo \subseteq dirty
               \/ /\ k = 2 /\ Chain'[k].op = "update"
                  /\ Derived(Chain'[k].var) /\ Chain'[k].var \in dirty
                  /\ Chain'[k].formula = formula[Chain'[k].var]
    <3>1. CASE k = 1
      BY <2>2, <2>3, <3>1
    <3>2. CASE k # 1
      <4>1. Len(stack') = 2 /\ Derived(v) /\ Chain'[2] = Update(v)
        <5>1. Len(stack') # 1
          <6> SUFFICES ASSUME Len(stack') = 1 PROVE FALSE
            OBVIOUS
          <6>1. k \in 1..1
            OBVIOUS
          <6> QED  BY <3>2, <6>1
        <5> QED  BY <2>2, <5>1
      <4>2. k = 2
        BY <3>2, <4>1
      <4> QED  BY <2>3, <2>5, <4>1, <4>2
    <3> QED  BY <3>1, <3>2
  <2>7. Layout' /\ Redefining' = {}
    BY <2>2, <2>6 DEF Layout, Redefining, Ground
  <2>8. FramesFit'
    BY <2>4, <2>6 DEF FramesFit, Fits, Derived
  <2> QED  BY <1>3, <2>7, <2>8
<1>4. CASE Recalculated
  <2>1. /\ Len(stack') = 2 /\ Chain'[1] = Settle
        /\ \E order : Chain'[2] = Announce(order)
    BY <1>4, RecalculatedMove
  <2>2. Chain'[1].op = "settle" /\ Chain'[2].op = "notify" /\ Chain'[2].due = {}
    BY <2>1 DEF Settle, Announce
  <2>3. \A k \in 1..Len(stack') : k = 1 \/ k = 2
    BY <2>1
  <2>4. Layout' /\ Redefining' = {} /\ ~Recalculating'
    BY <2>1, <2>2, <2>3 DEF Layout, Redefining, Ground, Recalculating
  <2>5. FramesFit'
    BY <2>2, <2>3 DEF FramesFit, Fits
  <2> QED  BY <2>4, <2>5
<1> QED  BY <1>1, <1>2, <1>3, <1>4 DEF OuterStep

\* Statements, events and the rest of what comes from outside: a definition
\* that begins is the only one that replaces something.
LEMMA ProgramFits ==
  ASSUME IInv, Program
  PROVE  /\ Layout' /\ FramesFit' /\ ~Recalculating'
         /\ stack = <<>> /\ Redefining = {}
         /\ ~Derive => Redefining' = {}
<1>1. stack = <<>> /\ Len(stack) = 0
  BY DEF Program, Assign, Derive, DeriveRefused, Invoke, Unbind, Subscribe,
         Unsubscribe, EndProgram, StartProgram, Event, Statement, AtRest
<1>2. \/ stack' = <<>>
      \/ stack' = <<Settle>>
      \/ \E h \in Handlers : \/ stack' = <<Call(h[1], h[2])>>
                             \/ stack' = <<Call(h[1], h[2]), Settle>>
      \/ Derive /\ \E d \in Derives : stack' = <<Derivation(d[1], d[2])>>
  BY <1>1 DEF Program, Assign, Derive, DeriveRefused, Invoke, Unbind, Subscribe,
         Unsubscribe, EndProgram, StartProgram, Event
<1>6. Redefining = {}
  BY <1>1 DEF Redefining
<1> SUFFICES /\ Layout' /\ FramesFit' /\ ~Recalculating'
             /\ ~Derive => Redefining' = {}
  BY <1>1, <1>6
<1>3. CASE stack' = <<>>
  <2>1. Len(stack') = 0
    BY <1>3
  <2> QED  BY <2>1 DEF Layout, FramesFit, Recalculating, Redefining
<1>4. CASE \/ stack' = <<Settle>>
           \/ \E h \in Handlers : stack' = <<Call(h[1], h[2])>>
           \/ Derive /\ \E d \in Derives : stack' = <<Derivation(d[1], d[2])>>
  <2>1. PICK x : /\ stack' = <<x>> /\ x.op \in {"settle", "call", "derive"}
                 /\ x.op = "derive" => Derive
    BY <1>4 DEF Settle, Call, Derivation
  <2>2. Len(stack') = 1 /\ Chain'[1] = x
    BY <2>1, ChainStarts
  <2>3. \A k \in 1..Len(stack') : k = 1
    BY <2>2
  <2>4. Layout' /\ ~Recalculating' /\ (~Derive => Redefining' = {})
    BY <2>1, <2>2, <2>3 DEF Layout, Recalculating, Redefining
  <2>5. FramesFit'
    <3>1. \A k \in 1..Len(stack') : Chain'[k].op \in {"settle", "call", "derive"}
      BY <2>1, <2>2, <2>3
    <3> QED  BY <2>4, <3>1 DEF FramesFit, Fits
  <2> QED  BY <2>4, <2>5
<1>5. CASE \E h \in Handlers : stack' = <<Call(h[1], h[2]), Settle>>
  <2>1. PICK y : stack' = <<y, Settle>> /\ y.op = "call"
    BY <1>5 DEF Call
  <2>2. /\ Len(stack') = 2 /\ Chain'[1].op = "settle" /\ Chain'[2] = y
    BY <2>1, ChainStarts DEF Settle
  <2>3. \A k \in 1..Len(stack') : k = 1 \/ k = 2
    BY <2>2
  <2>4. Layout' /\ ~Recalculating' /\ Redefining' = {}
    BY <2>1, <2>2, <2>3 DEF Layout, Recalculating, Redefining, Ground
  <2>5. FramesFit'
    <3>1. \A k \in 1..Len(stack') : Chain'[k].op \in {"settle", "call", "derive"}
      BY <2>1, <2>2, <2>3
    <3> QED  BY <2>4, <3>1 DEF FramesFit, Fits
  <2> QED  BY <2>4, <2>5
<1> QED  BY <1>2, <1>3, <1>4, <1>5

-----------------------------------------------------------------------------
(* The edges are complete as well as sound.                                *)

\* Except while its definition is replaced, a derived variable has an edge
\* from every name that its formula reads.
EdgesComplete ==
  \A v \in Vars : Derived(v) /\ v \notin Redefining =>
    \A u \in Range(Deps[formula[v]]) : v \in adj[u]

\* What a formula reads are variables.
LEMMA ReadsVars ==
  ASSUME NEW f \in Formulas
  PROVE  Range(Deps[f]) \subseteq Vars
<1>1. Deps[f] \in Seq(Vars)
  BY NamesAssumption
<1>2. \A i \in DOMAIN Deps[f] : Deps[f][i] \in Vars
  BY <1>1, ElementOfSeq
<1> QED  BY <1>2 DEF Range

\* What the invariants are about while no definition changes.
LEMMA SameGraph ==
  ASSUME IInv, Layout, FramesFit, [Next]_vars,
         ~Derive, ~DeriveFails, ~DeriveSucceeds, ~(\E v \in Unbinds : Unbind(v))
  PROVE  UNCHANGED <<formula, adj>> /\ Redefining' = Redefining
<1>1. CASE Program
  <2>1. Redefining = {} /\ Redefining' = {}
    BY <1>1, ProgramFits
  <2>2. UNCHANGED <<formula, adj>>
    BY <1>1 DEF Program, Assign, DeriveRefused, Invoke, Subscribe, Unsubscribe,
         EndProgram, StartProgram, Event, graphVars
  <2> QED  BY <2>1, <2>2
<1>2. CASE InnerStep
  <2>1. UNCHANGED <<formula, adj>>
    BY <1>2 DEF InnerStep, Refresh, Read, Unchanged, Changed, NotifyNext,
         CallSubscriber, Notified, Guard, Set, SetFails, Return, graphVars
  <2> QED  BY <1>2, <2>1, InnerStepFits
<1>3. CASE StartRecalc \/ UpdateNext \/ Recalculated
  <2>1. UNCHANGED <<formula, adj>>
    BY <1>3 DEF StartRecalc, UpdateNext, Recalculated, graphVars
  <2>2. Redefining' = {}
    BY <1>3, OuterStepFits DEF OuterStep
  <2>3. Chain[1].op # "derive"
    BY <1>3, StartRecalcMove, UpdateNextMove, RecalculatedMove
  <2> QED  BY <2>1, <2>2, <2>3 DEF Redefining
<1>4. CASE UNCHANGED vars
  BY <1>4 DEF vars, graphVars, Redefining, Chain
<1> QED  BY <1>1, <1>2, <1>3, <1>4 DEF Next, Engine, InnerStep

LEMMA CallsFit ==
  ASSUME IInv, Layout, FramesFit, [Next]_vars
  PROVE  Layout' /\ FramesFit'
<1>1. CASE UNCHANGED vars
  BY <1>1 DEF vars, graphVars, subVars, Layout, FramesFit, Fits, Chain, Derived,
              Recalculating
<1> QED
  BY <1>1, InnerStepFits, OuterStepFits, ProgramFits
    DEF Next, Engine, InnerStep, OuterStep

LEMMA NextEdges ==
  ASSUME IInv, Layout, FramesFit, EdgesComplete, [Next]_vars, ~RedefinitionFails
  PROVE  EdgesComplete'
<1>1. CASE Derive
  <2>1. PICK d \in Derives : /\ adj' = WithoutEdges(d[1])
                             /\ stack' = <<Derivation(d[1], d[2])>>
    BY <1>1 DEF Derive
  <2>2. d[1] \in Vars /\ Redefining = {} /\ formula' = formula
    BY <1>1, ProgramAssumption, ProgramFits DEF Derive, Program
  <2>3. d[1] \in Redefining'
    <3>1. Len(stack') = 1 /\ Chain'[1] = Derivation(d[1], d[2])
      BY <2>1, ChainStarts
    <3> QED  BY <2>2, <3>1 DEF Redefining, Derivation
  <2>4. ASSUME NEW v \in Vars, formula'[v] # NoFormula, v \notin Redefining',
               NEW u \in Range(Deps[formula'[v]])
        PROVE  v \in adj'[u]
    <3>1. v \in adj[u] /\ v # d[1]
      BY <2>2, <2>3, <2>4 DEF EdgesComplete, Derived
    <3>2. u \in Vars
      BY <2>2, <2>4, ReadsVars DEF IInv, TypeOK
    <3> QED  BY <2>1, <3>1, <3>2 DEF WithoutEdges
  <2> QED  BY <2>4 DEF EdgesComplete, Derived
<1>2. CASE \E v \in Unbinds : Unbind(v)
  <2>1. PICK w \in Unbinds : Unbind(w)
    BY <1>2
  <2>2. /\ adj' = WithoutEdges(w) /\ formula' = [formula EXCEPT ![w] = NoFormula]
        /\ Redefining = {}
    BY <2>1, ProgramFits DEF Program, Unbind
  <2>3. ASSUME NEW v \in Vars, formula'[v] # NoFormula,
               NEW u \in Range(Deps[formula'[v]])
        PROVE  v \in adj'[u]
    <3>1. v # w /\ formula'[v] = formula[v]
      BY <2>2, <2>3 DEF IInv, TypeOK
    <3>2. v \in adj[u] /\ u \in Vars
      BY <2>2, <2>3, <3>1, ReadsVars DEF EdgesComplete, Derived, IInv, TypeOK
    <3> QED  BY <2>2, <3>1, <3>2 DEF WithoutEdges
  <2> QED  BY <2>3 DEF EdgesComplete, Derived
<1>3. CASE DeriveFails
  <2>1. Redefining = {top.var} /\ UNCHANGED <<formula, adj>> /\ ~Derived(top.var)
    BY <1>3, DefinedMove DEF DeriveFails, RedefinitionFails, graphVars
  <2> QED  BY <2>1 DEF EdgesComplete, Derived
<1>4. CASE DeriveSucceeds
  <2> DEFINE w == top.var
             f == top.formula
  <2>1. /\ formula' = [formula EXCEPT ![w] = f] /\ adj' = WithEdges(w, f)
        /\ Redefining = {w} /\ w \in Vars /\ f \in Formulas
    BY <1>4, DefinedMove DEF DeriveSucceeds, DeriveFrame
  <2> HIDE DEF w, f
  <2>2. ASSUME NEW v \in Vars, formula'[v] # NoFormula,
               NEW u \in Range(Deps[formula'[v]])
        PROVE  v \in adj'[u]
    <3>1. CASE v = w
      <4>1. formula'[v] = f /\ u \in Vars
        BY <2>1, <2>2, <3>1, ReadsVars DEF IInv, TypeOK
      <4> QED  BY <2>1, <2>2, <3>1, <4>1 DEF WithEdges
    <3>2. CASE v # w
      <4>1. formula'[v] = formula[v]
        BY <2>1, <3>2 DEF IInv, TypeOK
      <4>2. v \in adj[u] /\ u \in Vars
        BY <2>1, <2>2, <3>2, <4>1, ReadsVars DEF EdgesComplete, Derived, IInv, TypeOK
      <4> QED  BY <2>1, <4>2 DEF WithEdges
    <3> QED  BY <3>1, <3>2
  <2> QED  BY <2>2 DEF EdgesComplete, Derived
<1>5. CASE /\ ~Derive /\ ~DeriveFails /\ ~DeriveSucceeds
           /\ ~(\E v \in Unbinds : Unbind(v))
  BY <1>5, SameGraph DEF EdgesComplete, Derived
<1> QED  BY <1>1, <1>2, <1>3, <1>4, <1>5

-----------------------------------------------------------------------------
(* A derived variable agrees with its formula, for values w and            *)
(* definitions g.                                                          *)

Value(w, f) == Apply(f, [i \in DOMAIN Deps[f] |-> w[Deps[f][i]]])

Agree(w, g, v) ==
  g[v] # NoFormula /\ Value(w, g[v]) \in Values => Shown(w[v]) = Shown(Value(w, g[v]))

\* Every derived variable agrees that is not marked, nor being redefined.
CleanAgree ==
  Acyclic => \A v \in Vars \ dirty : v \in Redefining \/ Agree(val, formula, v)

\* Agreement only depends on the variable and on what its formula reads.
LEMMA AgreeSame ==
  ASSUME NEW w, NEW x, NEW g, NEW h, NEW v \in Vars,
         g[v] \in Formulas \cup {NoFormula}, h[v] = g[v], x[v] = w[v],
         g[v] # NoFormula => \A u \in Range(Deps[g[v]]) : x[u] = w[u]
  PROVE  Agree(x, h, v) <=> Agree(w, g, v)
<1>1. CASE g[v] = NoFormula
  BY <1>1 DEF Agree
<1>2. CASE g[v] # NoFormula
  <2>1. \A i \in DOMAIN Deps[g[v]] : x[Deps[g[v]][i]] = w[Deps[g[v]][i]]
    BY <1>2 DEF Range
  <2>2. Value(x, g[v]) = Value(w, g[v])
    BY <2>1 DEF Value
  <2> QED  BY <2>2 DEF Agree
<1> QED  BY <1>1, <1>2

\* A write to p and new marks, closed along the edges of p.
LEMMA WriteAgrees ==
  ASSUME IInv, EdgesComplete, CleanAgree, Acyclic, NEW p \in Vars,
         \A v \in Vars : v # p => val'[v] = val[v] /\ formula'[v] = formula[v],
         dirty \subseteq dirty', p \in dirty', adj[p] \subseteq dirty',
         Redefining \subseteq Redefining' \cup {p}
  PROVE  CleanAgree'
<1> SUFFICES ASSUME NEW v \in Vars \ dirty', v \notin Redefining'
             PROVE  Agree(val', formula', v)
  BY DEF CleanAgree
<1>1. v # p /\ v \notin adj[p] /\ v \notin Redefining /\ v \notin dirty
  OBVIOUS
<1>2. Agree(val, formula, v) /\ formula[v] \in Formulas \cup {NoFormula}
  BY <1>1 DEF CleanAgree, IInv, TypeOK
<1>3. formula[v] # NoFormula => \A u \in Range(Deps[formula[v]]) : u \in Vars /\ u # p
  BY <1>1, <1>2, ReadsVars DEF EdgesComplete, Derived
<1> QED  BY <1>1, <1>2, <1>3, AgreeSame

\* Nothing is written, and what is unmarked was.
LEMMA NoWriteAgrees ==
  ASSUME CleanAgree, Acyclic' => Acyclic,
         UNCHANGED <<val, formula>>, dirty \subseteq dirty',
         Redefining \subseteq Redefining'
  PROVE  CleanAgree'
BY DEF CleanAgree, Agree

\* The marks of a write.
LEMMA Marked ==
  ASSUME IInv, Acyclic, NEW v \in Vars
  PROVE  /\ dirty \subseteq MarkDirty(v) /\ v \in MarkDirty(v)
         /\ adj[v] \subseteq MarkDirty(v)
BY MarkDirtyCloses DEF IInv, TypeOK, DirtyClosed, MarkDirty

LEMMA EngineRuns ==
  ASSUME IInv, Engine
  PROVE  stack # <<>> /\ Acyclic
<1>1. stack # <<>>
  BY DEF Engine, Refresh, Read, Unchanged, Changed, DeriveFails,
       DeriveSucceeds, NotifyNext, CallSubscriber, Notified, Guard, Set,
       SetFails, Return, StartRecalc, UpdateNext, Recalculated, Reads,
       Evaluated, Running
<1> QED  BY <1>1 DEF IInv, CyclicStops, Acyclic

\* Every step but the end of a recalculation, which needs to know what the
\* recalculation has done (NextRecalc, below).
LEMMA NextAgree ==
  ASSUME IInv, Layout, FramesFit, EdgesComplete, CleanAgree, [Next]_vars,
         ~RedefinitionFails, ~Recalculated
  PROVE  CleanAgree'
<1>1. CASE Assign
  <2>1. PICK write \in Writes : /\ val' = [val EXCEPT ![write[1]] = write[2]]
                                /\ dirty' = MarkDirty(write[1])
    BY <1>1 DEF Assign
  <2>2. write[1] \in Vars /\ Acyclic /\ Redefining = {} /\ formula' = formula
    BY <1>1, <2>1, ProgramAssumption, ProgramFits
      DEF Program, Assign, Statement, Acyclic, graphVars
  <2> QED  BY <2>1, <2>2, Marked, WriteAgrees DEF IInv, TypeOK
<1>2. CASE Set
  <2>1. /\ val' = [val EXCEPT ![Step.var] = Result] /\ dirty' = MarkDirty(Step.var)
        /\ formula' = formula /\ Redefining' = Redefining
    BY <1>2, InnerStepFits DEF Set, graphVars, InnerStep
  <2>2. Step.var \in Vars /\ Acyclic
    BY <1>2, StepType, EngineRuns DEF Engine, Set, Evaluated, Evaluates
  <2> QED  BY <2>1, <2>2, Marked, WriteAgrees DEF IInv, TypeOK
<1>3. CASE Changed
  <2>1. stack # <<>> /\ Acyclic /\ top \in UpdateFrame /\ top.op = "update"
    BY <1>3, EngineRuns, ChangedMove DEF Engine
  <2>2. top.var \in Vars /\ top.var \in dirty
    BY <2>1, TopOfChain DEF FramesFit, Fits, UpdateFrame
  <2>3. /\ val' = [val EXCEPT ![top.var] = Result] /\ dirty' = dirty
        /\ formula' = formula /\ Redefining' = Redefining
    BY <1>3, InnerStepFits DEF Changed, graphVars, InnerStep
  <2> QED  BY <2>1, <2>2, <2>3, WriteAgrees DEF IInv, TypeOK, DirtyClosed
<1>4. CASE DeriveSucceeds
  <2>1. CASE mode' = "cyclic"
    BY <2>1 DEF CleanAgree, Acyclic
  <2>2. CASE mode' # "cyclic"
    <3>1. /\ Redefining = {top.var} /\ top.var \in Vars /\ Acyclic
          /\ val' = [val EXCEPT ![top.var] = Result]
          /\ formula' = [formula EXCEPT ![top.var] = top.formula]
          /\ dirty' = MarkDirty(top.var)
      BY <1>4, <2>2, DefinedMove, EngineRuns DEF Engine, DeriveSucceeds, DeriveFrame
    <3> QED  BY <3>1, Marked, WriteAgrees DEF IInv, TypeOK
  <2> QED  BY <2>1, <2>2
<1>5. CASE DeriveFails
  <2>1. /\ Redefining = {top.var} /\ ~Derived(top.var)
        /\ UNCHANGED <<val, formula, dirty, mode>>
    BY <1>5, DefinedMove DEF DeriveFails, RedefinitionFails, graphVars
  <2> QED  BY <2>1 DEF CleanAgree, Agree, Derived, Acyclic
<1>6. CASE Derive
  <2>1. Redefining = {} /\ UNCHANGED <<val, formula, dirty, mode>>
    BY <1>6, ProgramFits DEF Program, Derive
  <2> QED  BY <2>1, NoWriteAgrees DEF Acyclic
<1>7. CASE \E v \in Unbinds : Unbind(v)
  <2>1. PICK w \in Unbinds : Unbind(w)
    BY <1>7
  <2>2. /\ formula' = [formula EXCEPT ![w] = NoFormula] /\ w \in Vars
        /\ dirty' = IF Derived(w) THEN dirty \ {w} ELSE dirty
        /\ UNCHANGED <<val, mode>> /\ Redefining = {}
    BY <1>7, <2>1, ProgramAssumption, ProgramFits DEF Program, Unbind
  <2>3. formula'[w] = NoFormula /\ \A v \in Vars : v # w => formula'[v] = formula[v]
    BY <2>2 DEF IInv, TypeOK
  <2>4. \A v \in Vars \ dirty' : v = w \/ v \notin dirty
    BY <2>2
  <2> QED  BY <2>2, <2>3, <2>4 DEF CleanAgree, Agree, Acyclic
<1>8. CASE /\ ~Assign /\ ~Set /\ ~Changed /\ ~DeriveSucceeds /\ ~DeriveFails
           /\ ~Derive /\ ~(\E v \in Unbinds : Unbind(v))
  <2>1. UNCHANGED <<val, dirty>> /\ (Acyclic' => Acyclic)
    BY <1>8 DEF Next, Program, Engine, DeriveRefused, Invoke, Subscribe,
         Unsubscribe, EndProgram, StartProgram, Event, Refresh, Read, Unchanged,
         NotifyNext, CallSubscriber, Notified, Guard, SetFails, Return,
         StartRecalc, UpdateNext, Acyclic, vars, Statement
  <2> QED  BY <1>8, <2>1, SameGraph, NoWriteAgrees
<1> QED  BY <1>1, <1>2, <1>3, <1>4, <1>5, <1>6, <1>7, <1>8

-----------------------------------------------------------------------------
(* What a recalculation has done.                                          *)

\* The variables it does not come to any more.
Done == Vars \ Chain[1].todo

\* It is recomputing the variable of the call above it.
Updating == Len(stack) > 1 /\ Chain[2].op = "update"

\* What an evaluation has read are the values as they are.
ArgsAgree(w, fr) ==
  /\ Len(fr.args) <= Len(Deps[fr.formula])
  /\ \A j \in 1..Len(fr.args) : fr.args[j] = w[Deps[fr.formula][j]]

\* What is done depends on nothing that is not, agrees with its formula but
\* for the variable that is recomputed, and is not written by what runs
\* inside: what that refreshes is done as well, and what else runs recomputes
\* variables that nothing done depends on.
RecalcInv ==
  Recalculating =>
    /\ \A v \in Done : \A u \in Chain[1].todo : v \notin adj[u]
    /\ \A k \in 2..Len(stack) :
         Chain[k].op = "update" /\ Chain[k].var \in Done => ArgsAgree(val, Chain[k])
    /\ \A v \in Done : Agree(val, formula, v) \/ (Updating /\ v = Chain[2].var)
    /\ Updating =>
         /\ Chain[2].var \in Done
         /\ \A v \in Done : v \notin adj[Chain[2].var]
         /\ \A k \in 3..Len(stack) :
              Chain[k].op = "update" /\ Chain[k].var \in Done \ {Chain[2].var}

\* The innermost of several calls.
LEMMA Position ==
  ASSUME IInv, Layout, FramesFit, RecalcInv, Recalculating, stack # <<>>,
         top.op \notin Ground
  PROVE  /\ Len(stack) \in Nat /\ Len(stack) > 1 /\ Chain[Len(stack)] = top
         /\ Fits(top) /\ top \in Frame /\ Redefining = {}
         /\ Updating =>
              /\ top.op = "update" /\ top.var \in Done
              /\ IF Len(stack) = 2 THEN top.var = Chain[2].var
                                   ELSE top.var # Chain[2].var
         /\ ~Updating /\ top.op = "update" => Len(stack) > 2
         /\ top.op = "update" /\ top.var \in Done => ArgsAgree(val, top)
<1> DEFINE n == Len(stack)
<1>1. /\ n \in Nat /\ n > 1 /\ Chain[n] = top /\ top \in Frame /\ n \in 1..n
  BY TopOfChain, Inner
<1>2. Fits(top)
  BY <1>1 DEF FramesFit
<1>3. Redefining = {}
  BY DEF Redefining, Recalculating
<1>4. Updating => Chain[2].op = "update" /\ Chain[2].var \in Done
  BY DEF RecalcInv, Updating
<1>5. ~Updating => Chain[2].op # "update"
  BY <1>1 DEF Updating
<1>6. /\ Updating => \A k \in 3..n :
              Chain[k].op = "update" /\ Chain[k].var \in Done \ {Chain[2].var}
      /\ \A k \in 2..n :
           Chain[k].op = "update" /\ Chain[k].var \in Done => ArgsAgree(val, Chain[k])
  BY DEF RecalcInv
<1> HIDE DEF n
<1>7. n \in 2..n /\ (n = 2 \/ n \in 3..n)
  BY <1>1
<1>8. n > 2 \/ n = 2
  BY <1>1
<1>9. Updating =>
        /\ top.op = "update" /\ top.var \in Done
        /\ IF n = 2 THEN top.var = Chain[2].var ELSE top.var # Chain[2].var
  BY <1>1, <1>4, <1>6, <1>7
<1>10. ~Updating /\ top.op = "update" => n > 2
  BY <1>1, <1>5, <1>8
<1>11. top.op = "update" /\ top.var \in Done => ArgsAgree(val, top)
  BY <1>1, <1>6, <1>7
<1> QED  BY <1>1, <1>2, <1>3, <1>9, <1>10, <1>11 DEF n

\* A step inside a recalculation that keeps what is done as it is.
LEMMA RecalcMoves ==
  ASSUME IInv, Layout, FramesFit, RecalcInv, Recalculating, stack # <<>>,
         top.op \notin Ground, UNCHANGED <<adj, formula>>,
         \A v \in Done : Agree(val, formula, v) => Agree(val', formula, v),
         \A k \in 2..Len(stack) - 1 :
           Chain[k].op = "update" /\ Chain[k].var \in Done => ArgsAgree(val', Chain[k]),
         NEW x, NEW y,
         \/ Returned /\ (Updating => Len(stack) > 2)
         \/ /\ Became(x) \/ Called(x, y)
            /\ x.op = "update" /\ x.var \in Done => ArgsAgree(val', x)
            /\ x.op = "update" => top.op = "update"
            /\ Updating => x.op = "update" /\ x.var = top.var,
         Called(x, y) =>
           /\ y.op = "update" /\ y.var \in Done => ArgsAgree(val', y)
           /\ Updating => y.op = "update" /\ y.var \in Done \ {Chain[2].var}
  PROVE  RecalcInv'
<1> DEFINE n == Len(stack)
<1>1. /\ n \in Nat /\ n > 1 /\ Chain[n] = top
      /\ ~Updating /\ top.op = "update" => n > 2
      /\ Updating => /\ top.op = "update" /\ top.var \in Done
                     /\ IF n = 2 THEN top.var = Chain[2].var
                                 ELSE top.var # Chain[2].var
  BY Position
<1>2. /\ \A k \in 1..n - 1 : Chain'[k] = Chain[k]
      /\ \/ Len(stack') = n - 1 /\ (Updating => n > 2)
         \/ Len(stack') = n /\ Chain'[n] = x
         \/ Len(stack') = n + 1 /\ Chain'[n] = x /\ Chain'[n + 1] = y
  BY DEF Returned, Became, Called, Below
<1>3. Len(stack') # n - 1 =>
        /\ x.op = "update" /\ x.var \in Done => ArgsAgree(val', x)
        /\ x.op = "update" => top.op = "update"
        /\ Updating => x.op = "update" /\ x.var = top.var
  BY <1>1 DEF Returned
<1>4. Len(stack') = n + 1 =>
        /\ y.op = "update" /\ y.var \in Done => ArgsAgree(val', y)
        /\ Updating => y.op = "update" /\ y.var \in Done \ {Chain[2].var}
  BY <1>1 DEF Returned, Became
<1>5. /\ \A k \in 2..n - 1 :
           Chain[k].op = "update" /\ Chain[k].var \in Done => ArgsAgree(val', Chain[k])
      /\ Updating <=> Chain[2].op = "update"
      /\ Updating' <=> Len(stack') > 1 /\ Chain'[2].op = "update"
  BY <1>1 DEF Updating
<1>6. /\ \A v \in Done : \A u \in Chain[1].todo : v \notin adj[u]
      /\ \A v \in Done : Agree(val, formula, v) \/ (Updating /\ v = Chain[2].var)
      /\ Updating =>
           /\ Chain[2].var \in Done
           /\ \A v \in Done : v \notin adj[Chain[2].var]
           /\ \A k \in 3..n :
                Chain[k].op = "update" /\ Chain[k].var \in Done \ {Chain[2].var}
  BY DEF RecalcInv
<1> HIDE DEF n
<1>7. Chain'[1] = Chain[1] /\ Done' = Done
  BY <1>1, <1>2 DEF Done
<1>8. /\ Updating' <=> Updating
      /\ Updating => Chain'[2].var = Chain[2].var
  <2>1. CASE n > 2
    <3>1. 2 \in 1..n - 1 /\ Len(stack') > 1
      BY <1>1, <1>2, <2>1
    <3> QED  BY <1>2, <1>5, <3>1
  <2>2. CASE n = 2
    <3>1. Chain[2] = top
      BY <1>1, <2>2
    <3>2. CASE Updating
      <4>1. (Len(stack') = n \/ Len(stack') = n + 1) /\ Chain'[n] = x
        <5>1. ~(n > 2)
          BY <2>2
        <5>2. ~(Len(stack') = n - 1 /\ (Updating => n > 2))
          BY <3>2, <5>1
        <5> QED  BY <1>2, <5>2
      <4>2. Chain'[2] = x /\ Len(stack') > 1 /\ Len(stack') # n - 1
        <5>1. CASE Len(stack') = n
          BY <2>2, <4>1, <5>1
        <5>2. CASE Len(stack') = n + 1
          BY <2>2, <4>1, <5>2
        <5> QED  BY <4>1, <5>1, <5>2
      <4>3. x.op = "update" /\ x.var = Chain[2].var
        BY <1>3, <3>1, <3>2, <4>2
      <4> QED  BY <1>5, <3>2, <4>2, <4>3
    <3>3. CASE ~Updating
      <4>1. Len(stack') # n - 1 => Chain'[2] = x /\ x.op # "update"
        BY <1>1, <1>2, <1>3, <2>2, <3>3
      <4>2. Len(stack') = n - 1 => ~(Len(stack') > 1)
        BY <2>2
      <4> QED  BY <1>5, <3>3, <4>1, <4>2
    <3> QED  BY <3>2, <3>3
  <2> QED  BY <1>1, <2>1, <2>2
<1>9. ASSUME NEW k \in 2..Len(stack'), Chain'[k].op = "update", Chain'[k].var \in Done
      PROVE  ArgsAgree(val', Chain'[k])
  <2>1. \/ k \in 2..n - 1 /\ Chain'[k] = Chain[k]
        \/ k = n /\ Chain'[k] = x /\ Len(stack') # n - 1
        \/ k = n + 1 /\ Chain'[k] = y /\ Len(stack') = n + 1
    BY <1>1, <1>2
  <2> QED  BY <1>3, <1>4, <1>5, <1>9, <2>1
<1>10. ASSUME Updating, NEW k \in 3..Len(stack')
       PROVE  Chain'[k].op = "update" /\ Chain'[k].var \in Done \ {Chain[2].var}
  <2>1. \/ k \in 3..n /\ Chain'[k] = Chain[k]
        \/ k = n /\ n # 2 /\ Chain'[k] = x /\ Len(stack') # n - 1
        \/ k = n + 1 /\ Chain'[k] = y /\ Len(stack') = n + 1
    BY <1>1, <1>2
  <2> QED  BY <1>1, <1>3, <1>4, <1>6, <1>10, <2>1
<1>11. \A v \in Done : Agree(val', formula, v) \/ (Updating /\ v = Chain[2].var)
  BY <1>6
<1> HIDE DEF Updating
<1>12. /\ \A v \in Done' : \A u \in Chain'[1].todo : v \notin adj'[u]
       /\ \A k \in 2..Len(stack') :
            Chain'[k].op = "update" /\ Chain'[k].var \in Done' => ArgsAgree(val', Chain'[k])
       /\ \A v \in Done' : Agree(val', formula', v) \/ (Updating' /\ v = Chain'[2].var)
  BY <1>6, <1>7, <1>8, <1>9, <1>11
<1>13. Updating' =>
         /\ Chain'[2].var \in Done'
         /\ \A v \in Done' : v \notin adj'[Chain'[2].var]
         /\ \A k \in 3..Len(stack') :
              Chain'[k].op = "update" /\ Chain'[k].var \in Done' \ {Chain'[2].var}
  BY <1>6, <1>7, <1>8, <1>10
<1> QED  BY <1>12, <1>13 DEF RecalcInv

\* The evaluation of an update gives what the formula says now, if what it
\* has read are the values as they are.
LEMMA UpdateValue ==
  ASSUME IInv, stack # <<>>, Evaluated, top.op = "update", Fits(top),
         ArgsAgree(val, top)
  PROVE  Result = Value(val, formula[top.var])
<1>1. FormulaOf(top) = formula[top.var] /\ top.formula = formula[top.var]
  BY DEF FormulaOf, Fits
<1>2. /\ Deps[formula[top.var]] \in Seq(Vars) /\ top.args \in Seq(Values)
      /\ Len(top.args) = Len(Deps[formula[top.var]])
  BY <1>1, Evaluating DEF Evaluated
<1>3. \A j \in 1..Len(top.args) : top.args[j] = val[Deps[formula[top.var]][j]]
  BY <1>1 DEF ArgsAgree
<1>4. top.args = [i \in DOMAIN Deps[formula[top.var]] |->
                    val[Deps[formula[top.var]][i]]]
  BY <1>2, <1>3
<1>5. Result = Apply(formula[top.var], top.args)
  BY <1>1 DEF Result
<1> QED  BY <1>4, <1>5 DEF Value

\* A variable that a formula in force reads has an edge to it.
LEMMA ReadEdge ==
  ASSUME IInv, EdgesComplete, Redefining = {}, NEW v \in Vars, Derived(v),
         NEW u \in Range(Deps[formula[v]])
  PROVE  u \in Vars /\ v \in adj[u]
BY ReadsVars DEF EdgesComplete, Derived, IInv, TypeOK

\* Writing p, which v neither is nor reads, keeps agreement and readings.
LEMMA WriteApart ==
  ASSUME IInv, EdgesComplete, Redefining = {}, NEW p \in Vars,
         \A v \in Vars : v # p => val'[v] = val[v],
         NEW v \in Vars, v # p \/ formula[v] = NoFormula,
         Derived(v) => p \notin Range(Deps[formula[v]])
  PROVE  /\ Agree(val, formula, v) => Agree(val', formula, v)
         /\ \A fr \in Frame : fr.op = "update" /\ fr.var = v /\ Fits(fr) /\ ArgsAgree(val, fr)
                => ArgsAgree(val', fr)
<1>1. Agree(val, formula, v) => Agree(val', formula, v)
  <2>1. CASE formula[v] = NoFormula
    BY <2>1 DEF Agree
  <2>2. CASE formula[v] # NoFormula
    <3>1. \A u \in Range(Deps[formula[v]]) : val'[u] = val[u]
      BY <2>2, ReadEdge DEF Derived
    <3> QED  BY <2>2, <3>1, AgreeSame DEF IInv, TypeOK
  <2> QED  BY <2>1, <2>2
<1>2. ASSUME NEW fr \in Frame, fr.op = "update", fr.var = v, Fits(fr),
             ArgsAgree(val, fr)
      PROVE  ArgsAgree(val', fr)
  <2>1. fr.formula = formula[v] /\ Derived(v) /\ formula[v] \in Formulas
    BY <1>2 DEF Fits, Derived, IInv, TypeOK
  <2>2. \A u \in Range(Deps[formula[v]]) : val'[u] = val[u]
    BY <2>1, ReadEdge
  <2>3. Deps[formula[v]] \in Seq(Vars) /\ fr.args \in Seq(Values)
    BY <1>2, <2>1, FrameKinds, NamesAssumption DEF UpdateFrame
  <2>4. \A j \in 1..Len(fr.args) : Deps[formula[v]][j] \in Range(Deps[formula[v]])
    <3>1. 1..Len(fr.args) \subseteq DOMAIN Deps[formula[v]]
      BY <1>2, <2>1, <2>3 DEF ArgsAgree
    <3> QED  BY <3>1 DEF Range
  <2> QED  BY <1>2, <2>1, <2>2, <2>4 DEF ArgsAgree
<1> QED  BY <1>1, <1>2

\* Inside a recalculation, older calls are calls.
LEMMA OlderFrames ==
  ASSUME IInv, FramesFit, NEW k \in 2..Len(stack) - 1
  PROVE  k \in 2..Len(stack) /\ Chain[k] \in Frame /\ Fits(Chain[k])
<1>1. Len(stack) \in Nat
  BY DEF IInv, Shape
<1>2. k \in 1..Len(stack) /\ k \in 2..Len(stack)
  BY <1>1
<1> QED  BY <1>2, ChainFrames DEF FramesFit

LEMMA RefreshRecalc ==
  ASSUME IInv, Layout, FramesFit, EdgesComplete, RecalcInv, Recalculating,
         stack # <<>>, top.op \notin Ground, Refresh
  PROVE  RecalcInv'
<1>1. /\ Evaluates(top) /\ ToRead \in Vars
      /\ \E x \in Frame : /\ Called(x, Update(ToRead))
                          /\ Like(x, top) /\ x.args = top.args
  BY RefreshMove
<1>2. PICK x \in Frame : /\ Called(x, Update(ToRead))
                         /\ Like(x, top) /\ x.args = top.args
  BY <1>1
<1>3. /\ top \in Frame /\ Fits(top) /\ Redefining = {}
      /\ Updating => top.op = "update" /\ top.var \in Done
                     /\ (top.var = Chain[2].var \/ Chain[2].var # top.var)
      /\ top.op = "update" /\ top.var \in Done => ArgsAgree(val, top)
  BY Position
<1>4. /\ x.op = top.op
      /\ top.op = "update" => x.var = top.var /\ x.formula = top.formula
  BY <1>2 DEF Like
<1>5. x.op = "update" /\ x.var \in Done => ArgsAgree(val', x)
  BY <1>2, <1>3, <1>4 DEF ArgsAgree, Refresh
<1>6. Update(ToRead).op = "update" /\ Update(ToRead).var = ToRead
  BY DEF Update
<1>7. ArgsAgree(val', Update(ToRead))
  <2>1. Update(ToRead).args = <<>> /\ Update(ToRead).formula = formula[ToRead]
    BY DEF Update
  <2>2. Deps[formula[ToRead]] \in Seq(Vars)
    <3>1. formula[ToRead] \in Formulas
      BY <1>1 DEF Refresh, Outdated, Derived, IInv, TypeOK
    <3> QED  BY <3>1, NamesAssumption
  <2> QED  BY <2>1, <2>2 DEF ArgsAgree
<1>8. Updating => ToRead \in Done \ {Chain[2].var}
  <2> SUFFICES ASSUME Updating
               PROVE  ToRead \in Done \ {Chain[2].var}
    OBVIOUS
  <2>1. top.op = "update" /\ top.var \in Done /\ top.var \in Vars
    BY <1>3 DEF Done
  <2>2. /\ Derived(top.var) /\ Deps[formula[top.var]] \in Seq(Vars)
        /\ ToRead = Deps[formula[top.var]][Len(top.args) + 1]
        /\ Len(top.args) + 1 \in DOMAIN Deps[formula[top.var]]
    <3>1. FormulaOf(top) = formula[top.var] /\ Derived(top.var)
      BY <1>3, <2>1 DEF Fits, FormulaOf
    <3>2. Deps[formula[top.var]] \in Seq(Vars) /\ top.args \in Seq(Values)
      BY <1>1, <3>1, Evaluating
    <3>3. Len(top.args) < Len(Deps[formula[top.var]])
      BY <3>1 DEF Refresh, Reads
    <3> QED  BY <3>1, <3>2, <3>3 DEF ToRead
  <2>3. top.var \in adj[ToRead]
    BY <1>3, <2>1, <2>2, ReadEdge DEF Range
  <2> QED  BY <1>1, <2>1, <2>3 DEF RecalcInv, Done
<1>9. val' = val /\ UNCHANGED <<adj, formula>>
  BY DEF Refresh, graphVars
<1>10. \A k \in 2..Len(stack) - 1 :
         Chain[k].op = "update" /\ Chain[k].var \in Done => ArgsAgree(val', Chain[k])
  BY <1>9, OlderFrames DEF RecalcInv
<1> HIDE DEF Updating
<1> QED  BY <1>2, <1>3, <1>4, <1>5, <1>6, <1>7, <1>8, <1>9, <1>10, RecalcMoves

LEMMA ReadRecalc ==
  ASSUME IInv, Layout, FramesFit, EdgesComplete, RecalcInv, Recalculating,
         stack # <<>>, top.op \notin Ground, Read
  PROVE  RecalcInv'
<1>1. /\ Evaluates(top)
      /\ \E x \in Frame : /\ Became(x)
                          /\ Like(x, top) /\ x.args = Append(top.args, val[ToRead])
  BY ReadMove
<1>2. PICK x \in Frame : /\ Became(x)
                         /\ Like(x, top) /\ x.args = Append(top.args, val[ToRead])
  BY <1>1
<1>3. /\ top \in Frame /\ Fits(top)
      /\ Updating => top.op = "update" /\ top.var \in Done
      /\ top.op = "update" /\ top.var \in Done => ArgsAgree(val, top)
  BY Position
<1>4. /\ x.op = top.op
      /\ top.op = "update" => x.var = top.var /\ x.formula = top.formula
  BY <1>2 DEF Like
<1>5. val' = val /\ UNCHANGED <<adj, formula>>
  BY DEF Read, graphVars
<1>6. ASSUME x.op = "update", x.var \in Done
      PROVE  ArgsAgree(val', x)
  <2>1. /\ FormulaOf(top) = x.formula /\ top.formula = x.formula
        /\ ArgsAgree(val, top)
    BY <1>3, <1>4, <1>6 DEF FormulaOf
  <2>2. /\ top.args \in Seq(Values) /\ Len(top.args) < Len(Deps[x.formula])
        /\ Deps[x.formula] \in Seq(Vars)
    BY <1>1, <2>1, Evaluating DEF Read, Reads
  <2>3. /\ Len(x.args) = Len(top.args) + 1
        /\ \A j \in 1..Len(top.args) : x.args[j] = top.args[j]
        /\ x.args[Len(top.args) + 1] = val[Deps[x.formula][Len(top.args) + 1]]
    BY <1>2, <2>1, <2>2 DEF ToRead
  <2>4. \A j \in 1..Len(top.args) : top.args[j] = val[Deps[x.formula][j]]
    BY <2>1 DEF ArgsAgree
  <2>5. ASSUME NEW j \in 1..Len(x.args)
        PROVE  x.args[j] = val[Deps[x.formula][j]]
    <3>1. j \in 1..Len(top.args) \/ j = Len(top.args) + 1
      BY <2>2, <2>3
    <3> QED  BY <2>3, <2>4, <3>1
  <2> QED  BY <1>5, <2>2, <2>3, <2>5 DEF ArgsAgree
<1>7. \A k \in 2..Len(stack) - 1 :
        Chain[k].op = "update" /\ Chain[k].var \in Done => ArgsAgree(val', Chain[k])
  BY <1>5, OlderFrames DEF RecalcInv
<1>8. Len(stack) \in Nat /\ ~Called(x, x)
  BY <1>2, Position DEF Became, Called
<1> QED  BY <1>2, <1>3, <1>4, <1>5, <1>6, <1>7, <1>8, RecalcMoves

\* Steps that write nothing and go on with no update.
LEMMA OtherRecalc ==
  ASSUME IInv, Layout, FramesFit, EdgesComplete, RecalcInv, Recalculating,
         stack # <<>>, top.op \notin Ground,
         NotifyNext \/ CallSubscriber \/ Notified \/ Guard \/ SetFails \/ Return
  PROVE  RecalcInv'
<1>1. /\ val' = val /\ UNCHANGED <<adj, formula>>
      /\ top.op # "update"
  BY DEF NotifyNext, CallSubscriber, Notified, Guard, SetFails, Return,
         Running, graphVars
<1>2. ~Updating
  BY <1>1, Position
<1>3. \A k \in 2..Len(stack) - 1 :
        Chain[k].op = "update" /\ Chain[k].var \in Done => ArgsAgree(val', Chain[k])
  BY <1>1, OlderFrames DEF RecalcInv
<1>4. \E x, y : /\ Returned \/ Became(x) \/ Called(x, y)
                /\ x.op # "update" /\ y.op # "update"
  <2>1. CASE NotifyNext
    <3>1. \E x : Became(x) /\ x.op = "notify"
      BY <2>1, NotifyMove
    <3> QED  BY <3>1
  <2>2. CASE CallSubscriber
    <3>1. \E fn \in top.due : \E x \in Frame :
            Called(x, Call(fn, val[top.about])) /\ x.op = "notify"
      BY <2>2, SubscriberMove
    <3>2. \A fn, w : Call(fn, w).op = "call"
      BY DEF Call
    <3> QED  BY <3>1, <3>2
  <2>3. CASE Notified \/ Return
    <3>1. Returned /\ Settle.op = "settle"
      BY <2>3, ReturnMove DEF Settle
    <3> QED  BY <3>1
  <2>4. CASE Guard \/ SetFails
    <3>1. Returned \/ (Became(NextStep) /\ NextStep.op = "call")
      BY <2>4, ActionMove DEF Like
    <3>2. Settle.op = "settle"
      BY DEF Settle
    <3> QED  BY <3>1, <3>2
  <2> QED  BY <2>1, <2>2, <2>3, <2>4
<1>5. PICK x, y : /\ Returned \/ Became(x) \/ Called(x, y)
                  /\ x.op # "update" /\ y.op # "update"
  BY <1>4
<1> QED  BY <1>1, <1>2, <1>3, <1>5, RecalcMoves

LEMMA UnchangedRecalc ==
  ASSUME IInv, Layout, FramesFit, EdgesComplete, RecalcInv, Recalculating,
         stack # <<>>, top.op \notin Ground, Unchanged
  PROVE  RecalcInv'
<1>1. /\ val' = val /\ UNCHANGED <<adj, formula>> /\ top.op = "update" /\ Returned
  BY ReturnMove DEF Unchanged, graphVars
<1>2. CASE Updating => Len(stack) > 2
  <2>1. \A k \in 2..Len(stack) - 1 :
          Chain[k].op = "update" /\ Chain[k].var \in Done => ArgsAgree(val', Chain[k])
    BY <1>1, OlderFrames DEF RecalcInv
  <2>2. /\ Len(stack) \in Nat
        /\ \A x, y : ~Became(x) /\ ~Called(x, y)
    BY <1>1, Position DEF Returned, Became, Called
  <2> QED  BY <1>1, <1>2, <2>1, <2>2, RecalcMoves
<1>3. CASE Updating /\ ~(Len(stack) > 2)
  <2>1. /\ Len(stack) = 2 /\ top.var \in Done /\ top.var = Chain[2].var
        /\ ArgsAgree(val, top) /\ Fits(top)
    <3> DEFINE n == Len(stack)
    <3>1. n \in Nat /\ n > 1 /\ ~(n > 2)
      BY <1>3, Position
    <3>2. n = 2
      <4> HIDE DEF n
      <4> QED  BY <3>1
    <3> QED  BY <1>1, <1>3, <3>2, Position
  <2>2. Agree(val, formula, top.var)
    <3>1. Result = Value(val, formula[top.var])
      BY <1>1, <2>1, UpdateValue DEF Unchanged
    <3> QED  BY <3>1 DEF Agree, Unchanged, Changes
  <2>3. Len(stack') = 1 /\ Chain'[1] = Chain[1]
    BY <1>1, <2>1 DEF Returned, Below
  <2>4. ~Updating' /\ Done' = Done
    BY <2>3 DEF Updating, Done
  <2>5. \A v \in Done : Agree(val, formula, v)
    BY <2>1, <2>2 DEF RecalcInv
  <2>6. \A v \in Done : Agree(val', formula', v)
    BY <1>1, <2>5
  <2>7. \A k \in 2..Len(stack') : FALSE
    BY <2>3
  <2> HIDE DEF Updating
  <2> QED  BY <1>1, <2>3, <2>4, <2>6, <2>7 DEF RecalcInv
<1> QED  BY <1>2, <1>3

LEMMA ChangedRecalc ==
  ASSUME IInv, Layout, FramesFit, EdgesComplete, RecalcInv, Recalculating,
         stack # <<>>, top.op \notin Ground, Changed
  PROVE  RecalcInv'
<1> DEFINE p == top.var
           n == Len(stack)
<1>1. /\ top.op = "update" /\ Became(Emit(p)) /\ Emit(p).op = "notify"
      /\ p \in Vars /\ Evaluated
      /\ UNCHANGED <<adj, formula>>
      /\ val' = [val EXCEPT ![p] = Result] /\ Changes(p, Result)
  BY ChangedMove DEF Changed, graphVars, UpdateFrame
<1>2. /\ n \in Nat /\ n > 1 /\ Chain[n] = top
      /\ Fits(top) /\ top \in Frame /\ Redefining = {}
      /\ Updating => /\ p \in Done
                     /\ IF n = 2 THEN p = Chain[2].var ELSE p # Chain[2].var
      /\ ~Updating => n > 2
      /\ p \in Done => ArgsAgree(val, top)
  BY <1>1, Position
<1>3. /\ \A v \in Done : \A u \in Chain[1].todo : v \notin adj[u]
      /\ \A v \in Done : Agree(val, formula, v) \/ (Updating /\ v = Chain[2].var)
      /\ Updating => \A v \in Done : v \notin adj[Chain[2].var]
  BY DEF RecalcInv
<1>4. p \in Done => Result = Value(val, formula[p])
  BY <1>1, <1>2, UpdateValue
<1>5. p \in Done => Updating /\ n = 2 /\ p = Chain[2].var
  <2>1. p \in Done /\ Agree(val, formula, p) => FALSE
    BY <1>1, <1>2, <1>4 DEF Agree, Changes, Fits, Derived
  <2> QED  BY <1>2, <1>3, <2>1
<1>6. ASSUME NEW v \in Done, Derived(v)
      PROVE  p \notin Range(Deps[formula[v]])
  <2>1. v \in Vars
    BY DEF Done
  <2>2. v \notin adj[p]
    <3>1. p \in Chain[1].todo \/ p \in Done
      BY <1>1 DEF Done
    <3> QED  BY <1>3, <1>5, <3>1
  <2> QED  BY <1>2, <1>6, <2>1, <2>2, ReadEdge
<1>7. \A v \in Vars : v # p => val'[v] = val[v]
  BY <1>1 DEF IInv, TypeOK
<1>8. \A v \in Done : v # p /\ Agree(val, formula, v) => Agree(val', formula, v)
  BY <1>1, <1>2, <1>6, <1>7, WriteApart DEF Done
<1> HIDE DEF p, n
<1>9. CASE p \in Done
  <2>1. Updating /\ n = 2 /\ p = Chain[2].var
    BY <1>5, <1>9
  <2>2. Agree(val', formula, p)
    <3>1. formula[p] \in Formulas /\ Derived(p)
      BY <1>1, <1>2 DEF Fits, Derived, IInv, TypeOK, p
    <3>2. \A u \in Range(Deps[formula[p]]) : val'[u] = val[u]
      BY <1>2, <1>6, <1>7, <1>9, <3>1, ReadsVars
    <3>3. \A i \in DOMAIN Deps[formula[p]] :
            val'[Deps[formula[p]][i]] = val[Deps[formula[p]][i]]
      BY <3>2 DEF Range
    <3>4. Value(val', formula[p]) = Value(val, formula[p])
      BY <3>3 DEF Value
    <3>5. val'[p] = Value(val, formula[p])
      BY <1>1, <1>4, <1>9 DEF IInv, TypeOK
    <3> QED  BY <3>4, <3>5 DEF Agree
  <2>3. Len(stack') = 2 /\ Chain'[1] = Chain[1] /\ Chain'[2].op = "notify"
    BY <1>1, <2>1 DEF Became, Below, n
  <2>4. ~Updating' /\ Done' = Done
    BY <2>3 DEF Updating, Done
  <2>5. \A v \in Done : Agree(val', formula', v)
    BY <1>1, <1>3, <1>8, <2>1, <2>2
  <2>6. \A k \in 2..Len(stack') : Chain'[k].op # "update"
    BY <2>3
  <2> HIDE DEF Updating
  <2> QED  BY <1>1, <1>3, <2>3, <2>4, <2>5, <2>6 DEF RecalcInv
<1>10. CASE p \notin Done
  <2>1. ~Updating
    BY <1>2, <1>10
  <2>2. \A v \in Done : Agree(val, formula, v) => Agree(val', formula, v)
    BY <1>8, <1>10
  <2>3. ASSUME NEW k \in 2..Len(stack) - 1, Chain[k].op = "update", Chain[k].var \in Done
        PROVE  ArgsAgree(val', Chain[k])
    <3>1. Chain[k] \in Frame /\ Fits(Chain[k]) /\ ArgsAgree(val, Chain[k])
      BY <2>3, OlderFrames DEF RecalcInv
    <3>2. Chain[k].var \in Vars /\ Chain[k].var # p
      BY <1>10, <2>3 DEF Done
    <3> QED  BY <1>1, <1>2, <1>6, <1>7, <2>3, <3>1, <3>2, WriteApart
  <2>4. ~Called(Emit(p), Emit(p))
    BY <1>1, <1>2 DEF Became, Called, n
  <2> QED  BY <1>1, <2>1, <2>2, <2>3, <2>4, RecalcMoves
<1> QED  BY <1>9, <1>10

LEMMA SetMove ==
  ASSUME IInv, Set
  PROVE  /\ stack # <<>> /\ top \in CallFrame /\ top.op = "call"
         /\ Step.var \in Vars
         /\ Became(NextStep) /\ NextStep.op = "call"
<1>1. /\ stack # <<>> /\ top \in CallFrame /\ top.op = "call"
      /\ Evaluates(top) /\ stack' = <<NextStep>> \o rest
  BY ActionMove DEF Set, Evaluated
<1>2. Step.var \in Vars
  BY <1>1, StepType DEF Evaluates
<1>3. NextStep \in Frame /\ NextStep.op = "call"
  <2>1. top.arg \in Values
    BY <1>1 DEF CallFrame
  <2> QED  BY <1>1, <2>1, EvaluationLike DEF Like
<1>4. Became(NextStep)
  BY <1>1, <1>3, TopFrame, ChainMoves
<1> QED  BY <1>1, <1>2, <1>3, <1>4

LEMMA WritesInRecalc ==
  ASSUME IInv, Recalculating, Set
  PROVE  WriteInRecalc
<1>1. Len(stack) \in Nat \ {0}
  BY SetMove, TopOfChain
<1>2. 1 \in 1..Len(stack) /\ Len(stack) + 1 - 1 = Len(stack)
  BY <1>1
<1>3. Chain[1] = stack[Len(stack)]
  BY <1>2 DEF Chain
<1> QED  BY <1>3 DEF WriteInRecalc, Recalculating

\* What it assigns then is not derived and read by no formula.
LEMMA SetRecalc ==
  ASSUME IInv, Layout, FramesFit, EdgesComplete, RecalcInv, Recalculating,
         stack # <<>>, top.op \notin Ground, Set, ~LostWrite
  PROVE  RecalcInv'
<1> DEFINE p == Step.var
<1>1. /\ top.op = "call" /\ p \in Vars
      /\ Became(NextStep) /\ NextStep.op = "call"
      /\ val' = [val EXCEPT ![p] = Result]
      /\ UNCHANGED <<adj, formula>>
  BY SetMove DEF Set, graphVars
<1>2. Redefining = {} /\ ~Updating /\ Len(stack) \in Nat
  BY <1>1, Position
<1>3. WriteInRecalc
  BY WritesInRecalc
<1>4. \A v \in Vars : Derived(v) => v # p /\ p \notin Range(Deps[formula[v]])
  BY <1>3 DEF LostWrite, Feeds
<1>5. \A v \in Vars : v # p => val'[v] = val[v]
  BY <1>1 DEF IInv, TypeOK
<1> HIDE DEF p
<1>6. \A v \in Done : Agree(val, formula, v) => Agree(val', formula, v)
  BY <1>1, <1>2, <1>4, <1>5, WriteApart DEF Done, Derived
<1>7. ASSUME NEW k \in 2..Len(stack) - 1, Chain[k].op = "update", Chain[k].var \in Done
      PROVE  ArgsAgree(val', Chain[k])
  <2>1. Chain[k] \in Frame /\ Fits(Chain[k]) /\ ArgsAgree(val, Chain[k])
    BY <1>7, OlderFrames DEF RecalcInv
  <2>2. Chain[k].var \in Vars
    BY <1>7 DEF Done
  <2> QED  BY <1>1, <1>2, <1>4, <1>5, <1>7, <2>1, <2>2, WriteApart DEF Derived
<1>8. ~Called(NextStep, NextStep)
  BY <1>1, <1>2 DEF Became, Called
<1> QED  BY <1>1, <1>2, <1>6, <1>7, <1>8, RecalcMoves

LEMMA StartsRecalc ==
  ASSUME IInv, Layout, FramesFit, CleanAgree, StartRecalc
  PROVE  RecalcInv'
<1>1. /\ Len(stack) = 1 /\ Chain[1].op = "settle" /\ Acyclic
      /\ UNCHANGED <<val, formula, adj, dirty>>
      /\ \/ dirty = {} /\ Len(stack') = 0
         \/ dirty # {} /\ Len(stack') = 1 /\ Chain'[1] = Recalc(dirty)
  BY StartRecalcMove, EngineRuns DEF Engine, StartRecalc, graphVars
<1>2. CASE Len(stack') = 0
  BY <1>2 DEF RecalcInv, Recalculating
<1>3. CASE Len(stack') = 1 /\ Chain'[1] = Recalc(dirty)
  <2>1. Done' = Vars \ dirty /\ Chain'[1].todo = dirty /\ ~Updating'
    BY <1>3 DEF Done, Recalc, Updating
  <2>2. \A v \in Done' : Agree(val', formula', v)
    BY <1>1, <2>1 DEF CleanAgree, Redefining
  <2>3. \A v \in Done' : \A u \in Chain'[1].todo : v \notin adj'[u]
    BY <1>1, <2>1 DEF IInv, DirtyClosed
  <2>4. \A k \in 2..Len(stack') : FALSE
    BY <1>3
  <2> HIDE DEF Updating
  <2> QED  BY <2>1, <2>2, <2>3, <2>4 DEF RecalcInv
<1> QED  BY <1>1, <1>2, <1>3

LEMMA UpdateNextRecalc ==
  ASSUME IInv, Layout, FramesFit, RecalcInv, UpdateNext
  PROVE  RecalcInv'
<1>1. Len(stack) = 1 /\ Chain[1] = top /\ top.op = "recalc" /\ top \in RecalcFrame
  BY UpdateNextMove
<1>2. PICK v \in top.todo : \E x \in RecalcFrame :
        /\ v \in Vars /\ \A u \in top.todo : v \notin adj[u]
        /\ Chain'[1] = x /\ x.op = "recalc" /\ x.todo = top.todo \ {v}
        /\ \/ ~Derived(v) /\ Len(stack') = 1
           \/ Derived(v) /\ Len(stack') = 2 /\ Chain'[2] = Update(v)
  BY UpdateNextMove
<1>3. Chain'[1].todo = top.todo \ {v} /\ Done' = Done \cup {v}
  BY <1>1, <1>2 DEF Done
<1>4. UNCHANGED <<val, formula, adj>>
  BY DEF UpdateNext, graphVars
<1>5. Recalculating /\ ~Updating
  BY <1>1 DEF Recalculating, Updating
<1>6. \A u \in Done : Agree(val, formula, u) /\ \A t \in top.todo : u \notin adj[t]
  BY <1>1, <1>5 DEF RecalcInv
<1>7. \A u \in Done' : \A t \in Chain'[1].todo : u \notin adj'[t]
  BY <1>2, <1>3, <1>4, <1>6
<1>8. CASE ~Derived(v) /\ Len(stack') = 1
  <2>1. Agree(val, formula, v)
    BY <1>8 DEF Agree, Derived
  <2>2. \A u \in Done' : Agree(val', formula', u)
    BY <1>3, <1>4, <1>6, <2>1
  <2>3. ~Updating' /\ \A k \in 2..Len(stack') : FALSE
    BY <1>8 DEF Updating
  <2> HIDE DEF Updating
  <2> QED  BY <1>7, <2>2, <2>3 DEF RecalcInv
<1>9. CASE Derived(v) /\ Len(stack') = 2 /\ Chain'[2] = Update(v)
  <2>1. /\ Chain'[2].op = "update" /\ Chain'[2].var = v /\ Updating'
        /\ ArgsAgree(val', Chain'[2])
    <3>1. Deps[formula[v]] \in Seq(Vars)
      BY <1>2, <1>9, NamesAssumption DEF Derived, IInv, TypeOK
    <3> QED  BY <1>9, <3>1 DEF Update, Updating, ArgsAgree
  <2>2. \A u \in Done' : Agree(val', formula', u) \/ u = Chain'[2].var
    BY <1>3, <1>4, <1>6, <2>1
  <2>3. \A u \in Done' : u \notin adj'[Chain'[2].var]
    BY <1>2, <1>3, <1>4, <1>6, <2>1
  <2>4. \A k \in 2..Len(stack') : k = 2
    BY <1>9
  <2>5. \A k \in 3..Len(stack') : FALSE
    BY <1>9
  <2> HIDE DEF Updating
  <2> QED  BY <1>3, <1>7, <2>1, <2>2, <2>3, <2>4, <2>5 DEF RecalcInv
<1> QED  BY <1>2, <1>8, <1>9

LEMMA NextRecalc ==
  ASSUME IInv, Layout, FramesFit, EdgesComplete, CleanAgree, RecalcInv,
         [Next]_vars, ~LostWrite
  PROVE  RecalcInv'
<1>1. CASE Program \/ Recalculated \/ DeriveFails \/ DeriveSucceeds
  <2>1. ~Recalculating'
    <3>1. Recalculated => ~Recalculating'
      <4>1. Recalculated => Chain'[1].op = "settle"
        BY RecalculatedMove DEF Settle
      <4> QED  BY <4>1 DEF Recalculating
    <3>2. DeriveFails \/ DeriveSucceeds => ~Recalculating'
      BY DefinedMove DEF Recalculating
    <3> QED  BY <1>1, <3>1, <3>2, ProgramFits
  <2> QED  BY <2>1 DEF RecalcInv
<1>2. CASE StartRecalc \/ UpdateNext
  BY <1>2, StartsRecalc, UpdateNextRecalc
<1>3. CASE InnerStep
  <2>1. CASE ~Recalculating
    BY <1>3, <2>1, InnerStepFits DEF RecalcInv
  <2>2. CASE Recalculating
    <3>1. stack # <<>> /\ top.op \notin Ground
      <4>1. stack # <<>>
        BY <1>3, EngineRuns DEF InnerStep, Engine
      <4>2. top.op \in {"update", "derive", "call", "notify"}
        BY <1>3, <4>1, Evaluating DEF InnerStep, Refresh, Read, Reads, Unchanged,
             Changed, NotifyNext, CallSubscriber, Notified, Guard, Set, SetFails,
             Return, Running
      <4>3. top.op # "derive"
        <5>1. top.op = "derive" => Chain[1] = top
          BY <4>1, Alone DEF Ground
        <5> QED  BY <2>2, <5>1 DEF Recalculating
      <4> QED  BY <4>1, <4>2, <4>3 DEF Ground
    <3> QED
      BY <1>3, <2>2, <3>1, RefreshRecalc, ReadRecalc, UnchangedRecalc,
         ChangedRecalc, SetRecalc, OtherRecalc DEF InnerStep
  <2> QED  BY <2>1, <2>2
<1>4. CASE UNCHANGED vars
  <2>1. Chain' = Chain /\ UNCHANGED <<val, formula, adj, stack>>
    BY <1>4 DEF vars, graphVars, Chain
  <2>2. /\ Done' = Done /\ Recalculating' = Recalculating
        /\ Updating' = Updating
    BY <2>1 DEF Done, Recalculating, Updating
  <2> QED  BY <2>1, <2>2 DEF RecalcInv
<1> QED
  BY <1>1, <1>2, <1>3, <1>4 DEF Next, Engine, InnerStep

\* At the end of a recalculation everything is done.
LEMMA RecalculatedAgree ==
  ASSUME IInv, Layout, RecalcInv, Recalculated
  PROVE  CleanAgree'
<1>1. /\ Len(stack) = 1 /\ Chain[1] = top /\ top.op = "recalc" /\ top.todo = {}
      /\ UNCHANGED <<val, formula>>
  BY RecalculatedMove DEF Recalculated, graphVars
<1>2. Done = Vars /\ Recalculating /\ ~Updating
  BY <1>1 DEF Done, Recalculating, Updating
<1>3. \A v \in Vars : Agree(val, formula, v)
  BY <1>2 DEF RecalcInv
<1> QED  BY <1>1, <1>3 DEF CleanAgree, Agree

-----------------------------------------------------------------------------
(* Subscribers.                                                            *)

\* The last recalculation has yet to tell fn about v.
Pending(v, fn) ==
  /\ Len(stack) > 1 /\ Chain[1].op = "settle" /\ Chain[2].op = "notify"
  /\ \/ v \in Range(Chain[2].queue)
     \/ v = Chain[2].about /\ fn \in Chain[2].due

\* Whoever subscribes to an unmarked variable has heard its value or is about
\* to, and a recalculation will announce every marked variable.
HeardInv ==
  /\ \A v \in Vars \ dirty : \A fn \in subs[v] :
       heard[v][fn] = val[v] \/ Pending(v, fn)
  /\ Recalculating => \A v \in dirty :
       v \in Chain[1].todo \/ v \in Range(Chain[1].order) \/ subs[v] = {}
  /\ \A v \in Redefining : subs[v] = {}

\* A step of an inner call keeps what is pending, unless that call does it.
LEMMA PendingStays ==
  ASSUME IInv, stack # <<>>, top.op # "notify", NEW x, NEW y,
         Returned \/ Became(x) \/ Called(x, y)
  PROVE  \A v, fn : Pending(v, fn) => Pending(v, fn)'
<1> DEFINE n == Len(stack)
<1>1. /\ n \in Nat \ {0} /\ Chain[n] = top
      /\ \A k \in 1..n - 1 : Chain'[k] = Chain[k]
      /\ Len(stack') \in {n - 1, n, n + 1}
  BY TopOfChain DEF Returned, Became, Called, Below
<1> SUFFICES ASSUME NEW v, NEW fn, Pending(v, fn)
             PROVE  Pending(v, fn)'
  OBVIOUS
<1>2. n > 1 /\ n # 2
  BY <1>1 DEF Pending
<1> HIDE DEF n
<1>3. 1 \in 1..n - 1 /\ 2 \in 1..n - 1 /\ Len(stack') > 1
  BY <1>1, <1>2
<1> QED  BY <1>1, <1>3 DEF Pending

\* A step of an inner call keeps the recalculation's lists.
LEMMA ListsStay ==
  ASSUME IInv, Layout, stack # <<>>, top.op \notin Ground, Below, Recalculating
  PROVE  Chain'[1] = Chain[1]
BY Inner

\* Steps of the engine that write nothing and tell no one.
LEMMA QuietHeard ==
  ASSUME IInv, Layout, FramesFit, HeardInv,
         \/ Refresh \/ Read \/ Unchanged \/ Guard \/ SetFails \/ Return
  PROVE  HeardInv'
<1>1. /\ stack # <<>> /\ top.op # "notify"
      /\ UNCHANGED <<val, dirty, subs, heard>>
  BY Evaluating DEF Refresh, Read, Unchanged, Guard, SetFails, Return, Reads,
     Evaluated, Running, subVars
<1>2. \E x, y : Returned \/ Became(x) \/ Called(x, y)
  <2>1. Refresh => \E x : Called(x, Update(ToRead))
    BY RefreshMove
  <2>2. Read => \E x : Became(x)
    BY ReadMove
  <2>3. Unchanged \/ Return => Returned
    BY ReturnMove
  <2>4. Guard \/ SetFails => Returned \/ Became(NextStep)
    BY ActionMove
  <2> QED  BY <2>1, <2>2, <2>3, <2>4
<1>3. PICK x, y : Returned \/ Became(x) \/ Called(x, y)
  BY <1>2
<1>4. \A v, fn : Pending(v, fn) => Pending(v, fn)'
  BY <1>1, <1>3, PendingStays
<1>5. /\ Redefining' = Redefining
      /\ Recalculating' <=> Recalculating
  BY InnerStepFits DEF InnerStep
<1>6. Recalculating => Chain'[1] = Chain[1]
  <2>1. ASSUME Recalculating PROVE top.op \notin Ground
    <3>1. top.op \in {"update", "derive", "call"}
      BY <1>1, Evaluating DEF Refresh, Read, Unchanged, Guard, SetFails, Return,
         Reads, Evaluated, Running
    <3>2. top.op = "derive" => Chain[1] = top
      BY <1>1, Alone DEF Ground
    <3> QED  BY <2>1, <3>1, <3>2 DEF Recalculating, Ground
  <2> QED  BY <1>1, <1>3, <2>1, ListsStay DEF Returned, Became, Called
<1> QED  BY <1>1, <1>4, <1>5, <1>6 DEF HeardInv

LEMMA NotifyHeard ==
  ASSUME IInv, Layout, FramesFit, HeardInv, NotifyNext \/ Notified
  PROVE  HeardInv'
<1> DEFINE n == Len(stack)
<1>1. /\ stack # <<>> /\ top.op = "notify"
      /\ UNCHANGED <<val, dirty, subs, heard>>
  BY DEF NotifyNext, Notified, Running, subVars
<1>2. n \in Nat \ {0} /\ Chain[n] = top
  BY <1>1, TopOfChain
<1>3. /\ Redefining' = Redefining
      /\ Recalculating' <=> Recalculating
  BY InnerStepFits DEF InnerStep
<1>4. Below
  <2>1. NotifyNext => Below
    BY NotifyMove DEF Became
  <2>2. Notified => Below
    BY ReturnMove DEF Returned
  <2> QED  BY <2>1, <2>2
<1>5. Recalculating => Chain'[1] = Chain[1]
  BY <1>1, <1>4, ListsStay DEF Ground
<1>6. ASSUME NEW v \in Vars, NEW fn \in subs[v], Pending(v, fn)
      PROVE  Pending(v, fn)'
  <2>1. n > 1
    BY <1>6 DEF Pending
  <2>2. CASE n > 2
    <3>1. 1 \in 1..n - 1 /\ 2 \in 1..n - 1 /\ (Len(stack') = n \/ Len(stack') = n - 1)
      <4>1. Len(stack') = n \/ Len(stack') = n - 1
        BY NotifyMove, ReturnMove DEF Became, Returned
      <4> HIDE DEF n
      <4> QED  BY <1>2, <2>2, <4>1
    <3>2. Len(stack') > 1
      <4> HIDE DEF n
      <4> QED  BY <1>2, <2>2, <3>1
    <3> QED  BY <1>4, <1>6, <3>1, <3>2 DEF Pending, Below
  <2>3. CASE n = 2
    <3>1. /\ Chain[2] = top /\ 1 \in 1..n - 1
      BY <1>2, <2>3
    <3>2. CASE NotifyNext
      <4>1. top.due = {} /\ \E x \in NotifyFrame :
              /\ Became(x)
              /\ x.op = "notify" /\ x.due = subs[x.about]
              /\ \A u \in Range(top.queue) : u = x.about \/ u \in Range(x.queue)
        BY <3>2, NotifyMove
      <4>2. PICK x : /\ Became(x)
                     /\ x.op = "notify" /\ x.due = subs[x.about]
                     /\ \A u \in Range(top.queue) : u = x.about \/ u \in Range(x.queue)
        BY <4>1
      <4>3. v \in Range(top.queue)
        BY <1>6, <3>1, <4>1 DEF Pending
      <4>4. /\ Len(stack') = 2 /\ Chain'[1] = Chain[1] /\ Chain'[2] = x
        BY <2>3, <3>1, <4>2 DEF Became, Below
      <4> QED  BY <1>6, <4>2, <4>3, <4>4 DEF Pending
    <3>3. CASE Notified
      <4>1. top.due = {} /\ Range(top.queue) = {}
        BY <3>3 DEF Notified, Range
      <4> QED  BY <1>6, <3>1, <4>1 DEF Pending
    <3> QED  BY <3>2, <3>3
  <2> HIDE DEF n
  <2> QED  BY <1>2, <2>1, <2>2, <2>3
<1> QED  BY <1>1, <1>3, <1>5, <1>6 DEF HeardInv

LEMMA CallHeard ==
  ASSUME IInv, Layout, FramesFit, HeardInv, CallSubscriber
  PROVE  HeardInv'
<1> DEFINE n == Len(stack)
<1>1. /\ stack # <<>> /\ top.op = "notify" /\ top \in NotifyFrame
      /\ UNCHANGED <<val, dirty, subs>>
  BY SubscriberMove DEF CallSubscriber, subVars
<1>2. n \in Nat \ {0} /\ Chain[n] = top
  BY <1>1, TopOfChain
<1>3. /\ Redefining' = Redefining
      /\ Recalculating' <=> Recalculating
  BY InnerStepFits DEF InnerStep
<1>4. PICK called \in top.due : \E x \in Frame :
        /\ heard' = [heard EXCEPT ![top.about][called] = val[top.about]]
        /\ Called(x, Call(called, val[top.about]))
        /\ x.op = "notify" /\ x.about = top.about /\ x.queue = top.queue
        /\ x.due = top.due \ {called}
  BY SubscriberMove
<1>5. PICK x \in Frame :
        /\ Called(x, Call(called, val[top.about]))
        /\ x.op = "notify" /\ x.about = top.about /\ x.queue = top.queue
        /\ x.due = top.due \ {called}
  BY <1>4
<1>6. /\ Below /\ Len(stack') = n + 1 /\ Chain'[n] = x
  BY <1>5 DEF Called
<1>7. Recalculating => Chain'[1] = Chain[1]
  BY <1>1, <1>6, ListsStay DEF Ground
<1>8. /\ \A v \in Vars, fn \in Actions :
           heard'[v][fn] = heard[v][fn] \/ heard'[v][fn] = val[v]
      /\ heard'[top.about][called] = val[top.about]
  <2>1. /\ heard' = [heard EXCEPT ![top.about][called] = val[top.about]]
        /\ top.about \in Vars /\ called \in Actions
        /\ heard \in [Vars -> [Actions -> Values]]
    BY <1>1, <1>4 DEF NotifyFrame, IInv, TypeOK
  <2> QED  BY <2>1
<1>9. ASSUME NEW v \in Vars, NEW fn \in subs[v], Pending(v, fn)
      PROVE  Pending(v, fn)' \/ heard'[v][fn] = val[v]
  <2>1. n > 1
    BY <1>9 DEF Pending
  <2> HIDE DEF n
  <2>2. 1 \in 1..n - 1 /\ Len(stack') > 1
    BY <1>2, <1>6, <2>1
  <2>3. Chain'[1] = Chain[1]
    BY <1>6, <2>2 DEF Below, n
  <2>4. CASE n > 2
    <3>1. 2 \in 1..n - 1
      BY <1>2, <2>4
    <3>2. Chain'[2] = Chain[2]
      BY <1>6, <3>1 DEF Below, n
    <3> QED  BY <1>9, <2>2, <2>3, <3>2 DEF Pending
  <2>5. CASE n = 2
    <3>1. Chain[2] = top /\ Chain'[2] = x
      BY <1>2, <1>6, <2>5
    <3>2. v \in Range(top.queue) \/ (v = top.about /\ fn \in top.due)
      BY <1>9, <3>1 DEF Pending
    <3>3. CASE v = top.about /\ fn = called
      BY <1>8, <3>3
    <3>4. CASE ~(v = top.about /\ fn = called)
      BY <1>5, <1>9, <2>2, <2>3, <3>1, <3>2, <3>4 DEF Pending
    <3> QED  BY <3>3, <3>4
  <2> QED  BY <1>2, <2>1, <2>4, <2>5
<1>10. \A v \in Vars : subs[v] \subseteq Actions
  BY DEF IInv, TypeOK
<1>11. \A v \in Vars \ dirty' : \A fn \in subs'[v] :
         heard'[v][fn] = val'[v] \/ Pending(v, fn)'
  BY <1>1, <1>8, <1>9, <1>10 DEF HeardInv
<1> QED  BY <1>1, <1>3, <1>7, <1>11 DEF HeardInv

LEMMA ChangedHeard ==
  ASSUME IInv, Layout, FramesFit, HeardInv, Changed
  PROVE  HeardInv'
<1>1. /\ stack # <<>> /\ top.op = "update" /\ top \in UpdateFrame
      /\ UNCHANGED <<dirty, subs, heard>>
      /\ val' = [val EXCEPT ![top.var] = Result]
      /\ Became(Emit(top.var))
  BY ChangedMove DEF Changed, subVars
<1>2. top.var \in dirty /\ top.var \in Vars
  BY <1>1, TopOfChain DEF FramesFit, Fits, UpdateFrame
<1>3. \A v \in Vars \ dirty : val'[v] = val[v]
  BY <1>1, <1>2 DEF IInv, TypeOK
<1>4. \A v, fn : Pending(v, fn) => Pending(v, fn)'
  BY <1>1, PendingStays
<1>5. /\ Redefining' = Redefining
      /\ Recalculating' <=> Recalculating
  BY InnerStepFits DEF InnerStep
<1>6. Recalculating => Chain'[1] = Chain[1]
  BY <1>1, ListsStay DEF Ground, Became
<1> QED  BY <1>1, <1>3, <1>4, <1>5, <1>6 DEF HeardInv

\* In a recalculation it marks no more than the variable that it assigns, which
\* nothing depends on and no one subscribes to.
LEMMA SetHeard ==
  ASSUME IInv, Layout, FramesFit, HeardInv, Set, ~LostWrite, ~LostNotice
  PROVE  HeardInv'
<1> DEFINE p == Step.var
<1>1. /\ stack # <<>> /\ top.op = "call" /\ Acyclic
      /\ Became(NextStep) /\ p \in Vars
      /\ UNCHANGED <<adj, subs, heard>>
      /\ val' = [val EXCEPT ![p] = Result] /\ dirty' = MarkDirty(p)
  BY SetMove, EngineRuns DEF Engine, Set, graphVars, subVars
<1>3. dirty \subseteq dirty' /\ p \in dirty'
  BY <1>1, Marked
<1>4. \A v \in Vars \ dirty' : val'[v] = val[v] /\ v \notin dirty
  BY <1>1, <1>3 DEF IInv, TypeOK
<1>5. \A v, fn : Pending(v, fn) => Pending(v, fn)'
  BY <1>1, PendingStays
<1>6. /\ Redefining' = Redefining
      /\ Recalculating' <=> Recalculating
  BY InnerStepFits DEF InnerStep
<1>7. Recalculating => Chain'[1] = Chain[1]
  BY <1>1, ListsStay DEF Ground, Became
<1>8. ASSUME Recalculating
      PROVE  dirty' \subseteq dirty \cup {p} /\ subs[p] = {}
  <2>1. WriteInRecalc
    BY <1>8, WritesInRecalc
  <2>2. adj[p] = {}
    <3>1. \A w \in Vars : formula[w] # NoFormula => p \notin Range(Deps[formula[w]])
      BY <2>1 DEF LostWrite, Feeds, Derived
    <3>2. \A w \in Vars : w \notin adj[p]
      BY <1>1, <3>1, NamesAssumption DEF IInv, EdgesSound
    <3> QED  BY <1>1, <3>2 DEF IInv, TypeOK
  <2>3. Walk(dirty, p) \subseteq {p}
    BY <1>1, <2>2 DEF Walk
  <2>4. subs[p] = {}
    BY <2>1 DEF LostNotice
  <2> QED  BY <1>1, <2>3, <2>4 DEF MarkDirty
<1> HIDE DEF p
<1> QED  BY <1>1, <1>3, <1>4, <1>5, <1>6, <1>7, <1>8 DEF HeardInv

\* The steps of the outermost call: nothing is pending when they begin.
LEMMA OuterHeard ==
  ASSUME IInv, Layout, FramesFit, HeardInv, OuterStep
  PROVE  HeardInv'
<1>1. /\ \A v \in Vars \ dirty : \A fn \in subs[v] : heard[v][fn] = val[v]
      /\ Len(stack) = 1
  <2>1. Len(stack) = 1
    BY DefinedMove, StartRecalcMove, UpdateNextMove, RecalculatedMove DEF OuterStep
  <2>2. \A v, fn : ~Pending(v, fn)
    BY <2>1 DEF Pending
  <2> QED  BY <2>1, <2>2 DEF HeardInv
<1>2. Redefining' = {} /\ UNCHANGED <<subs, heard>>
  BY OuterStepFits DEF OuterStep, DeriveFails, DeriveSucceeds, StartRecalc,
     UpdateNext, Recalculated, subVars
<1>3. CASE DeriveFails
  <2>1. ~Recalculating' /\ UNCHANGED <<val, dirty>>
    BY <1>3, DefinedMove DEF Recalculating, DeriveFails
  <2> QED  BY <1>1, <1>2, <2>1 DEF HeardInv
<1>4. CASE DeriveSucceeds
  <2>1. /\ ~Recalculating' /\ Redefining = {top.var} /\ top.var \in Vars
    BY <1>4, DefinedMove DEF Recalculating, DeriveFrame
  <2>2. /\ val' = [val EXCEPT ![top.var] = Result] /\ subs[top.var] = {}
        /\ dirty' = dirty \/ dirty' = MarkDirty(top.var)
    BY <1>4, <2>1 DEF DeriveSucceeds, HeardInv
  <2>3. dirty \subseteq dirty' /\ \A v \in Vars : v # top.var => val'[v] = val[v]
    BY <2>2 DEF MarkDirty, IInv, TypeOK
  <2> QED  BY <1>1, <1>2, <2>1, <2>2, <2>3 DEF HeardInv
<1>5. CASE StartRecalc
  <2>1. /\ UNCHANGED <<val, dirty>>
        /\ Recalculating' => Chain'[1] = Recalc(dirty)
    BY <1>5, StartRecalcMove DEF StartRecalc, Recalculating
  <2> QED  BY <1>1, <1>2, <2>1 DEF HeardInv, Recalc
<1>6. CASE UpdateNext
  <2>1. /\ top \in RecalcFrame /\ Len(stack) = 1 /\ Chain[1] = top
        /\ top.op = "recalc"
        /\ \E v \in top.todo : \E x \in RecalcFrame :
             /\ v \in Vars /\ Chain'[1] = x
             /\ x.todo = top.todo \ {v} /\ x.order = Append(top.order, v)
    BY <1>6, UpdateNextMove
  <2>2. PICK v \in top.todo : \E x \in RecalcFrame :
             /\ v \in Vars /\ Chain'[1] = x
             /\ x.todo = top.todo \ {v} /\ x.order = Append(top.order, v)
    BY <2>1
  <2>3. Chain'[1].todo = top.todo \ {v} /\ Chain'[1].order = Append(top.order, v)
    BY <2>2
  <2>4. Range(top.order) \cup {v} \subseteq Range(Append(top.order, v))
    <3>1. top.order \in Seq(Vars) /\ v \in Vars
      BY <2>1, <2>2 DEF RecalcFrame
    <3>2. /\ Len(Append(top.order, v)) = Len(top.order) + 1
          /\ \A j \in 1..Len(top.order) : Append(top.order, v)[j] = top.order[j]
          /\ Append(top.order, v)[Len(top.order) + 1] = v
          /\ DOMAIN Append(top.order, v) = 1..Len(top.order) + 1
          /\ DOMAIN top.order = 1..Len(top.order) /\ Len(top.order) \in Nat
      BY <3>1, AppendProperties
    <3>3. /\ Len(top.order) + 1 \in DOMAIN Append(top.order, v)
          /\ DOMAIN top.order \subseteq DOMAIN Append(top.order, v)
      BY <3>2
    <3> QED  BY <3>2, <3>3 DEF Range
  <2>5. UNCHANGED <<val, dirty>> /\ Recalculating
    BY <1>6, <2>1 DEF UpdateNext, Recalculating
  <2> QED  BY <1>1, <1>2, <2>1, <2>3, <2>4, <2>5 DEF HeardInv
<1>7. CASE Recalculated
  <2>1. /\ Chain[1] = top /\ top.op = "recalc" /\ top.todo = {} /\ dirty' = {}
        /\ Len(stack') = 2 /\ Chain'[1] = Settle /\ Chain'[2] = Announce(top.order)
    BY <1>7, RecalculatedMove
  <2>2. /\ Chain'[1].op = "settle" /\ Chain'[2].op = "notify"
        /\ Chain'[2].queue = top.order
    BY <2>1 DEF Settle, Announce
  <2>3. ~Recalculating' /\ Recalculating /\ val' = val
    BY <1>1, <1>7, <2>1, <2>2 DEF Recalculating, Recalculated
  <2>4. ASSUME NEW v \in Vars, NEW fn \in subs[v]
        PROVE  heard[v][fn] = val[v] \/ v \in Range(top.order)
    BY <1>1, <2>1, <2>3, <2>4 DEF HeardInv
  <2> QED  BY <1>2, <2>1, <2>2, <2>3, <2>4 DEF HeardInv, Pending
<1> QED  BY <1>3, <1>4, <1>5, <1>6, <1>7 DEF OuterStep

\* Statements and events: nothing runs when they begin.
LEMMA ProgramHeard ==
  ASSUME IInv, HeardInv, Program
  PROVE  HeardInv'
<1>1. stack = <<>> /\ ~Recalculating' /\ (~Derive => Redefining' = {})
  BY ProgramFits
<1>2. \A v \in Vars \ dirty : \A fn \in subs[v] : heard[v][fn] = val[v]
  <2>1. \A v, fn : ~Pending(v, fn)
    <3>1. Len(stack) = 0
      BY <1>1
    <3> QED  BY <3>1 DEF Pending
  <2> QED  BY <2>1 DEF HeardInv
<1>3. CASE Assign
  <2>1. PICK write \in Writes : /\ val' = [val EXCEPT ![write[1]] = write[2]]
                                /\ dirty' = MarkDirty(write[1])
    BY <1>3 DEF Assign
  <2>2. /\ write[1] \in Vars /\ Acyclic /\ UNCHANGED <<subs, heard>>
        /\ Redefining' = {}
    <3>1. write[1] \in Vars /\ Acyclic /\ UNCHANGED <<subs, heard>>
      BY <1>3, <2>1, ProgramAssumption DEF Assign, Statement, Acyclic, subVars
    <3>2. Redefining' = {}
      <4>1. stack' = <<Settle>>
        BY <1>3 DEF Assign
      <4>2. Len(stack') = 1 /\ Chain'[1] = Settle
        BY <4>1, ChainStarts
      <4> QED  BY <4>2 DEF Redefining, Settle
    <3> QED  BY <3>1, <3>2
  <2>3. dirty \subseteq dirty' /\ write[1] \in dirty'
    BY <2>1, <2>2, Marked
  <2>4. \A v \in Vars \ dirty' : val'[v] = val[v] /\ v \notin dirty
    BY <2>1, <2>2, <2>3 DEF IInv, TypeOK
  <2> QED  BY <1>1, <1>2, <2>2, <2>4 DEF HeardInv
<1>4. CASE Derive
  <2>1. PICK d \in Derives : /\ subs' = [subs EXCEPT ![d[1]] = {}]
                             /\ stack' = <<Derivation(d[1], d[2])>>
    BY <1>4 DEF Derive
  <2>2. d[1] \in Vars /\ UNCHANGED <<val, dirty, heard>>
    BY <1>4, ProgramAssumption DEF Derive
  <2>3. Redefining' \subseteq {d[1]}
    <3>1. Len(stack') = 1 /\ Chain'[1] = Derivation(d[1], d[2])
      BY <2>1, ChainStarts
    <3> QED  BY <3>1 DEF Redefining, Derivation
  <2>4. subs'[d[1]] = {} /\ \A v \in Vars : subs'[v] \subseteq subs[v]
    BY <2>1, <2>2 DEF IInv, TypeOK
  <2> QED  BY <1>1, <1>2, <2>2, <2>3, <2>4 DEF HeardInv
<1>5. CASE ~Derive /\ \E w \in Unbinds : Unbind(w)
  <2>1. PICK w \in Unbinds : Unbind(w)
    BY <1>5
  <2>2. /\ w \in Vars /\ UNCHANGED <<val, heard>>
        /\ subs' = [subs EXCEPT ![w] = {}]
        /\ dirty \ {w} \subseteq dirty'
    BY <2>1, ProgramAssumption DEF Unbind
  <2>3. subs'[w] = {} /\ \A v \in Vars : v # w => subs'[v] = subs[v]
    BY <2>2 DEF IInv, TypeOK
  <2> QED  BY <1>1, <1>2, <1>5, <2>2, <2>3 DEF HeardInv
<1>6. CASE ~Derive /\ \E s \in Subscriptions : Subscribe(s[1], s[2]) \/ Unsubscribe(s[1], s[2])
  <2>1. PICK s \in Subscriptions : Subscribe(s[1], s[2]) \/ Unsubscribe(s[1], s[2])
    BY <1>6
  <2> DEFINE a == s[1]
             w == s[2]
  <2>2. a \in Actions /\ w \in Vars /\ UNCHANGED <<val, dirty>>
    BY <2>1, ProgramAssumption DEF Subscribe, Unsubscribe
  <2>3. \/ /\ subs' = [subs EXCEPT ![w] = @ \cup {a}]
           /\ heard' = [heard EXCEPT ![w][a] = val[w]]
        \/ /\ subs' = subs \/ subs' = [subs EXCEPT ![w] = @ \ {a}]
           /\ heard' = heard
    BY <2>1 DEF Subscribe, Unsubscribe, subVars
  <2> HIDE DEF a, w
  <2>4. ASSUME NEW v \in Vars \ dirty, NEW fn \in subs'[v]
        PROVE  heard'[v][fn] = val[v]
    <3>1. /\ subs \in [Vars -> SUBSET Actions]
          /\ heard \in [Vars -> [Actions -> Values]]
      BY DEF IInv, TypeOK
    <3>2. CASE /\ subs' = [subs EXCEPT ![w] = @ \cup {a}]
               /\ heard' = [heard EXCEPT ![w][a] = val[w]]
      <4>1. CASE v = w /\ fn = a
        BY <2>2, <3>1, <3>2, <4>1
      <4>2. CASE ~(v = w /\ fn = a)
        <5>1. fn \in subs[v]
          BY <2>4, <3>1, <3>2, <4>2
        <5>2. fn \in Actions
          BY <3>1, <5>1
        <5>3. heard'[v][fn] = heard[v][fn]
          BY <2>2, <3>1, <3>2, <4>2, <5>2
        <5> QED  BY <1>2, <5>1, <5>3
      <4> QED  BY <4>1, <4>2
    <3>3. CASE /\ subs' = subs \/ subs' = [subs EXCEPT ![w] = @ \ {a}]
               /\ heard' = heard
      <4>1. fn \in subs[v]
        BY <2>2, <2>4, <3>1, <3>3
      <4> QED  BY <1>2, <3>3, <4>1
    <3> QED  BY <2>3, <3>2, <3>3
  <2> QED  BY <1>1, <1>6, <2>2, <2>4 DEF HeardInv
<1>7. CASE ~Derive /\ (DeriveRefused \/ Invoke \/ EndProgram \/ StartProgram \/ Event)
  <2>1. UNCHANGED <<val, dirty, subs, heard>>
    BY <1>7 DEF DeriveRefused, Invoke, EndProgram, StartProgram, Event, subVars
  <2> QED  BY <1>1, <1>2, <1>7, <2>1 DEF HeardInv
<1> QED  BY <1>3, <1>4, <1>5, <1>6, <1>7 DEF Program

LEMMA NextHeard ==
  ASSUME IInv, Layout, FramesFit, HeardInv, [Next]_vars, ~LostWrite, ~LostNotice
  PROVE  HeardInv'
<1>1. CASE UNCHANGED vars
  <2>1. Chain' = Chain /\ UNCHANGED <<val, dirty, subs, heard, stack>>
    BY <1>1 DEF vars, subVars, Chain
  <2>2. /\ Redefining' = Redefining /\ Recalculating' = Recalculating
        /\ \A v, fn : Pending(v, fn)' = Pending(v, fn)
    BY <2>1 DEF Redefining, Recalculating, Pending
  <2> QED  BY <2>1, <2>2 DEF HeardInv
<1> QED
  BY <1>1, QuietHeard, NotifyHeard, CallHeard, ChangedHeard, SetHeard, OuterHeard,
     ProgramHeard DEF Next, Engine, OuterStep

-----------------------------------------------------------------------------
(* The theorems about edges, values and subscribers.                       *)

GraphInv == Layout /\ FramesFit /\ EdgesComplete

ValueInv == CleanAgree /\ RecalcInv

LEMMA InitMore ==
  ASSUME Init
  PROVE  GraphInv /\ ValueInv /\ HeardInv
<1>1. Len(stack) = 0
  BY DEF Init
<1>2. \A k \in 1..Len(stack) : FALSE
  BY <1>1
<1>3. ~Recalculating /\ Redefining = {}
  BY <1>1 DEF Recalculating, Redefining
<1>4. Layout /\ FramesFit
  BY <1>2 DEF Layout, FramesFit
<1>5. \A v \in Vars : formula[v] = NoFormula /\ subs[v] = {}
  BY DEF Init
<1> QED
  BY <1>3, <1>4, <1>5 DEF GraphInv, ValueInv, HeardInv, EdgesComplete, Derived,
       CleanAgree, Agree, RecalcInv

\* Neither a definition that fails nor an assignment is a stutter.
LEMMA FailingMoves ==
  ASSUME IInv, GraphInv, vars' = vars
  PROVE  ~RedefinitionFails
<1>1. stack' = stack
  BY DEF vars
<1>2. RedefinitionFails => Len(stack) = 1 /\ Len(stack') = 0
  BY DefinedMove DEF RedefinitionFails, GraphInv
<1> QED  BY <1>1, <1>2

LEMMA SetMoves ==
  ASSUME IInv, vars' = vars
  PROVE  ~LostWrite /\ ~LostNotice /\ ~StaleRead
<1>1. ASSUME Set
      PROVE  FALSE
  <2>1. Chain'[Len(stack)] = NextStep /\ top \in CallFrame /\ stack # <<>>
    BY <1>1, SetMove DEF Became
  <2>2. Chain'[Len(stack)] = top
    <3>1. Chain' = Chain
      BY DEF vars, Chain
    <3> QED  BY <2>1, <3>1, TopOfChain
  <2>3. NextStep.pc = top.pc + 1 /\ top.pc \in Nat
    BY <2>1 DEF NextStep, CallFrame
  <2>4. top.pc = top.pc + 1
    BY <2>1, <2>2, <2>3
  <2> QED  BY <2>3, <2>4
<1> QED  BY <1>1 DEF LostWrite, LostNotice, WriteInRecalc, StaleRead

LEMMA NextGraph ==
  ASSUME IInv, GraphInv, [Next]_vars, ~RedefinitionFails
  PROVE  GraphInv'
BY CallsFit, NextEdges DEF GraphInv

LEMMA NextValues ==
  ASSUME IInv, GraphInv, ValueInv, [Next]_vars, ~RedefinitionFails, ~LostWrite
  PROVE  ValueInv'
BY NextAgree, NextRecalc, RecalculatedAgree DEF GraphInv, ValueInv

\* As long as no redefinition fails, the edges at rest are exactly those of
\* the formulas in force, after any sequence of definitions, redefinitions,
\* unbindings and events.
THEOREM EdgesExact ==
  Spec /\ [][~RedefinitionFails]_vars => []EdgesMatch
<1>1. Init => IInv /\ GraphInv
  BY InitInv, InitMore
<1>2. IInv /\ GraphInv /\ [Next]_vars /\ [~RedefinitionFails]_vars
        => IInv' /\ GraphInv'
  BY FailingMoves, NextInv, NextGraph
<1>3. IInv /\ GraphInv => EdgesMatch
  <2> SUFFICES ASSUME IInv, GraphInv, AtRest, NEW u \in Vars, NEW v \in Vars
               PROVE  v \in adj[u] <=> Derived(v) /\ u \in Range(Deps[formula[v]])
    BY DEF EdgesMatch
  <2>1. Redefining = {}
    <3>1. Len(stack) = 0
      BY DEF AtRest
    <3> QED  BY <3>1 DEF Redefining
  <2>2. v \in adj[u] => Derived(v) /\ u \in Range(Deps[formula[v]])
    BY NamesAssumption DEF IInv, EdgesSound, Derived
  <2>3. Derived(v) /\ u \in Range(Deps[formula[v]]) => v \in adj[u]
    BY <2>1 DEF GraphInv, EdgesComplete
  <2> QED  BY <2>2, <2>3
<1> QED  BY <1>1, <1>2, <1>3, PTL DEF Spec

\* As long as no redefinition fails and no write is lost inside a
\* recalculation, every unmarked derived variable agrees at rest with its
\* formula.
THEOREM DerivedAgree ==
  Spec /\ [][~RedefinitionFails]_vars /\ [][~LostWrite]_vars => []DerivedCurrent
<1>1. Init => IInv /\ GraphInv /\ ValueInv
  BY InitInv, InitMore
<1>2. IInv /\ GraphInv /\ ValueInv /\ [Next]_vars
        /\ [~RedefinitionFails]_vars /\ [~LostWrite]_vars
        => IInv' /\ GraphInv' /\ ValueInv'
  BY FailingMoves, SetMoves, NextInv, NextGraph, NextValues
<1>3. IInv /\ GraphInv /\ ValueInv => DerivedCurrent
  <2> SUFFICES ASSUME IInv, ValueInv, AtRest, Acyclic, NEW v \in Vars \ dirty,
                      Derived(v), Formula(v) \in Values
               PROVE  Shown(val[v]) = Shown(Formula(v))
    BY DEF DerivedCurrent
  <2>1. Redefining = {}
    <3>1. Len(stack) = 0
      BY DEF AtRest
    <3> QED  BY <3>1 DEF Redefining
  <2>2. Agree(val, formula, v)
    BY <2>1 DEF ValueInv, CleanAgree
  <2> QED  BY <2>2 DEF Agree, Value, Formula, Derived
<1> QED  BY <1>1, <1>2, <1>3, PTL DEF Spec

\* As long as nothing that others read or subscribe to is written inside a
\* recalculation, every subscriber has heard, at rest, the value of every
\* unmarked variable that it subscribes to.
THEOREM SubscribersInformed ==
  Spec /\ [][~LostWrite]_vars /\ [][~LostNotice]_vars => []SubscribersCurrent
<1> DEFINE Calm == Layout /\ FramesFit /\ HeardInv
<1>1. Init => IInv /\ Calm
  BY InitInv, InitMore DEF GraphInv
<1>2. IInv /\ Calm /\ [Next]_vars /\ [~LostWrite]_vars /\ [~LostNotice]_vars
        => IInv' /\ Calm'
  BY SetMoves, NextInv, CallsFit, NextHeard
<1>3. IInv /\ Calm => SubscribersCurrent
  <2> SUFFICES ASSUME HeardInv, AtRest, NEW v \in Vars \ dirty, NEW fn \in subs[v]
               PROVE  heard[v][fn] = val[v]
    BY DEF Calm, SubscribersCurrent
  <2>1. Len(stack) = 0
    BY DEF AtRest
  <2> QED  BY <2>1 DEF HeardInv, Pending
<1> HIDE DEF Calm
<1> QED  BY <1>1, <1>2, <1>3, PTL DEF Spec

-----------------------------------------------------------------------------
(* What the variables mean.  Formulas that do not lead back to themselves  *)
(* have exactly one solution, and Meaning is it.                           *)

ReadsOf(g, v) == IF g[v] = NoFormula THEN {} ELSE Range(Deps[g[v]])

\* No formula leads back to itself: every set of variables has one that reads
\* no other of the set.
Founded(g) ==
  \A B \in SUBSET Vars : B # {} => \E v \in B : ReadsOf(g, v) \cap B = {}

\* The value of v when the variables it reads have those of h.
Local(w, g, h, v) == IF g[v] = NoFormula THEN w[v] ELSE Value(h, g[v])

ClosedUnder(g, S) == S \subseteq Vars /\ \A v \in S : ReadsOf(g, v) \subseteq S

Solves(w, g, S, h) == h = [v \in S |-> Local(w, g, h, v)]

LEMMA LocalSame ==
  ASSUME NEW w, NEW g \in [Vars -> Formulas \cup {NoFormula}], NEW v \in Vars,
         NEW h, NEW k, \A u \in ReadsOf(g, v) : h[u] = k[u]
  PROVE  Local(w, g, h, v) = Local(w, g, k, v)
<1>1. CASE g[v] = NoFormula
  BY <1>1 DEF Local
<1>2. CASE g[v] # NoFormula
  <2>1. \A i \in DOMAIN Deps[g[v]] : h[Deps[g[v]][i]] = k[Deps[g[v]][i]]
    BY <1>2 DEF ReadsOf, Range
  <2>2. Value(h, g[v]) = Value(k, g[v])
    BY <2>1 DEF Value
  <2> QED  BY <1>2, <2>2 DEF Local
<1> QED  BY <1>1, <1>2

LEMMA SolutionsAgree ==
  ASSUME NEW w, NEW g \in [Vars -> Formulas \cup {NoFormula}], Founded(g),
         NEW S, NEW h, ClosedUnder(g, S), Solves(w, g, S, h),
         NEW T, NEW k, ClosedUnder(g, T), Solves(w, g, T, k)
  PROVE  \A v \in S \cap T : h[v] = k[v]
<1> DEFINE B == {v \in S \cap T : h[v] # k[v]}
<1>1. SUFFICES ASSUME B # {}
               PROVE  FALSE
  OBVIOUS
<1>2. PICK v \in B : ReadsOf(g, v) \cap B = {}
  BY <1>1 DEF Founded, ClosedUnder
<1>3. v \in Vars /\ v \in S /\ v \in T /\ h[v] # k[v]
  BY <1>2 DEF ClosedUnder
<1>4. \A u \in ReadsOf(g, v) : h[u] = k[u]
  BY <1>2, <1>3 DEF ClosedUnder
<1>5. Local(w, g, h, v) = Local(w, g, k, v)
  BY <1>3, <1>4, LocalSame
<1>6. h[v] = Local(w, g, h, v) /\ k[v] = Local(w, g, k, v)
  BY <1>3 DEF Solves
<1> QED  BY <1>3, <1>5, <1>6

LEMMA SolutionExists ==
  ASSUME NEW w, NEW g \in [Vars -> Formulas \cup {NoFormula}], Founded(g)
  PROVE  \E h : Solves(w, g, Vars, h)
<1> DEFINE Good == {S \in SUBSET Vars : ClosedUnder(g, S) /\ \E h : Solves(w, g, S, h)}
           U == UNION Good
           sol(S) == CHOOSE h : Solves(w, g, S, h)
           of(v) == CHOOSE S \in Good : v \in S
           k == [v \in U |-> sol(of(v))[v]]
<1>1. \A S \in Good : ClosedUnder(g, S) /\ Solves(w, g, S, sol(S))
  OBVIOUS
<1>2. \A v \in U : of(v) \in Good /\ v \in of(v)
  OBVIOUS
<1>3. \A S \in Good : \A v \in S : v \in U /\ k[v] = sol(S)[v]
  <2> SUFFICES ASSUME NEW S \in Good, NEW v \in S
               PROVE  v \in U /\ k[v] = sol(S)[v]
    OBVIOUS
  <2>1. v \in U /\ v \in S \cap of(v) /\ of(v) \in Good
    BY <1>2
  <2> HIDE DEF sol, of, Good
  <2>2. sol(of(v))[v] = sol(S)[v]
    BY <1>1, <2>1, SolutionsAgree
  <2> QED  BY <2>1, <2>2
<1>4. ClosedUnder(g, U)
  BY <1>1 DEF ClosedUnder
<1>5. \A v \in U : k[v] = Local(w, g, k, v)
  <2> SUFFICES ASSUME NEW S \in Good, NEW v \in S
               PROVE  k[v] = Local(w, g, k, v)
    OBVIOUS
  <2> HIDE DEF sol, of, Good, k
  <2>1. ClosedUnder(g, S) /\ Solves(w, g, S, sol(S))
    BY <1>1
  <2>2. \A u \in ReadsOf(g, v) : k[u] = sol(S)[u]
    BY <1>3, <2>1 DEF ClosedUnder
  <2>3. Local(w, g, sol(S), v) = Local(w, g, k, v)
    BY <2>1, <2>2, LocalSame DEF ClosedUnder
  <2>4. sol(S)[v] = Local(w, g, sol(S), v)
    BY <2>1 DEF Solves
  <2> QED  BY <1>3, <2>3, <2>4
<1>6. ASSUME U # Vars
      PROVE  FALSE
  <2>1. U \subseteq Vars
    OBVIOUS
  <2> HIDE DEF Good, U, k
  <2>2. Vars \ U # {} /\ Vars \ U \in SUBSET Vars
    BY <1>6, <2>1
  <2>3. PICK v \in Vars \ U : ReadsOf(g, v) \cap (Vars \ U) = {}
    BY <2>2 DEF Founded
  <2>4. ReadsOf(g, v) \subseteq U
    <3>1. ReadsOf(g, v) \subseteq Vars
      BY <2>3, ReadsVars DEF ReadsOf
    <3> QED  BY <2>3, <3>1
  <2> DEFINE V == U \cup {v}
             m == [u \in V |-> IF u \in U THEN k[u] ELSE Local(w, g, k, v)]
  <2>5. ClosedUnder(g, V)
    BY <1>4, <2>1, <2>3, <2>4 DEF ClosedUnder
  <2>6. \A u \in V : m[u] = Local(w, g, m, u)
    <3> SUFFICES ASSUME NEW u \in V
                 PROVE  m[u] = Local(w, g, m, u)
      OBVIOUS
    <3>1. ReadsOf(g, u) \subseteq U /\ u \in Vars
      BY <1>4, <2>1, <2>3, <2>4 DEF ClosedUnder
    <3>2. \A t \in ReadsOf(g, u) : m[t] = k[t]
      BY <3>1
    <3>3. m[u] = Local(w, g, k, u)
      BY <1>5
    <3> HIDE DEF m, V
    <3> QED  BY <3>1, <3>2, <3>3, LocalSame
  <2>7. Solves(w, g, V, m)
    <3>1. m = [u \in V |-> m[u]]
      OBVIOUS
    <3> HIDE DEF m, V
    <3> QED  BY <2>6, <3>1 DEF Solves
  <2>8. V \in Good
    <3> HIDE DEF m
    <3> QED  BY <2>1, <2>3, <2>5, <2>7 DEF Good
  <2> QED  BY <2>3, <2>8 DEF U
<1>7. Solves(w, g, U, k)
  <2>1. k = [v \in U |-> k[v]]
    OBVIOUS
  <2> HIDE DEF k, U
  <2> QED  BY <1>5, <2>1 DEF Solves
<1> HIDE DEF U, k
<1> QED  BY <1>6, <1>7

\* The recursive definition of Meaning defines something.
LEMMA MeaningSolves ==
  ASSUME formula \in [Vars -> Formulas \cup {NoFormula}], Founded(formula)
  PROVE  \A v \in Vars : Meaning[v] = Local(val, formula, Meaning, v)
<1> DEFINE Is(h) == h = [v \in Vars |->
             IF Derived(v) THEN Apply(formula[v], [i \in DOMAIN Deps[formula[v]] |->
                                                     h[Deps[formula[v]][i]]])
                           ELSE val[v]]
<1>1. \A h : Is(h) <=> Solves(val, formula, Vars, h)
  BY DEF Solves, Local, Value, Derived
<1>2. \E h : Is(h)
  <2> HIDE DEF Is
  <2>1. \E h : Solves(val, formula, Vars, h)
    BY SolutionExists
  <2> QED  BY <1>1, <2>1
<1>3. Meaning = CHOOSE h : Is(h)
  BY DEF Meaning
<1>4. Is(Meaning)
  BY <1>2, <1>3
<1>5. Solves(val, formula, Vars, Meaning)
  BY <1>1, <1>4
<1> QED  BY <1>5 DEF Solves

LEMMA ReachCloses ==
  ASSUME adj \in [Vars -> SUBSET Vars], NEW v \in Vars
  PROVE  v \in Reach(v) /\ \A u \in Reach(v) : adj[u] \subseteq Reach(v)
<1>1. v \in Reach(v)
  BY DEF Reach, Walk
<1>2. ASSUME NEW u \in Reach(v), NEW x \in adj[u]
      PROVE  x \in Reach(v)
  <2>1. u \in Vars /\ x \in Vars
    BY <1>2 DEF Reach, Walk
  <2>2. ASSUME NEW T \in SUBSET Vars, v \in T, \A w \in T \ {} : adj[w] \subseteq T
        PROVE  x \in T
    <3>1. u \in T
      BY <1>2, <2>2 DEF Reach, Walk
    <3> QED  BY <1>2, <2>2, <3>1
  <2> QED  BY <2>1, <2>2 DEF Reach, Walk
<1> QED  BY <1>1, <1>2

FoundedInv == Acyclic => Founded(formula)

\* A formula that reads nothing its variable leads to closes no cycle.
LEMMA DefinedFounded ==
  ASSUME IInv, Layout, EdgesComplete, FoundedInv, DeriveSucceeds, Acyclic'
  PROVE  Founded(formula')
<1> DEFINE v == top.var
           f == top.formula
           R == Reach(v)
<1>1. /\ v \in Vars /\ f \in Formulas /\ Redefining = {v} /\ Acyclic
      /\ formula' = [formula EXCEPT ![v] = f]
      /\ Range(Deps[f]) \cap R = {}
  <2>1. v \in Vars /\ f \in Formulas /\ Redefining = {v}
    BY DefinedMove DEF DeriveFrame
  <2>2. Acyclic
    BY EngineRuns DEF Engine
  <2> QED  BY <2>1, <2>2 DEF DeriveSucceeds, ClosesCycle, Acyclic
<1>2. v \in R /\ \A u \in R : adj[u] \subseteq R
  BY <1>1, ReachCloses DEF IInv, TypeOK
<1>3. formula \in [Vars -> Formulas \cup {NoFormula}]
  BY DEF IInv, TypeOK
<1>4. \A w \in Vars : w # v => formula'[w] = formula[w]
  BY <1>1, <1>3
<1>5. ReadsOf(formula', v) = Range(Deps[f])
  BY <1>1, <1>3, NamesAssumption DEF ReadsOf
<1>6. \A w \in Vars : w # v => ReadsOf(formula', w) = ReadsOf(formula, w)
  BY <1>4 DEF ReadsOf
<1> HIDE DEF v, f, R
<1>7. \A w \in Vars : \A u \in ReadsOf(formula, w) : w # v => w \in adj[u]
  BY <1>1, <1>3 DEF EdgesComplete, ReadsOf, Derived
<1>8. ASSUME NEW B \in SUBSET Vars, B # {}
      PROVE  \E w \in B : ReadsOf(formula', w) \cap B = {}
  <2>1. CASE B \ R # {}
    <3>1. PICK w \in B \ R : ReadsOf(formula, w) \cap (B \ R) = {}
      BY <1>1, <1>8, <2>1 DEF FoundedInv, Founded
    <3>2. w \in Vars /\ w # v
      BY <1>2, <1>8, <3>1
    <3>3. ReadsOf(formula, w) \cap R = {}
      BY <1>2, <1>7, <3>1, <3>2
    <3> QED  BY <1>6, <3>1, <3>2, <3>3
  <2>2. CASE B \subseteq R
    <3>1. PICK w \in B : ReadsOf(formula, w) \cap B = {}
      BY <1>1, <1>8 DEF FoundedInv, Founded
    <3> QED  BY <1>1, <1>5, <1>6, <1>8, <2>2, <3>1
  <2> QED  BY <2>1, <2>2
<1> QED  BY <1>8 DEF Founded

LEMMA NextFounded ==
  ASSUME IInv, Layout, FramesFit, EdgesComplete, FoundedInv, [Next]_vars
  PROVE  FoundedInv'
<1>1. CASE DeriveSucceeds
  BY <1>1, DefinedFounded DEF FoundedInv
<1>2. CASE \E w \in Unbinds : Unbind(w)
  <2>1. PICK w \in Unbinds : formula' = [formula EXCEPT ![w] = NoFormula] /\ mode' = mode
    BY <1>2 DEF Unbind
  <2>2. \A v \in Vars : ReadsOf(formula', v) \subseteq ReadsOf(formula, v)
    BY <2>1 DEF ReadsOf, IInv, TypeOK
  <2>3. ASSUME Founded(formula)
        PROVE  Founded(formula')
    BY <2>2, <2>3 DEF Founded
  <2> QED  BY <2>1, <2>3 DEF FoundedInv, Acyclic
<1>3. CASE ~DeriveSucceeds /\ ~(\E w \in Unbinds : Unbind(w))
  <2>1. formula' = formula
    <3>1. CASE Derive
      BY <3>1 DEF Derive
    <3>2. CASE DeriveFails
      BY <3>2 DEF DeriveFails, graphVars
    <3> QED  BY <1>3, <3>1, <3>2, SameGraph
  <2>2. Acyclic' => Acyclic
    <3>1. CASE Engine
      BY <3>1, EngineRuns
    <3>2. CASE Program
      BY <3>2 DEF Program, Assign, Derive, DeriveRefused, Invoke, Unbind, Subscribe,
           Unsubscribe, EndProgram, StartProgram, Event, Statement, Acyclic
    <3>3. CASE UNCHANGED vars
      BY <3>3 DEF vars, Acyclic
    <3> QED  BY <3>1, <3>2, <3>3 DEF Next
  <2> QED  BY <2>1, <2>2 DEF FoundedInv
<1> QED  BY <1>1, <1>2, <1>3

-----------------------------------------------------------------------------
(* Fresh reads, for programs whose formulas fail always or never and whose *)
(* values are told apart when they are displayed.                          *)

ArgsOf(f) == [DOMAIN Deps[f] -> Values]

HasValue(f) == \A args \in ArgsOf(f) : Apply(f, args) \in Values

AlwaysOrNever ==
  \A f \in Formulas : (\E args \in ArgsOf(f) : Apply(f, args) \in Values) => HasValue(f)

\* So the formulas in force, which had a value when they were defined, have one.
Valued == \A v \in Vars : Derived(v) => HasValue(formula[v])

Exact == \A w, x \in Values : Shown(w) = Shown(x) => w = x

LEMMA ValueInValues ==
  ASSUME NEW w \in [Vars -> Values], NEW f \in Formulas, HasValue(f)
  PROVE  Value(w, f) \in Values
<1>1. \A i \in DOMAIN Deps[f] : Deps[f][i] \in Vars
  BY ReadsVars DEF Range
<1>2. [i \in DOMAIN Deps[f] |-> w[Deps[f][i]]] \in [DOMAIN Deps[f] -> Values]
  BY <1>1
<1> QED  BY <1>2 DEF HasValue, ArgsOf, Value

\* Unmarked variables have the value they mean: what they read is unmarked.
LEMMA UnmarkedMeans ==
  ASSUME IInv, Founded(formula), Valued, Exact,
         \A v \in Vars \ dirty : /\ ReadsOf(formula, v) \cap dirty = {}
                                 /\ Agree(val, formula, v)
  PROVE  \A v \in Vars \ dirty : val[v] = Meaning[v]
<1> DEFINE B == {v \in Vars \ dirty : val[v] # Meaning[v]}
<1>1. SUFFICES ASSUME B # {}
               PROVE  FALSE
  OBVIOUS
<1>2. PICK v \in B : ReadsOf(formula, v) \cap B = {}
  BY <1>1 DEF Founded
<1>3. v \in Vars /\ v \notin dirty /\ val[v] # Meaning[v]
  BY <1>2
<1>4. formula \in [Vars -> Formulas \cup {NoFormula}] /\ val \in [Vars -> Values]
  BY DEF IInv, TypeOK
<1>5. ReadsOf(formula, v) \subseteq Vars
  BY <1>3, <1>4, ReadsVars DEF ReadsOf
<1>6. \A u \in ReadsOf(formula, v) : val[u] = Meaning[u]
  BY <1>2, <1>3, <1>5
<1>7. Meaning[v] = Local(val, formula, val, v)
  BY <1>3, <1>4, <1>6, MeaningSolves, LocalSame
<1>8. CASE formula[v] = NoFormula
  BY <1>3, <1>7, <1>8 DEF Local
<1>9. CASE formula[v] # NoFormula
  <2>1. Value(val, formula[v]) \in Values
    BY <1>3, <1>4, <1>9, ValueInValues DEF Valued, Derived
  <2>2. Shown(val[v]) = Shown(Value(val, formula[v]))
    BY <1>3, <1>9, <2>1 DEF Agree
  <2>3. val[v] = Value(val, formula[v])
    BY <1>3, <1>4, <2>1, <2>2 DEF Exact
  <2> QED  BY <1>3, <1>7, <1>9, <2>3 DEF Local
<1> QED  BY <1>8, <1>9

\* What the variable being redefined still reads by its old formula is not
\* marked, unless it is marked itself.
RedefinedClean ==
  Acyclic => \A v \in Redefining \ dirty :
               ReadsOf(formula, v) \cap dirty = {} /\ Agree(val, formula, v)

LEMMA UnmarkedClean ==
  ASSUME IInv, EdgesComplete, CleanAgree, RedefinedClean, Acyclic
  PROVE  \A v \in Vars \ dirty : /\ ReadsOf(formula, v) \cap dirty = {}
                                 /\ Agree(val, formula, v)
<1> SUFFICES ASSUME NEW v \in Vars \ dirty
             PROVE  ReadsOf(formula, v) \cap dirty = {} /\ Agree(val, formula, v)
  OBVIOUS
<1>1. CASE v \in Redefining
  BY <1>1 DEF RedefinedClean
<1>2. CASE v \notin Redefining
  <2>1. Agree(val, formula, v)
    BY <1>2 DEF CleanAgree
  <2>2. \A u \in ReadsOf(formula, v) : v \in adj[u]
    BY <1>2 DEF EdgesComplete, ReadsOf, Derived
  <2>3. \A u \in dirty : adj[u] \subseteq dirty
    BY DEF IInv, DirtyClosed
  <2> QED  BY <2>1, <2>2, <2>3
<1> QED  BY <1>1, <1>2

LEMMA MeaningNow ==
  ASSUME IInv, EdgesComplete, CleanAgree, RedefinedClean, FoundedInv, Acyclic,
         Valued, Exact
  PROVE  \A v \in Vars : /\ Meaning[v] = Local(val, formula, Meaning, v)
                         /\ v \notin dirty => val[v] = Meaning[v]
<1>1. formula \in [Vars -> Formulas \cup {NoFormula}] /\ Founded(formula)
  BY DEF IInv, TypeOK, FoundedInv
<1> QED  BY <1>1, MeaningSolves, UnmarkedClean, UnmarkedMeans

\* The meaning of variables that do not read what a step writes stays.
LEMMA MeaningStays ==
  ASSUME IInv, Founded(formula), formula' = formula, NEW S, ClosedUnder(formula, S),
         \A v \in S : formula[v] = NoFormula => val'[v] = val[v]
  PROVE  \A v \in S : Meaning'[v] = Meaning[v]
<1> DEFINE h == [v \in S |-> Meaning[v]]
           k == [v \in S |-> Meaning'[v]]
<1>1. formula \in [Vars -> Formulas \cup {NoFormula}] /\ S \subseteq Vars
  BY DEF IInv, TypeOK, ClosedUnder
<1>2. \A v \in Vars : Meaning[v] = Local(val, formula, Meaning, v)
  BY <1>1, MeaningSolves
<1>3. \A v \in Vars : Meaning'[v] = Local(val', formula, Meaning', v)
  <2> DEFINE Is(x) == x = [v \in Vars |->
               IF formula'[v] # NoFormula
                 THEN Apply(formula'[v], [i \in DOMAIN Deps[formula'[v]] |->
                                            x[Deps[formula'[v]][i]]])
                 ELSE val'[v]]
  <2>1. \A x : Is(x) <=> Solves(val', formula, Vars, x)
    BY DEF Solves, Local, Value
  <2>2. Meaning' = CHOOSE x : Is(x)
    BY DEF Meaning, Derived
  <2> HIDE DEF Is
  <2>3. \E x : Solves(val', formula, Vars, x)
    BY <1>1, SolutionExists
  <2>4. Solves(val', formula, Vars, Meaning')
    BY <2>1, <2>2, <2>3
  <2> QED  BY <2>4 DEF Solves
<1>4. \A v \in S : h[v] = Local(val, formula, h, v)
  BY <1>1, <1>2, LocalSame DEF ClosedUnder
<1>5. \A v \in S : k[v] = Local(val, formula, k, v)
  <2> SUFFICES ASSUME NEW v \in S
               PROVE  k[v] = Local(val, formula, k, v)
    OBVIOUS
  <2>1. \A u \in ReadsOf(formula, v) : k[u] = Meaning'[u]
    BY DEF ClosedUnder
  <2>2. Local(val', formula, Meaning', v) = Local(val', formula, k, v)
    BY <1>1, <2>1, LocalSame
  <2>3. Local(val', formula, k, v) = Local(val, formula, k, v)
    BY DEF Local
  <2> QED  BY <1>1, <1>3, <2>2, <2>3
<1>6. Solves(val, formula, S, h) /\ Solves(val, formula, S, k)
  <2>1. h = [v \in S |-> h[v]] /\ k = [v \in S |-> k[v]]
    OBVIOUS
  <2> HIDE DEF h, k
  <2> QED  BY <1>4, <1>5, <2>1 DEF Solves
<1>7. \A v \in S \cap S : h[v] = k[v]
  <2> HIDE DEF h, k
  <2> QED  BY <1>1, <1>6, SolutionsAgree
<1> QED  BY <1>7

-----------------------------------------------------------------------------
(* What the calls in progress have read.                                   *)

Evaluator(fr) == fr.op \in {"update", "derive", "call"}

Names(fr) == Deps[FormulaOf(fr)]

\* The name whose refresh a call has asked for.
AskedFor(fr) == Names(fr)[Len(fr.args) + 1]

FreshFrame(m, fr) ==
  /\ fr.args # <<>> \/ fr.asked => Evaluates(fr)
  /\ fr.asked => Len(fr.args) < Len(Names(fr))
  /\ Evaluates(fr) => Len(fr.args) <= Len(Names(fr))
  /\ \A i \in 1..Len(fr.args) : fr.args[i] = m[Names(fr)[i]]

Answered(m, w, fr) == w[AskedFor(fr)] = m[AskedFor(fr)]

Innermost(m, w, fr) == FreshFrame(m, fr) /\ (fr.asked => Answered(m, w, fr))

\* Inside a call that evaluates there is the refresh that it has asked for, or
\* the notification that comes of it.
Waiting(m, w, fr, up) ==
  /\ FreshFrame(m, fr) /\ fr.asked
  /\ \/ up.op = "update" /\ up.var = AskedFor(fr)
     \/ up.op = "notify" /\ Answered(m, w, fr)

FreshCalls ==
  Acyclic =>
    \A k \in 1..Len(stack) : Evaluator(Chain[k]) =>
      IF k = Len(stack) THEN Innermost(Meaning, val, Chain[k])
                        ELSE Waiting(Meaning, val, Chain[k], Chain[k + 1])

LEMMA FrameNames ==
  ASSUME NEW fr \in Frame, Evaluates(fr)
  PROVE  /\ FormulaOf(fr) \in Formulas /\ Names(fr) \in Seq(Vars)
         /\ Range(Names(fr)) \subseteq Vars /\ fr.args \in Seq(Values)
<1>1. FormulaOf(fr) \in Formulas /\ fr.args \in Seq(Values)
  <2>1. CASE fr.op = "call"
    <3>1. fr \in CallFrame /\ fr.pc <= Len(Body[fr.fn])
      BY <2>1, FrameKinds DEF Evaluates
    <3>2. Body[fr.fn] \in Seq([op : {"if", "set"}, var : Vars, formula : Formulas])
      BY <3>1, ProgramAssumption DEF CallFrame
    <3>3. fr.pc \in 1..Len(Body[fr.fn])
      BY <3>1, <3>2 DEF CallFrame
    <3>4. Body[fr.fn][fr.pc] \in [op : {"if", "set"}, var : Vars, formula : Formulas]
      BY <3>2, <3>3, ElementOfSeq
    <3>5. Body[fr.fn][fr.pc].formula \in Formulas
      BY <3>4
    <3> QED  BY <2>1, <3>1, <3>5 DEF FormulaOf, CallFrame
  <2>2. CASE fr.op = "update"
    BY <2>2, FrameKinds DEF FormulaOf, UpdateFrame
  <2>3. CASE fr.op = "derive"
    BY <2>3, FrameKinds DEF FormulaOf, DeriveFrame
  <2> QED  BY <2>1, <2>2, <2>3 DEF Evaluates
<1> QED  BY <1>1, NamesAssumption, ReadsVars DEF Names

LEMMA FreshNames ==
  ASSUME NEW fr \in Frame, NEW m, FreshFrame(m, fr)
  PROVE  /\ \A i \in 1..Len(fr.args) : Names(fr)[i] \in Range(Names(fr))
         /\ fr.asked => AskedFor(fr) \in Range(Names(fr))
<1>1. CASE fr.args # <<>> \/ fr.asked
  <2>1. Evaluates(fr) /\ Names(fr) \in Seq(Vars) /\ fr.args \in Seq(Values)
    BY <1>1, FrameNames DEF FreshFrame
  <2> DEFINE n == Len(fr.args)
             p == Len(Names(fr))
  <2>2. n \in Nat /\ p \in Nat /\ DOMAIN Names(fr) = 1..p
    BY <2>1, LenProperties
  <2>3. n <= p /\ (fr.asked => n < p)
    BY <2>1 DEF FreshFrame
  <2>4. \A i \in 1..p : Names(fr)[i] \in Range(Names(fr))
    BY <2>2 DEF Range
  <2> HIDE DEF n, p
  <2>5. (\A i \in 1..n : i \in 1..p) /\ (fr.asked => n + 1 \in 1..p)
    BY <2>2, <2>3
  <2> QED  BY <2>4, <2>5 DEF AskedFor, n, p
<1>2. CASE fr.args = <<>> /\ ~fr.asked
  <2>1. \A i \in 1..Len(fr.args) : FALSE
    BY <1>2
  <2> QED  BY <1>2, <2>1
<1> QED  BY <1>1, <1>2

LEMMA FreshSame ==
  ASSUME NEW fr \in Frame, NEW m, FreshFrame(m, fr),
         NEW x, \A u \in Range(Names(fr)) : x[u] = m[u]
  PROVE  FreshFrame(x, fr)
BY FreshNames DEF FreshFrame

LEMMA FreshStart ==
  ASSUME NEW fr \in Frame, Evaluator(fr), fr.args = <<>>, fr.asked = FALSE, NEW m, NEW w
  PROVE  Innermost(m, w, fr) /\ FreshFrame(m, fr)
<1>1. Evaluates(fr) => Len(Names(fr)) \in Nat
  BY FrameNames, LenProperties
<1>2. Len(fr.args) = 0
  OBVIOUS
<1>3. \A i \in 1..Len(fr.args) : FALSE
  BY <1>2
<1> QED  BY <1>1, <1>2, <1>3 DEF FreshFrame, Innermost

\* The step does not change what u means, nor that it has that value.
Steady(u) == /\ Meaning'[u] = Meaning[u]
             /\ val[u] = Meaning[u] => val'[u] = Meaning'[u]

\* What the step leaves below is what the call below was waiting for.
Answers == /\ top.op = "update" => val'[top.var] = Meaning'[top.var]

LEMMA FreshMoves ==
  ASSUME IInv, stack # <<>>, FreshCalls, Acyclic,
         \A k \in 1..Len(stack) - 1 : Evaluator(Chain[k]) =>
           \A u \in Range(Names(Chain[k])) : Steady(u),
         NEW x, NEW y,
         \/ Returned /\ Answers
         \/ /\ \/ /\ Became(x)
                  /\ Evaluator(x) => Innermost(Meaning', val', x)
               \/ /\ Called(x, y)
                  /\ Evaluator(x) => /\ FreshFrame(Meaning', x) /\ x.asked
                                     /\ y.op = "update" /\ y.var = AskedFor(x)
                  /\ Evaluator(y) => Innermost(Meaning', val', y)
            /\ \/ x.op = "update" /\ top.op = "update" /\ x.var = top.var
               \/ x.op = "notify" /\ Answers
               \/ top.op \notin {"update", "notify"}
  PROVE  FreshCalls'
<1> DEFINE n == Len(stack)
           m == Meaning'
           w == val'
<1>1. n \in Nat \ {0} /\ Chain[n] = top
  BY ChainMoves, TopFrame
<1>2. \A k \in 1..n : Evaluator(Chain[k]) =>
        IF k = n THEN Innermost(Meaning, val, Chain[k])
                 ELSE Waiting(Meaning, val, Chain[k], Chain[k + 1])
  BY DEF FreshCalls
<1>3. /\ \A k \in 1..n - 1 : Chain'[k] = Chain[k]
      /\ \/ Len(stack') = n - 1 /\ Answers
         \/ /\ \/ /\ Len(stack') = n /\ Chain'[n] = x
                  /\ Evaluator(x) => Innermost(m, w, x)
               \/ /\ Len(stack') = n + 1 /\ Chain'[n] = x /\ Chain'[n + 1] = y
                  /\ Evaluator(x) => /\ FreshFrame(m, x) /\ x.asked
                                     /\ y.op = "update" /\ y.var = AskedFor(x)
                  /\ Evaluator(y) => Innermost(m, w, y)
            /\ \/ x.op = "update" /\ top.op = "update" /\ x.var = top.var
               \/ x.op = "notify" /\ Answers
               \/ top.op \notin {"update", "notify"}
  BY DEF Returned, Became, Called, Below
<1>4. ASSUME NEW k \in 1..n - 1, Evaluator(Chain[k])
      PROVE  /\ Chain[k] \in Frame /\ FreshFrame(m, Chain[k]) /\ Chain[k].asked
             /\ \/ Chain[k + 1].op = "update" /\ Chain[k + 1].var = AskedFor(Chain[k])
                \/ Chain[k + 1].op = "notify" /\ Answered(m, w, Chain[k])
  <2>1. k \in 1..n /\ k # n
    BY <1>1, <1>4
  <2>2. Chain[k] \in Frame
    BY <2>1, ChainFrames
  <2>3. Waiting(Meaning, val, Chain[k], Chain[k + 1])
    BY <1>2, <1>4, <2>1
  <2>4. \A u \in Range(Names(Chain[k])) : Steady(u)
    BY <1>4
  <2>5. \A u \in Range(Names(Chain[k])) : m[u] = Meaning[u]
    BY <2>4 DEF Steady
  <2>6. FreshFrame(m, Chain[k]) /\ Chain[k].asked
    BY <2>2, <2>3, <2>5, FreshSame DEF Waiting
  <2>7. AskedFor(Chain[k]) \in Range(Names(Chain[k]))
    BY <2>2, <2>6, FreshNames
  <2>8. Answered(Meaning, val, Chain[k]) => Answered(m, w, Chain[k])
    BY <2>4, <2>7 DEF Answered, Steady
  <2> HIDE DEF n, m, w
  <2> QED  BY <2>2, <2>3, <2>6, <2>8 DEF Waiting
<1> HIDE DEF n, m, w
<1>5. ASSUME NEW k \in 1..Len(stack'), Evaluator(Chain'[k])
      PROVE  IF k = Len(stack') THEN Innermost(m, w, Chain'[k])
                                ELSE Waiting(m, w, Chain'[k], Chain'[k + 1])
  <2>1. k \in Nat /\ Len(stack') \in Nat
    BY <1>1, <1>3
  <2>2. CASE k < n - 1
    <3>1. k \in 1..n - 1 /\ k + 1 \in 1..n - 1 /\ k # Len(stack')
      BY <1>1, <1>3, <2>1, <2>2
    <3> QED  BY <1>3, <1>4, <1>5, <3>1 DEF Waiting
  <2>3. CASE k = n - 1
    <3>1. k \in 1..n - 1 /\ k + 1 = n /\ Chain'[k] = Chain[k]
      BY <1>1, <1>3, <2>1, <2>3
    <3>2. /\ FreshFrame(m, Chain'[k]) /\ Chain'[k].asked
          /\ \/ top.op = "update" /\ top.var = AskedFor(Chain'[k])
             \/ top.op = "notify" /\ Answered(m, w, Chain'[k])
      BY <1>1, <1>4, <1>5, <3>1
    <3>3. Answers => Answered(m, w, Chain'[k])
      BY <3>2 DEF Answers, Answered, m, w
    <3>4. CASE Len(stack') = n - 1 /\ Answers
      BY <2>3, <3>2, <3>3, <3>4 DEF Innermost
    <3>5. CASE /\ Len(stack') = n \/ Len(stack') = n + 1
               /\ Chain'[n] = x
               /\ \/ x.op = "update" /\ top.op = "update" /\ x.var = top.var
                  \/ x.op = "notify" /\ Answers
      <4>1. k # Len(stack')
        BY <1>1, <2>3, <3>5
      <4>2. Waiting(m, w, Chain'[k], x)
        BY <3>2, <3>3, <3>5 DEF Waiting
      <4> QED  BY <3>1, <3>5, <4>1, <4>2
    <3>6. top.op \in {"update", "notify"}
      BY <3>2
    <3> QED  BY <1>3, <3>4, <3>5, <3>6
  <2>4. CASE k = n
    <3>1. Len(stack') # n - 1 /\ Chain'[k] = x /\ Evaluator(x)
      BY <1>1, <1>3, <1>5, <2>1, <2>4
    <3>2. CASE Len(stack') = n
      <4>1. Len(stack') # n + 1
        BY <1>1, <3>2
      <4> QED  BY <1>3, <2>4, <3>1, <3>2, <4>1
    <3>3. CASE Len(stack') = n + 1
      <4>1. Len(stack') # n /\ k # Len(stack') /\ k + 1 = n + 1
        BY <1>1, <2>4, <3>3
      <4> QED  BY <1>3, <3>1, <3>3, <4>1 DEF Waiting
    <3> QED  BY <1>3, <3>1, <3>2, <3>3
  <2>5. CASE k > n
    <3>1. Len(stack') = n + 1 /\ k = n + 1 /\ Len(stack') # n /\ Len(stack') # n - 1
      BY <1>1, <1>3, <1>5, <2>1, <2>5
    <3> QED  BY <1>3, <1>5, <3>1
  <2> QED  BY <1>1, <2>1, <2>2, <2>3, <2>4, <2>5
<1> QED  BY <1>5 DEF FreshCalls, m, w

\* A step that writes no variable keeps every meaning.
LEMMA NoWriteSteady ==
  ASSUME UNCHANGED <<val, formula>>
  PROVE  Meaning' = Meaning /\ \A u : Steady(u)
<1>1. Meaning' = Meaning
  BY DEF Meaning, Derived
<1> QED  BY <1>1 DEF Steady

-----------------------------------------------------------------------------
(* Each step of the engine keeps what the calls in progress have read.     *)

\* A call that waits or has read one more name evaluates the same formula.
LEMMA SameCall ==
  ASSUME IInv, stack # <<>>, Evaluates(top), NEW w
  PROVE  LET asks  == [top EXCEPT !.asked = TRUE]
             reads == [top EXCEPT !.args = Append(@, w), !.asked = FALSE]
         IN  /\ FormulaOf(asks) = FormulaOf(top) /\ Evaluates(asks)
             /\ asks.args = top.args /\ asks.asked = TRUE
             /\ FormulaOf(reads) = FormulaOf(top) /\ Evaluates(reads)
             /\ reads.args = Append(top.args, w) /\ reads.asked = FALSE
<1>1. top \in UpdateFrame \cup DeriveFrame \cup CallFrame
  BY Evaluating
<1>2. CASE top \in UpdateFrame \/ top \in DeriveFrame
  BY <1>2 DEF FormulaOf, Evaluates, UpdateFrame, DeriveFrame
<1>3. CASE top \in CallFrame
  BY <1>3 DEF FormulaOf, Evaluates, CallFrame
<1> QED  BY <1>1, <1>2, <1>3

\* What the innermost call has read are meanings.
LEMMA TopFresh ==
  ASSUME IInv, FreshCalls, Acyclic, stack # <<>>, Evaluator(top)
  PROVE  /\ Innermost(Meaning, val, top) /\ FreshFrame(Meaning, top)
         /\ top.asked => Answered(Meaning, val, top)
<1>1. Len(stack) \in 1..Len(stack) /\ Chain[Len(stack)] = top
  BY TopOfChain
<1>2. Innermost(Meaning, val, top)
  BY <1>1 DEF FreshCalls
<1> QED  BY <1>2 DEF Innermost

\* A call that waits for another one evaluates an expression.
LEMMA OlderWaits ==
  ASSUME IInv, FreshCalls, Acyclic, NEW k \in 1..Len(stack) - 1, Evaluator(Chain[k])
  PROVE  /\ Chain[k] \in Frame /\ Evaluates(Chain[k])
         /\ Range(Names(Chain[k])) \subseteq Vars
<1>1. Len(stack) \in Nat
  BY LenProperties DEF IInv, Shape
<1>2. k \in 1..Len(stack) /\ k # Len(stack)
  BY <1>1
<1>3. FreshFrame(Meaning, Chain[k]) /\ Chain[k].asked
  BY <1>2 DEF FreshCalls, Waiting
<1>4. Chain[k] \in Frame /\ Evaluates(Chain[k])
  BY <1>2, <1>3, ChainFrames DEF FreshFrame
<1> QED  BY <1>4, FrameNames

\* A finished evaluation of an update gives what its variable means.
LEMMA ResultMeans ==
  ASSUME IInv, FreshCalls, Acyclic, FoundedInv, Valued,
         Evaluated, top.op = "update", Fits(top)
  PROVE  /\ top.var \in Vars /\ Derived(top.var)
         /\ Result = Meaning[top.var] /\ Result \in Values
<1> DEFINE v == top.var
           f == formula[v]
<1>1. stack # <<>> /\ Evaluates(top) /\ Evaluator(top)
  BY DEF Evaluated, Evaluator
<1>2. v \in Vars /\ f \in Formulas /\ Derived(v) /\ FormulaOf(top) = f
  <2>1. top \in UpdateFrame
    BY <1>1, TopFrame, FrameKinds
  <2> QED  BY <2>1 DEF UpdateFrame, FormulaOf, Fits
<1>3. /\ Deps[f] \in Seq(Vars) /\ top.args \in Seq(Values)
      /\ Len(top.args) = Len(Deps[f])
  BY <1>1, <1>2, Evaluating DEF Evaluated
<1>4. \A i \in 1..Len(top.args) : top.args[i] = Meaning[Deps[f][i]]
  BY <1>1, <1>2, TopFresh DEF FreshFrame, Names
<1> HIDE DEF v, f
<1>5. top.args = [i \in DOMAIN Deps[f] |-> Meaning[Deps[f][i]]]
  BY <1>3, <1>4
<1>6. Result = Apply(f, top.args)
  BY <1>2 DEF Result
<1>7. Result = Value(Meaning, f)
  BY <1>5, <1>6 DEF Value
<1>8. Result \in Values
  <2>1. top.args \in [DOMAIN Deps[f] -> Values]
    BY <1>3
  <2>2. HasValue(f)
    BY <1>2 DEF Valued, f, v
  <2> QED  BY <1>6, <2>1, <2>2 DEF HasValue, ArgsOf
<1>9. Meaning[v] = Local(val, formula, Meaning, v)
  <2>1. formula \in [Vars -> Formulas \cup {NoFormula}] /\ Founded(formula)
    BY DEF IInv, TypeOK, FoundedInv
  <2> QED  BY <1>2, <2>1, MeaningSolves
<1> QED  BY <1>2, <1>7, <1>8, <1>9 DEF Local, Derived, v, f

LEMMA UpdateIsFrame ==
  ASSUME IInv, NEW v \in Vars, Derived(v)
  PROVE  Update(v) \in Frame
BY EmptySeq DEF IInv, TypeOK, Derived, Update, UpdateFrame, Frame

LEMMA NextStepFrame ==
  ASSUME IInv, stack # <<>>, Evaluates(top), top.op = "call"
  PROVE  /\ NextStep \in Frame /\ NextStep.op = "call"
         /\ NextStep.args = <<>> /\ NextStep.asked = FALSE
<1>1. top \in CallFrame
  BY TopFrame, FrameKinds
<1>2. top.arg \in Values
  BY <1>1 DEF CallFrame
<1>3. NextStep \in Frame
  BY <1>2, EvaluationLike
<1> QED  BY <1>1, <1>3 DEF NextStep, CallFrame

LEMMA RefreshFresh ==
  ASSUME IInv, FreshCalls, Acyclic, Refresh
  PROVE  FreshCalls'
<1> DEFINE x == [top EXCEPT !.asked = TRUE]
           y == Update(ToRead)
<1>1. /\ stack # <<>> /\ Evaluates(top) /\ ToRead \in Vars /\ Derived(ToRead)
      /\ Len(top.args) < Len(Deps[FormulaOf(top)])
      /\ UNCHANGED <<val, formula>>
  BY RefreshMove DEF Refresh, Reads, Outdated, graphVars
<1>2. top.op \in {"update", "derive", "call"} /\ Evaluator(top)
  BY <1>1, Evaluating DEF Evaluator
<1>3. PICK w : w \in Values
  BY <1>1 DEF IInv, TypeOK
<1>4. x \in Frame /\ y \in Frame /\ Like(x, top)
  BY <1>1, <1>3, EvaluationLike, UpdateIsFrame
<1>5. /\ FormulaOf(x) = FormulaOf(top) /\ Evaluates(x)
      /\ x.args = top.args /\ x.asked = TRUE
  BY <1>1, SameCall
<1>6. stack' = <<y, x>> \o rest
  BY DEF Refresh
<1>7. y.op = "update" /\ y.var = ToRead /\ y.args = <<>> /\ y.asked = FALSE
  BY DEF Update
<1> HIDE DEF x, y
<1>8. Called(x, y)
  BY <1>1, <1>4, <1>6, ChainMoves
<1>9. Meaning' = Meaning /\ \A u : Steady(u)
  BY <1>1, NoWriteSteady
<1>10. Names(x) = Names(top) /\ AskedFor(x) = ToRead
  BY <1>5 DEF Names, AskedFor, ToRead
<1>11. FreshFrame(Meaning', x)
  <2>1. FreshFrame(Meaning, top)
    BY <1>1, <1>2, TopFresh
  <2> QED  BY <1>1, <1>5, <1>9, <1>10, <2>1 DEF FreshFrame, Names
<1>12. Innermost(Meaning', val', y)
  BY <1>4, <1>7, FreshStart DEF Evaluator
<1>13. x.op = top.op /\ (top.op = "update" => x.var = top.var)
  BY <1>4 DEF Like
<1> QED  BY <1>1, <1>2, <1>5, <1>7, <1>8, <1>9, <1>10, <1>11, <1>12, <1>13, FreshMoves

\* What is known when a fresh value is asked for.
FreshInv == FoundedInv /\ RedefinedClean /\ FreshCalls

LEMMA ReadFresh ==
  ASSUME IInv, GraphInv, CleanAgree, FreshInv, Valued, Exact, Acyclic, Read
  PROVE  FreshCalls'
<1> DEFINE w == val[ToRead]
           x == [top EXCEPT !.args = Append(@, w), !.asked = FALSE]
           n == Len(top.args)
<1>1. /\ stack # <<>> /\ Evaluates(top) /\ ToRead \in Vars /\ w \in Values
      /\ n < Len(Deps[FormulaOf(top)])
      /\ top.asked \/ ~Outdated(ToRead)
      /\ UNCHANGED <<val, formula>>
  BY ReadMove DEF Read, Reads, graphVars, IInv, TypeOK
<1>2. top.op \in {"update", "derive", "call"} /\ Evaluator(top)
  BY <1>1, Evaluating DEF Evaluator
<1>3. x \in Frame /\ Like(x, top)
  BY <1>1, EvaluationLike
<1>4. /\ FormulaOf(x) = FormulaOf(top) /\ Evaluates(x)
      /\ x.args = Append(top.args, w) /\ x.asked = FALSE
  BY <1>1, SameCall
<1>5. stack' = <<x>> \o rest
  BY DEF Read
<1>6. AskedFor(top) = ToRead /\ Names(top) = Deps[FormulaOf(top)]
  BY DEF AskedFor, Names, ToRead
<1>7. w = Meaning[ToRead]
  <2>1. CASE top.asked
    BY <1>1, <1>2, <1>6, <2>1, TopFresh DEF FreshInv, Answered
  <2>2. CASE ToRead \notin dirty
    BY <1>1, <2>2, MeaningNow DEF FreshInv, GraphInv
  <2>3. CASE ~Derived(ToRead)
    BY <1>1, <2>3, MeaningNow DEF FreshInv, GraphInv, Local, Derived
  <2> QED  BY <1>1, <2>1, <2>2, <2>3 DEF Outdated
<1>8. /\ Len(Append(top.args, w)) = n + 1 /\ n \in Nat
      /\ \A i \in 1..n : Append(top.args, w)[i] = top.args[i]
      /\ Append(top.args, w)[n + 1] = w
      /\ Len(Names(top)) \in Nat
  BY <1>1, <1>6, Evaluating, AppendProperties, LenProperties
<1>9. Meaning' = Meaning /\ \A u : Steady(u)
  BY <1>1, NoWriteSteady
<1> HIDE DEF x
<1>10. Became(x)
  BY <1>1, <1>3, <1>5, ChainMoves
<1>11. Names(x) = Names(top)
  BY <1>4 DEF Names
<1>12. FreshFrame(Meaning, x)
  <2>1. \A i \in 1..n : top.args[i] = Meaning[Names(top)[i]]
    BY <1>1, <1>2, TopFresh DEF FreshInv, FreshFrame
  <2>2. w = Meaning[Names(top)[n + 1]]
    BY <1>6, <1>7 DEF AskedFor
  <2>3. \A i \in 1..(n + 1) : i \in 1..n \/ i = n + 1
    BY <1>8
  <2>4. Len(x.args) = n + 1 /\ n + 1 <= Len(Names(x))
    BY <1>1, <1>4, <1>6, <1>8, <1>11
  <2> HIDE DEF n, w
  <2>5. \A i \in 1..Len(x.args) : x.args[i] = Meaning[Names(x)[i]]
    BY <1>4, <1>8, <1>11, <2>1, <2>2, <2>3, <2>4
  <2> QED  BY <1>4, <2>4, <2>5 DEF FreshFrame
<1>13. Innermost(Meaning', val', x)
  BY <1>4, <1>9, <1>12 DEF Innermost
<1>14. x.op = top.op /\ (top.op = "update" => x.var = top.var)
  BY <1>3 DEF Like
<1> QED  BY <1>1, <1>2, <1>9, <1>10, <1>13, <1>14, FreshMoves DEF FreshInv

\* The variable of the innermost update has a reason to be recomputed.
LEMMA TopFits ==
  ASSUME IInv, GraphInv, stack # <<>>
  PROVE  top \in Frame /\ Fits(top)
BY TopOfChain DEF GraphInv, FramesFit

LEMMA UnchangedFresh ==
  ASSUME IInv, GraphInv, FreshInv, Valued, Exact, Acyclic, Unchanged
  PROVE  FreshCalls'
<1>1. /\ stack # <<>> /\ Evaluated /\ top.op = "update"
      /\ ~Changes(top.var, Result) /\ UNCHANGED <<val, formula>>
  BY DEF Unchanged, Evaluated, graphVars
<1>2. /\ top.var \in Vars /\ Result = Meaning[top.var] /\ Result \in Values
  BY <1>1, TopFits, ResultMeans DEF FreshInv
<1>3. val[top.var] = Result
  BY <1>1, <1>2 DEF Changes, Exact, IInv, TypeOK
<1>4. Meaning' = Meaning /\ \A u : Steady(u)
  BY <1>1, NoWriteSteady
<1>5. Returned /\ Answers
  BY <1>1, <1>2, <1>3, <1>4, ReturnMove DEF Answers
<1> QED  BY <1>1, <1>4, <1>5, FreshMoves DEF FreshInv

\* What is written is derived: no meaning changes.
LEMMA ChangedFresh ==
  ASSUME IInv, GraphInv, FreshInv, Valued, Acyclic, Changed
  PROVE  FreshCalls'
<1> DEFINE p == top.var
<1>1. /\ stack # <<>> /\ Evaluated /\ top.op = "update"
      /\ val' = [val EXCEPT ![p] = Result] /\ formula' = formula
      /\ Became(Emit(p)) /\ Emit(p).op = "notify"
  BY ChangedMove DEF Changed, graphVars
<1>2. p \in Vars /\ Derived(p) /\ Result = Meaning[p]
  BY <1>1, TopFits, ResultMeans DEF FreshInv
<1>3. val \in [Vars -> Values] /\ formula \in [Vars -> Formulas \cup {NoFormula}]
  BY DEF IInv, TypeOK
<1> HIDE DEF p
<1>4. val'[p] = Result /\ \A u \in Vars : u # p => val'[u] = val[u]
  BY <1>1, <1>2, <1>3
<1>5. \A u \in Vars : Meaning'[u] = Meaning[u]
  <2>1. ClosedUnder(formula, Vars)
    BY <1>3, ReadsVars DEF ClosedUnder, ReadsOf
  <2>2. \A u \in Vars : formula[u] = NoFormula => val'[u] = val[u]
    BY <1>2, <1>4 DEF Derived
  <2> QED  BY <1>1, <2>1, <2>2, MeaningStays DEF FreshInv, FoundedInv
<1>6. \A u \in Vars : Steady(u)
  BY <1>2, <1>4, <1>5 DEF Steady
<1>7. Answers
  BY <1>2, <1>4, <1>5 DEF Answers, p
<1>8. \A k \in 1..Len(stack) - 1 : Evaluator(Chain[k]) =>
        \A u \in Range(Names(Chain[k])) : Steady(u)
  BY <1>6, OlderWaits DEF FreshInv
<1>9. ~Evaluator(Emit(p))
  BY <1>1 DEF Evaluator
<1> QED  BY <1>1, <1>7, <1>8, <1>9, FreshMoves DEF FreshInv

\* Steps of notifications and actions that write nothing.
LEMMA QuietFresh ==
  ASSUME IInv, FreshCalls, Acyclic,
         NotifyNext \/ CallSubscriber \/ Notified \/ Guard \/ SetFails \/ Return
  PROVE  FreshCalls'
<1>1. stack # <<>> /\ UNCHANGED <<val, formula>>
  BY DEF NotifyNext, CallSubscriber, Notified, Guard, SetFails, Return, Running,
         Evaluated, graphVars
<1>2. \A u : Steady(u)
  BY <1>1, NoWriteSteady
<1>3. CASE Notified \/ Return
  <2>1. Returned /\ top.op # "update"
    BY <1>3, ReturnMove DEF Notified, Return, Running
  <2> QED  BY <1>1, <1>2, <2>1, FreshMoves DEF Answers
<1>4. CASE NotifyNext
  <2>1. top.op = "notify" /\ \E x : Became(x) /\ x.op = "notify"
    BY <1>4, NotifyMove
  <2>2. PICK x : Became(x) /\ x.op = "notify"
    BY <2>1
  <2>3. Answers /\ ~Evaluator(x)
    BY <2>1, <2>2 DEF Answers, Evaluator
  <2> QED  BY <1>1, <1>2, <2>2, <2>3, FreshMoves
<1>5. CASE CallSubscriber
  <2>1. top.op = "notify" /\ \E fn \in top.due : \E x : /\ Called(x, Call(fn, val[top.about]))
                                                     /\ x.op = "notify"
    BY <1>5, SubscriberMove
  <2>2. PICK fn \in top.due : \E x : /\ Called(x, Call(fn, val[top.about]))
                                     /\ x.op = "notify"
    BY <2>1
  <2>3. PICK x : Called(x, Call(fn, val[top.about])) /\ x.op = "notify"
    BY <2>2
  <2> DEFINE y == Call(fn, val[top.about])
  <2>4. y \in Frame /\ y.op = "call" /\ y.args = <<>> /\ y.asked = FALSE
    <3>1. top \in NotifyFrame
      BY <1>5, SubscriberMove
    <3>2. fn \in Actions /\ val[top.about] \in Values
      BY <3>1 DEF NotifyFrame, IInv, TypeOK
    <3> QED  BY <3>2, EmptySeq DEF Call, CallFrame, Frame
  <2> HIDE DEF y
  <2>5. Innermost(Meaning', val', y)
    BY <2>4, FreshStart DEF Evaluator
  <2>6. Answers /\ ~Evaluator(x) /\ Called(x, y)
    BY <2>1, <2>3 DEF Answers, Evaluator, y
  <2> QED  BY <1>1, <1>2, <2>3, <2>5, <2>6, FreshMoves
<1>6. CASE Guard \/ SetFails
  <2>1. /\ top.op = "call" /\ Evaluates(top)
        /\ Returned \/ Became(NextStep)
    BY <1>6, ActionMove DEF Guard, SetFails, Evaluated
  <2>2. NextStep \in Frame /\ NextStep.op = "call" /\ NextStep.args = <<>>
        /\ NextStep.asked = FALSE
    BY <1>1, <2>1, NextStepFrame
  <2>3. Innermost(Meaning', val', NextStep)
    BY <2>2, FreshStart DEF Evaluator
  <2>4. Answers
    BY <2>1 DEF Answers
  <2>5. CASE Returned
    BY <1>1, <1>2, <2>4, <2>5, FreshMoves
  <2>6. CASE Became(NextStep)
    BY <1>1, <1>2, <2>1, <2>3, <2>6, FreshMoves
  <2> QED  BY <2>1, <2>5, <2>6
<1> QED  BY <1>3, <1>4, <1>5, <1>6

\* What is assigned feeds no formula, and no call that waits reads it.
LEMMA SetApart ==
  ASSUME IInv, FreshCalls, Acyclic, Set, ~StaleRead,
         NEW k \in 1..Len(stack) - 1, Evaluator(Chain[k])
  PROVE  ~Feeds(Step.var) /\ Step.var \notin Range(Names(Chain[k]))
<1> DEFINE n == Len(stack)
           i == n + 1 - k
<1>1. n \in Nat \ {0} /\ Evaluates(Chain[k])
  BY SetMove, TopOfChain, OlderWaits
<1>2. i \in 2..n /\ k \in 1..n
  BY <1>1
<1>3. Chain[k] = stack[i]
  BY <1>2 DEF Chain
<1> HIDE DEF i
<1> QED  BY <1>1, <1>2, <1>3 DEF StaleRead, Names

\* No call in progress has anything to do with what is assigned: nothing that
\* it reads leads to it.
LEMMA SetFresh ==
  ASSUME IInv, FreshInv, Acyclic, Set, ~StaleRead
  PROVE  FreshCalls'
<1> DEFINE p == Step.var
<1>1. /\ stack # <<>> /\ top.op = "call" /\ Evaluates(top) /\ p \in Vars
      /\ val' = [val EXCEPT ![p] = Result] /\ formula' = formula
      /\ Became(NextStep)
  BY SetMove DEF Set, Evaluated, graphVars
<1>2. val \in [Vars -> Values] /\ formula \in [Vars -> Formulas \cup {NoFormula}]
  BY DEF IInv, TypeOK
<1> HIDE DEF p
<1>3. \A u \in Vars : u # p => val'[u] = val[u]
  BY <1>1, <1>2
<1>4. ASSUME NEW k \in 1..Len(stack) - 1, Evaluator(Chain[k]),
             NEW u \in Range(Names(Chain[k]))
      PROVE  Steady(u)
  <2>1. Evaluates(Chain[k]) /\ Range(Names(Chain[k])) \subseteq Vars
    BY <1>4, OlderWaits DEF FreshInv
  <2>2. ~Feeds(p) /\ p \notin Range(Names(Chain[k]))
    BY <1>4, SetApart DEF FreshInv, p
  <2> DEFINE S == Vars \ {p}
  <2>3. ClosedUnder(formula, S)
    <3>1. ASSUME NEW v \in S PROVE ReadsOf(formula, v) \subseteq S
      BY <1>2, <2>2, ReadsVars DEF ReadsOf, Feeds, Derived
    <3> QED  BY <3>1 DEF ClosedUnder
  <2>4. \A v \in S : Meaning'[v] = Meaning[v]
    BY <1>1, <1>3, <2>3, MeaningStays DEF FreshInv, FoundedInv
  <2> QED  BY <1>3, <1>4, <2>1, <2>2, <2>4 DEF Steady
<1>5. NextStep \in Frame /\ NextStep.op = "call" /\ NextStep.args = <<>>
      /\ NextStep.asked = FALSE
  BY <1>1, NextStepFrame
<1>6. Innermost(Meaning', val', NextStep)
  BY <1>5, FreshStart DEF Evaluator
<1> QED  BY <1>1, <1>4, <1>6, FreshMoves DEF FreshInv

LEMMA OuterFresh ==
  ASSUME IInv, GraphInv, OuterStep
  PROVE  FreshCalls'
<1>1. CASE DeriveFails \/ DeriveSucceeds
  <2>1. Len(stack') = 0
    BY <1>1, DefinedMove DEF GraphInv
  <2> QED  BY <2>1 DEF FreshCalls
<1>2. CASE StartRecalc
  <2>1. Len(stack') = 0 \/ (Len(stack') = 1 /\ Chain'[1].op = "recalc")
    BY <1>2, StartRecalcMove DEF GraphInv, Recalc
  <2>2. CASE Len(stack') = 0
    BY <2>2 DEF FreshCalls
  <2>3. CASE Len(stack') = 1 /\ Chain'[1].op = "recalc"
    <3>1. \A k \in 1..Len(stack') : k = 1
      BY <2>3
    <3> QED  BY <2>3, <3>1 DEF FreshCalls, Evaluator
  <2> QED  BY <2>1, <2>2, <2>3
<1>3. CASE UpdateNext
  <2>1. /\ top.op = "recalc" /\ top \in RecalcFrame
        /\ \E v \in top.todo : \E x \in RecalcFrame :
             /\ v \in Vars
             /\ Chain'[1] = x /\ x.op = "recalc"
             /\ \/ ~Derived(v) /\ Len(stack') = 1
                \/ Derived(v) /\ Len(stack') = 2 /\ Chain'[2] = Update(v)
    BY <1>3, UpdateNextMove DEF GraphInv
  <2>2. PICK v \in Vars :
             /\ Chain'[1].op = "recalc"
             /\ \/ Len(stack') = 1
                \/ Derived(v) /\ Len(stack') = 2 /\ Chain'[2] = Update(v)
    BY <2>1
  <2>3. Derived(v) => Innermost(Meaning', val', Update(v))
    <3>1. Update(v).op = "update" /\ Update(v).args = <<>> /\ Update(v).asked = FALSE
      BY DEF Update
    <3> QED  BY <3>1, UpdateIsFrame, FreshStart DEF Evaluator
  <2>4. ASSUME NEW k \in 1..Len(stack'), Evaluator(Chain'[k])
        PROVE  k = Len(stack') /\ Innermost(Meaning', val', Chain'[k])
    <3>1. k # 1
      BY <2>2, <2>4 DEF Evaluator
    <3>2. ASSUME Len(stack') = 1 PROVE FALSE
      <4>1. k = 1
        BY <2>4, <3>2
      <4> QED  BY <3>1, <4>1
    <3>3. Derived(v) /\ Len(stack') = 2 /\ Chain'[2] = Update(v)
      BY <2>2, <3>2
    <3>4. k = 2
      BY <2>4, <3>1, <3>3
    <3> QED  BY <2>3, <3>3, <3>4
  <2> QED  BY <2>4 DEF FreshCalls
<1>4. CASE Recalculated
  <2>1. Len(stack') = 2 /\ Chain'[1].op = "settle" /\ Chain'[2].op = "notify"
    BY <1>4, RecalculatedMove DEF GraphInv, Settle, Announce
  <2>2. \A k \in 1..Len(stack') : k = 1 \/ k = 2
    BY <2>1
  <2> QED  BY <2>1, <2>2 DEF FreshCalls, Evaluator
<1> QED  BY <1>1, <1>2, <1>3, <1>4 DEF OuterStep

LEMMA ProgramFresh ==
  ASSUME IInv, Program
  PROVE  FreshCalls'
<1>1. \/ stack' = <<>>
      \/ stack' = <<Settle>>
      \/ \E h \in Handlers : \/ stack' = <<Call(h[1], h[2])>>
                             \/ stack' = <<Call(h[1], h[2]), Settle>>
      \/ \E d \in Derives : stack' = <<Derivation(d[1], d[2])>>
  BY DEF Program, Assign, Derive, DeriveRefused, Invoke, Unbind, Subscribe,
         Unsubscribe, EndProgram, StartProgram, Event, Statement, AtRest
<1>2. \A h \in Handlers : LET y == Call(h[1], h[2]) IN
        y \in Frame /\ y.op = "call" /\ y.args = <<>> /\ y.asked = FALSE
  <2>1. \A h \in Handlers : h[1] \in Actions /\ h[2] \in Values
    BY ProgramAssumption
  <2> QED  BY <2>1, EmptySeq DEF Call, CallFrame, Frame
<1>3. \A d \in Derives : LET y == Derivation(d[1], d[2]) IN
        y \in Frame /\ y.op = "derive" /\ y.args = <<>> /\ y.asked = FALSE
  <2>1. \A d \in Derives : d[1] \in Vars /\ d[2] \in Formulas
    BY ProgramAssumption
  <2> QED  BY <2>1, EmptySeq DEF Derivation, DeriveFrame, Frame
<1> DEFINE Starts(y) == y.op # "settle" => Innermost(Meaning', val', y)
<1>4. /\ \A h \in Handlers : Starts(Call(h[1], h[2]))
      /\ \A d \in Derives : Starts(Derivation(d[1], d[2]))
      /\ Starts(Settle)
  BY <1>2, <1>3, FreshStart DEF Evaluator, Settle
<1>5. \/ stack' = <<>>
      \/ \E y : Starts(y) /\ (stack' = <<y>> \/ stack' = <<y, Settle>>)
  BY <1>1, <1>4
<1>6. CASE stack' = <<>>
  BY <1>6, ChainStarts DEF FreshCalls
<1>7. CASE stack' # <<>>
  <2>1. PICK y : Starts(y) /\ (stack' = <<y>> \/ stack' = <<y, Settle>>)
    BY <1>5, <1>7
  <2>2. \/ Len(stack') = 1 /\ Chain'[1] = y
        \/ Len(stack') = 2 /\ Chain'[1] = Settle /\ Chain'[2] = y
    BY <2>1, ChainStarts
  <2>3. ASSUME NEW k \in 1..Len(stack'), Evaluator(Chain'[k])
        PROVE  k = Len(stack') /\ Innermost(Meaning', val', Chain'[k])
    <3>1. CASE Len(stack') = 1 /\ Chain'[1] = y
      <4>1. k = 1
        BY <2>3, <3>1
      <4> QED  BY <2>1, <2>3, <3>1, <4>1 DEF Evaluator
    <3>2. CASE Len(stack') = 2 /\ Chain'[1] = Settle /\ Chain'[2] = y
      <4>1. k # 1
        BY <2>3, <3>2 DEF Evaluator, Settle
      <4>2. k = 2
        BY <2>3, <3>2, <4>1
      <4> QED  BY <2>1, <2>3, <3>2, <4>2 DEF Evaluator
    <3> QED  BY <2>2, <3>1, <3>2
  <2> QED  BY <2>3 DEF FreshCalls
<1> QED  BY <1>6, <1>7

\* Reading stays fresh, unless a callback writes below a read.
LEMMA NextFresh ==
  ASSUME IInv, GraphInv, CleanAgree, FreshInv, Valued, Exact,
         [Next]_vars, ~StaleRead
  PROVE  FreshCalls'
<1>1. CASE UNCHANGED vars
  <2>1. UNCHANGED <<val, formula, stack, mode>>
    BY <1>1 DEF vars, graphVars
  <2>2. Meaning' = Meaning
    BY <2>1, NoWriteSteady
  <2>3. Chain' = Chain /\ Acyclic' = Acyclic
    BY <2>1 DEF Chain, Acyclic
  <2> QED  BY <2>1, <2>2, <2>3 DEF FreshInv, FreshCalls
<1>2. CASE Program
  BY <1>2, ProgramFresh
<1>3. CASE Engine
  <2>1. Acyclic
    BY <1>3, EngineRuns
  <2>2. CASE OuterStep
    BY <2>2, OuterFresh
  <2>3. CASE InnerStep
    BY <2>1, <2>3, RefreshFresh, ReadFresh, UnchangedFresh, ChangedFresh, QuietFresh, SetFresh
      DEF InnerStep, FreshInv
  <2> QED  BY <1>3, <2>2, <2>3 DEF Engine, OuterStep, InnerStep
<1> QED  BY <1>1, <1>2, <1>3 DEF Next

LEMMA ChangedRedefined ==
  ASSUME IInv, GraphInv, RedefinedClean, Changed
  PROVE  RedefinedClean'
<1> DEFINE p == top.var
<1>1. /\ stack # <<>> /\ Acyclic /\ p \in Vars /\ p \in dirty
      /\ val' = [val EXCEPT ![p] = Result]
      /\ UNCHANGED <<dirty, formula, mode>> /\ Redefining' = Redefining
  <2>1. stack # <<>> /\ top \in UpdateFrame /\ top.op = "update"
    BY ChangedMove
  <2>2. p \in Vars /\ p \in dirty
    BY <2>1, TopFits DEF Fits, UpdateFrame
  <2>3. Redefining' = Redefining /\ Acyclic
    BY InnerStepFits, EngineRuns DEF GraphInv, InnerStep, Engine
  <2> QED  BY <2>1, <2>2, <2>3 DEF Changed, graphVars
<1>2. val \in [Vars -> Values] /\ formula \in [Vars -> Formulas \cup {NoFormula}]
  BY DEF IInv, TypeOK
<1> HIDE DEF p
<1>3. ASSUME NEW v \in Redefining \ dirty
      PROVE  ReadsOf(formula, v) \cap dirty = {} /\ Agree(val', formula, v)
  <2>1. v \in Vars /\ v # p /\ ReadsOf(formula, v) \cap dirty = {} /\ Agree(val, formula, v)
    BY <1>1, <1>3 DEF RedefinedClean, Redefining
  <2>2. \A u \in Vars : u # p => val'[u] = val[u]
    BY <1>1, <1>2
  <2>3. formula[v] # NoFormula => \A u \in Range(Deps[formula[v]]) : val'[u] = val[u]
    BY <1>1, <1>2, <2>1, <2>2, ReadsVars DEF ReadsOf
  <2> QED  BY <1>2, <2>1, <2>2, <2>3, AgreeSame
<1> QED  BY <1>1, <1>3 DEF RedefinedClean

\* What a callback writes while a definition is evaluated, the old definition
\* does not read, and nothing else depends on it.
LEMMA SetRedefined ==
  ASSUME IInv, GraphInv, RedefinedClean, FreshCalls, Set, ~StaleRead
  PROVE  RedefinedClean'
<1> DEFINE p == Step.var
<1>1. /\ stack # <<>> /\ top.op = "call" /\ Acyclic /\ p \in Vars
      /\ val' = [val EXCEPT ![p] = Result] /\ dirty' = MarkDirty(p)
      /\ UNCHANGED <<formula, mode>> /\ Redefining' = Redefining
  <2>1. Redefining' = Redefining /\ Acyclic
    BY InnerStepFits, EngineRuns DEF GraphInv, InnerStep, Engine
  <2> QED  BY <2>1, SetMove DEF Set, graphVars
<1>2. val \in [Vars -> Values] /\ formula \in [Vars -> Formulas \cup {NoFormula}]
  BY DEF IInv, TypeOK
<1>3. ASSUME NEW v \in Redefining \ dirty'
      PROVE  ReadsOf(formula, v) \cap dirty' = {} /\ Agree(val', formula, v)
  <2>1. v \in Vars /\ Len(stack) > 0 /\ Chain[1].op = "derive"
    BY <1>3 DEF Redefining
  <2>2. 1 \in 1..Len(stack) - 1 /\ Evaluator(Chain[1])
    BY <1>1, <2>1, TopOfChain DEF Evaluator
  <2>3. ~Feeds(p)
    BY <1>1, <2>2, SetApart
  <2> HIDE DEF p
  <2>4. adj[p] = {}
    <3>1. ASSUME NEW w \in adj[p] PROVE FALSE
      <4>1. w \in Vars /\ formula[w] \in Formulas /\ p \in Range(Deps[formula[w]])
        BY <1>1, <3>1 DEF IInv, TypeOK, EdgesSound
      <4> QED  BY <2>3, <4>1, NamesAssumption DEF Feeds, Derived
    <3> QED  BY <3>1
  <2>5. dirty' \subseteq dirty \cup {p}
    <3>1. {p} \in SUBSET Vars /\ p \in {p} /\ \A w \in {p} \ dirty : adj[w] \subseteq {p}
      BY <1>1, <2>4
    <3>2. Walk(dirty, p) \subseteq {p}
      BY <3>1 DEF Walk
    <3> QED  BY <1>1, <3>2 DEF MarkDirty
  <2>6. v \notin dirty /\ dirty \subseteq dirty'
    BY <1>1, <1>3 DEF MarkDirty
  <2>7. ReadsOf(formula, v) \cap dirty = {} /\ Agree(val, formula, v)
    BY <1>1, <1>3, <2>6 DEF RedefinedClean
  <2>8. CASE formula[v] = NoFormula
    BY <2>8 DEF ReadsOf, Agree
  <2>9. CASE formula[v] # NoFormula
    <3>1. p # v /\ p \notin Range(Deps[formula[v]])
      BY <2>1, <2>3, <2>9 DEF Feeds, Derived
    <3>2. \A u \in Vars : u # p => val'[u] = val[u]
      BY <1>1, <1>2
    <3>3. \A u \in Range(Deps[formula[v]]) : val'[u] = val[u]
      BY <1>2, <2>1, <2>9, <3>1, <3>2, ReadsVars
    <3>4. Agree(val', formula, v)
      BY <1>2, <2>1, <2>7, <3>1, <3>2, <3>3, AgreeSame
    <3>5. ReadsOf(formula, v) = Range(Deps[formula[v]])
      BY <2>9 DEF ReadsOf
    <3> QED  BY <2>5, <2>7, <3>1, <3>4, <3>5
  <2> QED  BY <2>8, <2>9
<1> QED  BY <1>1, <1>3 DEF RedefinedClean

LEMMA NextRedefined ==
  ASSUME IInv, GraphInv, CleanAgree, FreshInv, [Next]_vars, ~StaleRead
  PROVE  RedefinedClean'
<1>1. CASE Derive
  <2>1. UNCHANGED <<val, formula, dirty, mode>> /\ Redefining' \subseteq Vars
    BY <1>1 DEF Derive, Redefining
  <2>2. Acyclic => \A v \in Vars \ dirty : /\ ReadsOf(formula, v) \cap dirty = {}
                                           /\ Agree(val, formula, v)
    BY UnmarkedClean DEF FreshInv, GraphInv
  <2>3. Acyclic' => Acyclic
    BY <2>1 DEF Acyclic
  <2> QED  BY <2>1, <2>2, <2>3 DEF RedefinedClean
<1>2. CASE OuterStep \/ (Program /\ ~Derive)
  <2>1. Redefining' = {}
    BY <1>2, OuterStepFits, ProgramFits DEF GraphInv
  <2> QED  BY <2>1 DEF RedefinedClean
<1>3. CASE Changed \/ Set
  BY <1>3, ChangedRedefined, SetRedefined DEF FreshInv
<1>4. CASE \/ UNCHANGED vars
           \/ Refresh \/ Read \/ Unchanged \/ NotifyNext \/ CallSubscriber \/ Notified
           \/ Guard \/ SetFails \/ Return
  <2>1. UNCHANGED <<val, formula, dirty, mode>>
    BY <1>4 DEF vars, graphVars, Refresh, Read, Unchanged, NotifyNext, CallSubscriber,
         Notified, Guard, SetFails, Return
  <2>2. Redefining' = Redefining
    <3>1. CASE UNCHANGED vars
      BY <3>1 DEF vars, Redefining, Chain
    <3>2. CASE InnerStep
      BY <3>2, InnerStepFits DEF GraphInv
    <3> QED  BY <1>4, <3>1, <3>2 DEF InnerStep
  <2>3. Acyclic' => Acyclic
    BY <2>1 DEF Acyclic
  <2> QED  BY <2>1, <2>2, <2>3 DEF FreshInv, RedefinedClean
<1> QED  BY <1>1, <1>2, <1>3, <1>4 DEF Next, Engine, OuterStep

\* A definition that succeeds has a value, so it always has one.
LEMMA NextValued ==
  ASSUME IInv, GraphInv, Valued, AlwaysOrNever, [Next]_vars
  PROVE  Valued'
<1>1. formula \in [Vars -> Formulas \cup {NoFormula}]
  BY DEF IInv, TypeOK
<1>2. CASE DeriveSucceeds
  <2> DEFINE f == top.formula
  <2>1. /\ stack # <<>> /\ Evaluates(top) /\ top.op = "derive" /\ ~Threw
        /\ Len(top.args) = Len(Deps[FormulaOf(top)]) /\ FormulaOf(top) = f
        /\ formula' = [formula EXCEPT ![top.var] = f]
    BY <1>2 DEF DeriveSucceeds, Evaluated, FormulaOf
  <2>2. f \in Formulas /\ Deps[f] \in Seq(Vars) /\ top.args \in Seq(Values)
    BY <2>1, Evaluating
  <2>3. Apply(f, top.args) \in Values
    BY <2>1 DEF Threw, Result
  <2> HIDE DEF f
  <2>4. top.args \in ArgsOf(f)
    BY <2>1, <2>2 DEF ArgsOf
  <2>5. HasValue(f)
    BY <2>2, <2>3, <2>4 DEF AlwaysOrNever
  <2> QED  BY <1>1, <2>1, <2>5 DEF Valued, Derived
<1>3. CASE \E w \in Unbinds : Unbind(w)
  BY <1>1, <1>3 DEF Unbind, Valued, Derived
<1>4. CASE ~DeriveSucceeds /\ ~(\E w \in Unbinds : Unbind(w))
  <2>1. formula' = formula
    <3>1. CASE Derive
      BY <3>1 DEF Derive
    <3>2. CASE DeriveFails
      BY <3>2 DEF DeriveFails, graphVars
    <3> QED  BY <1>4, <3>1, <3>2, SameGraph DEF GraphInv
  <2> QED  BY <2>1 DEF Valued, Derived
<1> QED  BY <1>2, <1>3, <1>4

LEMMA InitFresh ==
  ASSUME Init
  PROVE  FreshInv /\ Valued
<1>1. Len(stack) = 0
  BY DEF Init
<1>2. \A v \in Vars : ReadsOf(formula, v) = {}
  BY DEF Init, ReadsOf
<1>3. FoundedInv
  BY <1>2 DEF FoundedInv, Founded
<1>4. RedefinedClean
  BY <1>1 DEF RedefinedClean, Redefining
<1>5. FreshCalls
  BY <1>1 DEF FreshCalls
<1>6. Valued
  BY DEF Init, Valued, Derived
<1> QED  BY <1>3, <1>4, <1>5, <1>6 DEF FreshInv

LEMMA NextFreshInv ==
  ASSUME IInv, GraphInv, CleanAgree, FreshInv, Valued, Exact,
         [Next]_vars, ~StaleRead
  PROVE  FreshInv'
BY NextFounded, NextRedefined, NextFresh DEF FreshInv, GraphInv

LEMMA FreshReads ==
  ASSUME IInv, FreshCalls
  PROVE  ReadsAreFresh
<1> SUFFICES ASSUME stack # <<>>, Evaluates(top), Acyclic, NEW i \in DOMAIN top.args
             PROVE  top.args[i] = Meaning[Deps[FormulaOf(top)][i]]
  BY DEF ReadsAreFresh
<1>1. Evaluator(top) /\ top.args \in Seq(Values)
  BY Evaluating DEF Evaluator
<1>2. i \in 1..Len(top.args)
  BY <1>1
<1> QED  BY <1>1, <1>2, TopFresh DEF FreshFrame, Names

\* As long as no redefinition fails, no formula leads back to its own variable,
\* through any of the formulas in force, until the program makes a definition
\* that dfsCycleCheck lets pass and markDirty does not survive.
THEOREM StaysFounded ==
  Spec /\ [][~RedefinitionFails]_vars => [](Acyclic => Founded(formula))
<1>1. Init => IInv /\ GraphInv /\ FoundedInv
  BY InitInv, InitMore, InitFresh DEF FreshInv
<1>2. IInv /\ GraphInv /\ FoundedInv /\ [Next]_vars /\ [~RedefinitionFails]_vars
        => IInv' /\ GraphInv' /\ FoundedInv'
  BY FailingMoves, NextInv, NextGraph, NextFounded DEF GraphInv
<1>3. FoundedInv => (Acyclic => Founded(formula))
  BY DEF FoundedInv
<1> QED  BY <1>1, <1>2, <1>3, PTL DEF Spec

\* In a program whose formulas fail always or never and whose values are told
\* apart when they are displayed: as long as no redefinition fails, no write
\* is lost inside a recalculation and no callback of a refresh writes what the
\* reading that asked for it depends on, what an action, a callback or a
\* formula has read is what the variables mean.
THEOREM ReadsFresh ==
  ASSUME AlwaysOrNever, Exact
  PROVE  Spec /\ [][~RedefinitionFails]_vars /\ [][~LostWrite]_vars
              /\ [][~StaleRead]_vars
           => []ReadsAreFresh
<1> DEFINE Known == IInv /\ GraphInv /\ ValueInv /\ FreshInv /\ Valued
<1>1. Init => Known
  BY InitInv, InitMore, InitFresh
<1>2. Known /\ [Next]_vars /\ [~RedefinitionFails]_vars /\ [~LostWrite]_vars
        /\ [~StaleRead]_vars => Known'
  <2> SUFFICES ASSUME Known, [Next]_vars, [~RedefinitionFails]_vars,
                      [~LostWrite]_vars, [~StaleRead]_vars
               PROVE  Known'
    OBVIOUS
  <2>1. ~LostWrite /\ ~StaleRead /\ ~RedefinitionFails
    BY SetMoves, FailingMoves
  <2>2. IInv' /\ GraphInv' /\ ValueInv'
    BY <2>1, NextInv, NextGraph, NextValues
  <2>3. FreshInv' /\ Valued'
    BY <2>1, NextFreshInv, NextValued DEF ValueInv
  <2> QED  BY <2>2, <2>3
<1>3. Known => ReadsAreFresh
  BY FreshReads DEF FreshInv
<1> HIDE DEF Known
<1> QED  BY <1>1, <1>2, <1>3, PTL DEF Spec

-----------------------------------------------------------------------------
(* Programs of which no step is one that the theorems exclude: what their  *)
(* subscribers assign, nothing depends on.                                 *)

Subscribers == {s[1] : s \in Subscriptions}

Assigned(fn) == {Body[fn][i].var : i \in {j \in DOMAIN Body[fn] : Body[fn][j].op = "set"}}

\* Subscribers assign neither derived variables nor what definitions read.
Tame == \A fn \in Subscribers : \A d \in Derives :
          Assigned(fn) \cap ({d[1]} \cup Range(Deps[d[2]])) = {}

\* They assign nothing that has subscribers.
Silent == \A fn \in Subscribers : \A s \in Subscriptions : s[2] \notin Assigned(fn)

\* They assign nothing that an action reads.
Aside == \A fn \in Subscribers : \A act \in Actions : \A i \in DOMAIN Body[act] :
           Assigned(fn) \cap Range(Deps[Body[act][i].formula]) = {}

\* The definitions of the program always have a value.
Total == \A d \in Derives : HasValue(d[2])

Known(fr) ==
  /\ fr.op = "derive" => <<fr.var, fr.formula>> \in Derives
  /\ fr.op = "notify" => fr.due \subseteq Subscribers

\* Only handlers and subscribers are called: handlers by the program, alone or
\* before the recalculation that follows an event.
Place(fr, k, first) ==
  fr.op = "call" => fr.fn \in Subscribers \/ k = 1 \/ (k = 2 /\ first.op = "settle")

KnownCalls == \A k \in 1..Len(stack) : Known(Chain[k]) /\ Place(Chain[k], k, Chain[1])

\* What is defined, subscribed to and called is what the program says.
ProgramInv ==
  /\ \A v \in Vars : Derived(v) => <<v, formula[v]>> \in Derives
  /\ \A v \in Vars : \A fn \in subs[v] : <<fn, v>> \in Subscriptions
  /\ KnownCalls

LEMMA KnownMoves ==
  ASSUME IInv, stack # <<>>, KnownCalls, NEW x, NEW y,
         \/ Returned
         \/ /\ \/ Became(x)
               \/ Called(x, y) /\ Known(y) /\ (y.op = "call" => y.fn \in Subscribers)
            /\ Known(x)
            /\ x.op = "call" => top.op = "call" /\ x.fn = top.fn
  PROVE  KnownCalls'
<1> DEFINE n == Len(stack)
<1>1. n \in Nat \ {0} /\ n \in 1..n /\ Chain[n] = top
  BY TopOfChain
<1>2. /\ \A k \in 1..n - 1 : Chain'[k] = Chain[k]
      /\ \/ Len(stack') = n - 1
         \/ /\ \/ Len(stack') = n /\ Chain'[n] = x
               \/ /\ Len(stack') = n + 1 /\ Chain'[n] = x /\ Chain'[n + 1] = y
                  /\ Known(y) /\ (y.op = "call" => y.fn \in Subscribers)
            /\ Known(x)
            /\ x.op = "call" => top.op = "call" /\ x.fn = top.fn
  BY DEF Returned, Became, Called, Below
<1> HIDE DEF n
<1>3. ASSUME NEW k \in 1..Len(stack')
      PROVE  Known(Chain'[k]) /\ Place(Chain'[k], k, Chain'[1])
  <2>1. k \in Nat \ {0} /\ (n > 1 => Chain'[1] = Chain[1])
    <3>1. n > 1 => 1 \in 1..n - 1
      BY <1>1
    <3> QED  BY <1>2, <3>1
  <2>2. CASE k < n
    <3>1. k \in 1..n - 1 /\ k \in 1..n /\ n > 1
      BY <1>1, <2>1, <2>2
    <3> QED  BY <1>2, <2>1, <3>1 DEF KnownCalls, n
  <2>3. CASE k = n
    <3>1. Len(stack') # n - 1
      BY <1>1, <1>3, <2>3
    <3>2. /\ Chain'[n] = x /\ Known(x)
          /\ x.op = "call" => top.op = "call" /\ x.fn = top.fn
      BY <1>2, <3>1
    <3>3. Place(top, n, Chain[1])
      BY <1>1 DEF KnownCalls, n
    <3> QED  BY <1>1, <2>1, <2>3, <3>2, <3>3 DEF Place
  <2>4. CASE k > n
    <3>1. k = n + 1 /\ Len(stack') # n /\ Len(stack') # n - 1
      BY <1>1, <1>2, <1>3, <2>1, <2>4
    <3> QED  BY <1>2, <3>1 DEF Place
  <2> QED  BY <1>1, <2>1, <2>2, <2>3, <2>4
<1> QED  BY <1>3 DEF KnownCalls

LEMMA LikeKnown ==
  ASSUME NEW x, NEW fr, Like(x, fr), Known(fr), fr.op \in {"update", "derive", "call"}
  PROVE  Known(x) /\ (x.op = "call" => fr.op = "call" /\ x.fn = fr.fn)
BY DEF Like, Known

LEMMA InnerKnown ==
  ASSUME IInv, ProgramInv, InnerStep
  PROVE  KnownCalls'
<1>1. stack # <<>> /\ KnownCalls
  BY DEF InnerStep, Refresh, Read, Unchanged, Changed, NotifyNext, CallSubscriber,
         Notified, Guard, Set, SetFails, Return, Reads, Evaluated, Running, ProgramInv
<1>2. Known(top) /\ top \in Frame
  BY <1>1, TopOfChain DEF KnownCalls
<1>3. CASE Refresh
  <2>1. /\ Evaluates(top)
        /\ \E x \in Frame : Called(x, Update(ToRead)) /\ Like(x, top)
    BY <1>3, RefreshMove
  <2>2. top.op \in {"update", "derive", "call"}
    BY <1>1, <2>1, Evaluating
  <2>3. Known(Update(ToRead)) /\ Update(ToRead).op # "call"
    BY DEF Known, Update
  <2> QED  BY <1>1, <1>2, <2>1, <2>2, <2>3, LikeKnown, KnownMoves
<1>4. CASE Read
  <2>1. Evaluates(top) /\ \E x \in Frame : Became(x) /\ Like(x, top)
    BY <1>4, ReadMove
  <2>2. top.op \in {"update", "derive", "call"}
    BY <1>1, <2>1, Evaluating
  <2> QED  BY <1>1, <1>2, <2>1, <2>2, LikeKnown, KnownMoves
<1>5. CASE Unchanged \/ Notified \/ Return
  BY <1>1, <1>5, ReturnMove, KnownMoves
<1>6. CASE Changed
  <2>1. /\ Became(Emit(top.var)) /\ Emit(top.var).op = "notify"
        /\ Emit(top.var).due = {}
    BY <1>6, ChangedMove
  <2>2. Known(Emit(top.var)) /\ Emit(top.var).op # "call"
    BY <2>1 DEF Known
  <2> QED  BY <1>1, <2>1, <2>2, KnownMoves
<1>7. CASE NotifyNext
  <2>1. PICK x \in NotifyFrame : Became(x) /\ x.op = "notify" /\ x.due = subs[x.about]
    BY <1>7, NotifyMove
  <2>2. Known(x)
    <3>1. \A fn \in subs[x.about] : <<fn, x.about>> \in Subscriptions
      BY <2>1 DEF ProgramInv, NotifyFrame
    <3>2. \A fn \in subs[x.about] : <<fn, x.about>>[1] = fn
      OBVIOUS
    <3> QED  BY <2>1, <3>1, <3>2 DEF Known, Subscribers
  <2> QED  BY <1>1, <2>1, <2>2, KnownMoves
<1>8. CASE CallSubscriber
  <2>1. top.op = "notify"
    BY <1>8, SubscriberMove
  <2>2. PICK fn \in top.due : \E x \in Frame :
          /\ Called(x, Call(fn, val[top.about]))
          /\ x.op = "notify" /\ x.due = top.due \ {fn}
    BY <1>8, SubscriberMove
  <2>3. PICK x \in Frame : /\ Called(x, Call(fn, val[top.about]))
                           /\ x.op = "notify" /\ x.due = top.due \ {fn}
    BY <2>2
  <2> DEFINE y == Call(fn, val[top.about])
  <2>4. y.op = "call" /\ y.fn = fn
    BY DEF Call
  <2>5. fn \in Subscribers /\ Known(x)
    BY <1>2, <2>1, <2>2, <2>3 DEF Known
  <2> HIDE DEF y
  <2>6. Known(y) /\ Called(x, y)
    BY <2>3, <2>4 DEF Known, y
  <2> QED  BY <1>1, <2>3, <2>4, <2>5, <2>6, KnownMoves
<1>9. CASE Guard \/ Set \/ SetFails
  <2>1. /\ top.op = "call"
        /\ Returned \/ (Became(NextStep) /\ Like(NextStep, top))
    BY <1>9, ActionMove
  <2>2. CASE Returned
    BY <1>1, <2>2, KnownMoves
  <2>3. CASE Became(NextStep) /\ Like(NextStep, top)
    BY <1>1, <1>2, <2>1, <2>3, LikeKnown, KnownMoves
  <2> QED  BY <2>1, <2>2, <2>3
<1> QED  BY <1>3, <1>4, <1>5, <1>6, <1>7, <1>8, <1>9 DEF InnerStep

LEMMA OuterKnown ==
  ASSUME IInv, Layout, OuterStep
  PROVE  KnownCalls'
<1>1. CASE DeriveFails \/ DeriveSucceeds
  <2>1. Len(stack') = 0
    BY <1>1, DefinedMove
  <2> QED  BY <2>1 DEF KnownCalls
<1>2. CASE StartRecalc
  <2>1. Len(stack') = 0 \/ (Len(stack') = 1 /\ Chain'[1].op = "recalc")
    BY <1>2, StartRecalcMove DEF Recalc
  <2>2. CASE Len(stack') = 0
    BY <2>2 DEF KnownCalls
  <2>3. CASE Len(stack') = 1 /\ Chain'[1].op = "recalc"
    <3>1. \A k \in 1..Len(stack') : k = 1
      BY <2>3
    <3> QED  BY <2>3, <3>1 DEF KnownCalls, Known, Place
  <2> QED  BY <2>1, <2>2, <2>3
<1>3. CASE UpdateNext
  <2>1. /\ Chain'[1].op = "recalc"
        /\ \/ Len(stack') = 1
           \/ Len(stack') = 2 /\ Chain'[2].op = "update"
    <3>1. \A v : Update(v).op = "update"
      BY DEF Update
    <3> QED  BY <1>3, <3>1, UpdateNextMove
  <2>2. CASE Len(stack') = 1
    <3>1. \A k \in 1..Len(stack') : k = 1
      BY <2>2
    <3> QED  BY <2>1, <3>1 DEF KnownCalls, Known, Place
  <2>3. CASE Len(stack') = 2 /\ Chain'[2].op = "update"
    <3>1. \A k \in 1..Len(stack') : k = 1 \/ k = 2
      BY <2>3
    <3> QED  BY <2>1, <2>3, <3>1 DEF KnownCalls, Known, Place
  <2> QED  BY <2>1, <2>2, <2>3
<1>4. CASE Recalculated
  <2>1. /\ Len(stack') = 2 /\ Chain'[1].op = "settle" /\ Chain'[2].op = "notify"
        /\ Chain'[2].due = {}
    BY <1>4, RecalculatedMove DEF Settle, Announce
  <2>2. \A k \in 1..Len(stack') : k = 1 \/ k = 2
    BY <2>1
  <2> QED  BY <2>1, <2>2 DEF KnownCalls, Known, Place
<1> QED  BY <1>1, <1>2, <1>3, <1>4 DEF OuterStep

LEMMA ProgramKnown ==
  ASSUME IInv, Program
  PROVE  KnownCalls'
<1>1. \/ stack' = <<>>
      \/ stack' = <<Settle>>
      \/ \E h \in Handlers : \/ stack' = <<Call(h[1], h[2])>>
                             \/ stack' = <<Call(h[1], h[2]), Settle>>
      \/ \E d \in Derives : stack' = <<Derivation(d[1], d[2])>>
  BY DEF Program, Assign, Derive, DeriveRefused, Invoke, Unbind, Subscribe,
         Unsubscribe, EndProgram, StartProgram, Event, Statement, AtRest
<1>2. \A d \in Derives : Known(Derivation(d[1], d[2]))
  <2>1. \A d \in Derives : d = <<d[1], d[2]>>
    BY ProgramAssumption
  <2> QED  BY <2>1 DEF Known, Derivation
<1>3. Known(Settle) /\ \A fn, w : Known(Call(fn, w))
  BY DEF Known, Settle, Call
<1>4. \/ stack' = <<>>
      \/ \E y : Known(y) /\ (stack' = <<y>> \/ stack' = <<y, Settle>>)
  BY <1>1, <1>2, <1>3
<1>5. CASE stack' = <<>>
  BY <1>5, ChainStarts DEF KnownCalls
<1>6. CASE stack' # <<>>
  <2>1. PICK y : Known(y) /\ (stack' = <<y>> \/ stack' = <<y, Settle>>)
    BY <1>4, <1>6
  <2>2. CASE stack' = <<y>>
    <3>1. Len(stack') = 1 /\ Chain'[1] = y
      BY <2>2, ChainStarts
    <3>2. \A k \in 1..Len(stack') : k = 1
      BY <3>1
    <3> QED  BY <2>1, <3>1, <3>2 DEF KnownCalls, Place
  <2>3. CASE stack' = <<y, Settle>>
    <3>1. Len(stack') = 2 /\ Chain'[1] = Settle /\ Chain'[2] = y
      BY <2>3, ChainStarts
    <3>2. \A k \in 1..Len(stack') : k = 1 \/ k = 2
      BY <3>1
    <3>3. Settle.op = "settle"
      BY DEF Settle
    <3> QED  BY <1>3, <2>1, <3>1, <3>2, <3>3 DEF KnownCalls, Place
  <2> QED  BY <2>1, <2>2, <2>3
<1> QED  BY <1>5, <1>6

LEMMA InitProgram ==
  ASSUME Init
  PROVE  ProgramInv
<1>1. Len(stack) = 0
  BY DEF Init
<1>2. \A v \in Vars : ~Derived(v) /\ subs[v] = {}
  BY DEF Init, Derived
<1> QED  BY <1>1, <1>2 DEF ProgramInv, KnownCalls

LEMMA NextProgram ==
  ASSUME IInv, Layout, FramesFit, ProgramInv, [Next]_vars
  PROVE  ProgramInv'
<1>1. KnownCalls'
  <2>1. CASE UNCHANGED vars
    BY <2>1 DEF vars, ProgramInv, KnownCalls, Chain
  <2>2. CASE Program
    BY <2>2, ProgramKnown
  <2>3. CASE OuterStep
    BY <2>3, OuterKnown
  <2>4. CASE InnerStep
    BY <2>4, InnerKnown
  <2> QED  BY <2>1, <2>2, <2>3, <2>4 DEF Next, Engine, OuterStep, InnerStep
<1>2. \A v \in Vars : Derived(v)' => <<v, formula'[v]>> \in Derives
  <2>1. formula \in [Vars -> Formulas \cup {NoFormula}]
    BY DEF IInv, TypeOK
  <2>2. CASE DeriveSucceeds
    <3>1. /\ Chain[1] = top /\ top.op = "derive" /\ Len(stack) = 1
          /\ formula' = [formula EXCEPT ![top.var] = top.formula]
      BY <2>2, DefinedMove DEF DeriveSucceeds
    <3>2. <<top.var, top.formula>> \in Derives
      <4>1. Known(Chain[1])
        BY <3>1 DEF ProgramInv, KnownCalls
      <4> QED  BY <3>1, <4>1 DEF Known
    <3> QED  BY <2>1, <3>1, <3>2 DEF ProgramInv, Derived
  <2>3. CASE \E w \in Unbinds : Unbind(w)
    BY <2>1, <2>3 DEF Unbind, ProgramInv, Derived
  <2>4. CASE ~DeriveSucceeds /\ ~(\E w \in Unbinds : Unbind(w))
    <3>1. formula' = formula
      <4>1. CASE Derive
        BY <4>1 DEF Derive
      <4>2. CASE DeriveFails
        BY <4>2 DEF DeriveFails, graphVars
      <4> QED  BY <2>4, <4>1, <4>2, SameGraph
    <3> QED  BY <3>1 DEF ProgramInv, Derived
  <2> QED  BY <2>2, <2>3, <2>4
<1>3. \A v \in Vars : \A fn \in subs'[v] : <<fn, v>> \in Subscriptions
  <2>1. subs \in [Vars -> SUBSET Actions]
    BY DEF IInv, TypeOK
  <2>2. CASE Derive \/ \E w \in Unbinds : Unbind(w)
    BY <2>1, <2>2 DEF Derive, Unbind, ProgramInv
  <2>3. CASE \E s \in Subscriptions : Subscribe(s[1], s[2]) \/ Unsubscribe(s[1], s[2])
    <3>1. PICK s \in Subscriptions : Subscribe(s[1], s[2]) \/ Unsubscribe(s[1], s[2])
      BY <2>3
    <3>2. s = <<s[1], s[2]>> /\ s[2] \in Vars
      BY ProgramAssumption
    <3>3. CASE UNCHANGED subs
      BY <3>3 DEF ProgramInv
    <3>4. CASE subs' = [subs EXCEPT ![s[2]] = @ \cup {s[1]}]
      <4>1. ASSUME NEW v \in Vars, NEW fn \in subs'[v]
            PROVE  fn \in subs[v] \/ (v = s[2] /\ fn = s[1])
        BY <2>1, <3>2, <3>4, <4>1
      <4> QED  BY <3>2, <4>1 DEF ProgramInv
    <3>5. CASE subs' = [subs EXCEPT ![s[2]] = @ \ {s[1]}]
      BY <2>1, <3>2, <3>5 DEF ProgramInv
    <3> QED  BY <3>1, <3>3, <3>4, <3>5 DEF Subscribe, Unsubscribe, subVars
  <2>4. CASE UNCHANGED subs
    BY <2>4 DEF ProgramInv
  <2>5. Next => \/ UNCHANGED subs \/ Derive \/ \E w \in Unbinds : Unbind(w)
                \/ \E s \in Subscriptions : Subscribe(s[1], s[2]) \/ Unsubscribe(s[1], s[2])
    BY DEF Next, Program, Engine, Assign, DeriveRefused, Invoke, EndProgram,
           StartProgram, Event, Refresh, Read, Unchanged, Changed, DeriveFails,
           DeriveSucceeds, NotifyNext, CallSubscriber, Notified, Guard, Set, SetFails,
           Return, StartRecalc, UpdateNext, Recalculated, subVars
  <2>6. UNCHANGED vars => UNCHANGED subs
    BY DEF vars, subVars
  <2> QED  BY <2>2, <2>3, <2>4, <2>5, <2>6
<1> QED  BY <1>1, <1>2, <1>3 DEF ProgramInv

\* Where an assignment is one that a theorem excludes, a subscriber makes it.
LEMMA SubscriberAssigns ==
  ASSUME IInv, ProgramInv, Set,
         \/ WriteInRecalc
         \/ \E i \in 2..Len(stack) : Evaluates(stack[i])
  PROVE  top.fn \in Subscribers /\ Step.var \in Assigned(top.fn)
<1> DEFINE n == Len(stack)
<1>1. /\ stack # <<>> /\ top \in CallFrame /\ top.op = "call" /\ Step.op = "set"
      /\ top.pc <= Len(Body[top.fn])
  BY SetMove DEF Set, Evaluated, Evaluates
<1>2. n \in Nat \ {0} /\ n \in 1..n /\ Chain[n] = top /\ 1 \in 1..n
  <2>1. n \in Nat \ {0} /\ Chain[n] = top
    BY <1>1, TopOfChain
  <2> HIDE DEF n
  <2> QED  BY <2>1
<1>3. Place(top, n, Chain[1])
  BY <1>2 DEF ProgramInv, KnownCalls
<1>4. n # 1 /\ (n = 2 => Chain[1].op # "settle")
  <2>1. CASE WriteInRecalc
    <3>1. Chain[1] = stack[n] /\ stack[n].op = "recalc"
      <4>1. n + 1 - 1 = n
        BY <1>2
      <4> QED  BY <1>2, <2>1, <4>1 DEF Chain, WriteInRecalc
    <3> QED  BY <1>1, <1>2, <3>1
  <2>2. CASE \E i \in 2..n : Evaluates(stack[i])
    <3>1. PICK i \in 2..n : Evaluates(stack[i])
      BY <2>2
    <3>2. n # 1
      BY <1>2, <3>1
    <3>3. ASSUME n = 2 PROVE Chain[1].op # "settle"
      <4>1. i = 2 /\ n + 1 - 1 = i
        BY <3>1, <3>3
      <4>2. Chain[1] = stack[i]
        BY <1>2, <4>1 DEF Chain
      <4> QED  BY <3>1, <4>2 DEF Evaluates
    <3> QED  BY <3>2, <3>3
  <2> QED  BY <2>1, <2>2
<1>5. top.fn \in Subscribers
  BY <1>1, <1>3, <1>4 DEF Place
<1>6. top.pc \in DOMAIN Body[top.fn]
  <2>1. Body[top.fn] \in Seq([op : {"if", "set"}, var : Vars, formula : Formulas])
    BY <1>1, ProgramAssumption DEF CallFrame
  <2>2. top.pc \in 1..Len(Body[top.fn])
    BY <1>1, <2>1 DEF CallFrame
  <2> QED  BY <2>1, <2>2
<1> QED  BY <1>1, <1>5, <1>6 DEF Assigned, Step

\* What feeds a formula is in a definition of the program.
LEMMA TameFeeds ==
  ASSUME ProgramInv, Tame, NEW fn \in Subscribers, NEW p \in Assigned(fn)
  PROVE  ~Feeds(p)
BY DEF ProgramInv, Tame, Feeds

LEMMA TameKeeps ==
  ASSUME IInv, ProgramInv, Tame
  PROVE  ~LostWrite
BY SubscriberAssigns, TameFeeds DEF LostWrite, WriteInRecalc

LEMMA SilentKeeps ==
  ASSUME IInv, ProgramInv, Silent
  PROVE  ~LostNotice
<1> SUFFICES ASSUME WriteInRecalc, subs[Step.var] # {}
             PROVE  FALSE
  BY DEF LostNotice
<1>1. Set /\ Step.var \in Vars
  BY SetMove DEF WriteInRecalc
<1>2. top.fn \in Subscribers /\ Step.var \in Assigned(top.fn)
  BY <1>1, SubscriberAssigns
<1>3. PICK fn \in subs[Step.var] : <<fn, Step.var>> \in Subscriptions
  BY <1>1 DEF ProgramInv
<1>4. <<fn, Step.var>>[2] = Step.var
  OBVIOUS
<1> QED  BY <1>2, <1>3, <1>4 DEF Silent

LEMMA AsideKeeps ==
  ASSUME IInv, Layout, FramesFit, ProgramInv, Tame, Aside
  PROVE  ~StaleRead
<1> SUFFICES ASSUME Set, NEW i \in 2..Len(stack), Evaluates(stack[i]),
                    Feeds(Step.var) \/ Step.var \in Range(Deps[FormulaOf(stack[i])])
             PROVE  FALSE
  BY DEF StaleRead
<1> DEFINE n == Len(stack)
           k == n + 1 - i
           fr == Chain[k]
<1>1. top.fn \in Subscribers /\ Step.var \in Assigned(top.fn) /\ Step.var \in Vars
  BY SubscriberAssigns, SetMove
<1>2. ~Feeds(Step.var)
  BY <1>1, TameFeeds
<1>3. k \in 1..n /\ fr = stack[i]
  <2>1. n \in Nat
    BY SetMove, TopOfChain
  <2>2. k \in 1..n /\ n + 1 - k = i
    BY <2>1
  <2> QED  BY <2>2 DEF Chain
<1>4. fr \in Frame /\ Fits(fr) /\ Known(fr)
  BY <1>3, ChainFrames DEF FramesFit, ProgramInv, KnownCalls
<1> HIDE DEF k, fr
<1>5. Evaluates(fr) /\ Step.var \in Range(Deps[FormulaOf(fr)])
  BY <1>2, <1>3
<1>6. CASE fr.op = "update"
  <2>1. fr.var \in Vars
    BY <1>4, <1>6, FrameKinds DEF UpdateFrame
  <2> QED  BY <1>2, <1>4, <1>5, <1>6, <2>1 DEF Fits, FormulaOf, Feeds
<1>7. CASE fr.op = "derive"
  <2>1. <<fr.var, fr.formula>> \in Derives /\ FormulaOf(fr) = fr.formula
    BY <1>4, <1>7 DEF Known, FormulaOf
  <2>2. <<fr.var, fr.formula>>[2] = fr.formula
    OBVIOUS
  <2> QED  BY <1>1, <1>5, <2>1, <2>2 DEF Tame
<1>8. CASE fr.op = "call"
  <2>1. fr \in CallFrame /\ fr.pc <= Len(Body[fr.fn])
    BY <1>4, <1>5, <1>8, FrameKinds DEF Evaluates
  <2>2. Body[fr.fn] \in Seq([op : {"if", "set"}, var : Vars, formula : Formulas])
    BY <2>1, ProgramAssumption DEF CallFrame
  <2>3. fr.fn \in Actions /\ fr.pc \in DOMAIN Body[fr.fn]
    BY <2>1, <2>2 DEF CallFrame
  <2>4. FormulaOf(fr) = Body[fr.fn][fr.pc].formula
    BY <1>8 DEF FormulaOf
  <2> QED  BY <1>1, <1>5, <2>3, <2>4 DEF Aside
<1> QED  BY <1>5, <1>6, <1>7, <1>8 DEF Evaluates

LEMMA TotalDefines ==
  ASSUME IInv, Layout, ProgramInv, Total
  PROVE  ~RedefinitionFails
<1> SUFFICES ASSUME DeriveFails
             PROVE  FALSE
  BY DEF RedefinitionFails
<1> DEFINE f == top.formula
<1>1. /\ stack # <<>> /\ Evaluates(top) /\ top.op = "derive" /\ Threw
      /\ Len(top.args) = Len(Deps[FormulaOf(top)]) /\ FormulaOf(top) = f
  BY DEF DeriveFails, Evaluated, FormulaOf
<1>2. f \in Formulas /\ Deps[f] \in Seq(Vars) /\ top.args \in Seq(Values)
  BY <1>1, Evaluating
<1>3. HasValue(f)
  <2>1. Known(top)
    BY <1>1, TopOfChain DEF ProgramInv, KnownCalls
  <2>2. <<top.var, f>> \in Derives /\ <<top.var, f>>[2] = f
    BY <1>1, <2>1 DEF Known
  <2> HIDE DEF f
  <2> QED  BY <2>2 DEF Total
<1>4. Result = Apply(f, top.args)
  BY <1>1 DEF Result
<1> HIDE DEF f
<1>5. top.args \in ArgsOf(f)
  BY <1>1, <1>2 DEF ArgsOf
<1> QED  BY <1>1, <1>3, <1>4, <1>5 DEF HasValue, Threw

LEMMA TotalValued ==
  ASSUME ProgramInv, Total
  PROVE  Valued
<1>1. \A v \in Vars : <<v, formula[v]>>[2] = formula[v]
  OBVIOUS
<1> QED  BY <1>1 DEF ProgramInv, Total, Valued

\* What is written down in a program is all that is ever defined, subscribed to
\* and called.
LEMMA Described ==
  Spec => [](IInv /\ Layout /\ FramesFit /\ ProgramInv)
<1>1. Init => IInv /\ Layout /\ FramesFit /\ ProgramInv
  BY InitInv, InitMore, InitProgram DEF GraphInv
<1>2. IInv /\ Layout /\ FramesFit /\ ProgramInv /\ [Next]_vars
        => IInv' /\ Layout' /\ FramesFit' /\ ProgramInv'
  BY NextInv, CallsFit, NextProgram
<1> QED  BY <1>1, <1>2, PTL DEF Spec

\* A program whose definitions always have a value keeps exact edges; if its
\* subscribers, besides, assign nothing that a definition derives or reads,
\* every unmarked derived variable agrees at rest with its formula.
THEOREM TameAgree ==
  ASSUME Total
  PROVE  /\ Spec => []EdgesMatch
         /\ Tame => (Spec => []DerivedCurrent)
<1>1. Spec => [][~RedefinitionFails]_vars
  <2>1. IInv /\ Layout /\ FramesFit /\ ProgramInv => ~RedefinitionFails
    BY TotalDefines
  <2> QED  BY <2>1, Described, PTL
<1>2. Spec => []EdgesMatch
  BY <1>1, EdgesExact, PTL
<1>3. ASSUME Tame
      PROVE  Spec => []DerivedCurrent
  <2>1. IInv /\ Layout /\ FramesFit /\ ProgramInv => ~LostWrite
    BY <1>3, TameKeeps
  <2> QED  BY <1>1, <2>1, Described, DerivedAgree, PTL
<1> QED  BY <1>2, <1>3

\* If subscribers assign neither what definitions derive or read nor what others
\* subscribe to, every subscriber has heard, at rest, the value of every unmarked
\* variable that it subscribes to.
THEOREM SilentInformed ==
  ASSUME Tame, Silent
  PROVE  Spec => []SubscribersCurrent
<1>1. IInv /\ Layout /\ FramesFit /\ ProgramInv => ~LostWrite /\ ~LostNotice
  BY TameKeeps, SilentKeeps
<1> QED  BY <1>1, Described, SubscribersInformed, PTL

\* If definitions always have a value, values are told apart when displayed, and
\* subscribers assign nothing that definitions or actions read, every value read
\* is the one that the variable means.
THEOREM AsideFresh ==
  ASSUME Total, Exact, Tame, Aside
  PROVE  Spec => []ReadsAreFresh
<1> DEFINE InProgram == IInv /\ Layout /\ FramesFit /\ ProgramInv
           Rest == GraphInv /\ ValueInv /\ FreshInv
<1>1. InProgram => Valued /\ ~RedefinitionFails /\ ~LostWrite /\ ~StaleRead
  BY TotalValued, TotalDefines, TameKeeps, AsideKeeps
<1>2. Init => Rest
  BY InitMore, InitFresh
<1>3. InProgram /\ Rest /\ [Next]_vars => Rest'
  BY <1>1, NextGraph, NextValues, NextFreshInv DEF ValueInv
<1>4. InProgram /\ Rest => ReadsAreFresh
  BY FreshReads DEF FreshInv
<1>5. Spec => []InProgram
  BY Described
<1> HIDE DEF InProgram, Rest
<1> QED  BY <1>2, <1>3, <1>4, <1>5, PTL DEF Spec

=============================================================================
