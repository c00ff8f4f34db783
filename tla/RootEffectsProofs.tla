------------------------- MODULE RootEffectsProofs -------------------------
(***************************************************************************)
(* For every program and page: one pass in the planned order tells every   *)
(* effect, at most once, what its dependency is; getters and parameters    *)
(* are as they should be; only cycles are refused.                         *)
(***************************************************************************)
EXTENDS RootEffects, TLAPS, SequenceTheorems

LEMMA AppendFacts ==
  ASSUME NEW S, NEW s \in Seq(S), NEW x \in S
  PROVE  /\ Append(s, x) \in Seq(S)
         /\ Len(s) \in Nat /\ Len(Append(s, x)) = Len(s) + 1
         /\ DOMAIN s = 1..Len(s)
         /\ DOMAIN Append(s, x) = 1..Len(s) + 1
         /\ \A i \in 1..Len(s) : Append(s, x)[i] = s[i]
         /\ Append(s, x)[Len(s) + 1] = x
         /\ Range(Append(s, x)) = Range(s) \cup {x}
         /\ Range(s) \subseteq S
<1> DEFINE t == Append(s, x)
<1>1. /\ t \in Seq(S)
      /\ Len(s) \in Nat /\ Len(t) = Len(s) + 1
      /\ \A i \in 1..Len(s) : t[i] = s[i]
      /\ t[Len(s) + 1] = x
      /\ DOMAIN s = 1..Len(s) /\ DOMAIN t = 1..Len(s) + 1
  BY AppendProperties, LenProperties
<1> HIDE DEF t
<1>2. Range(t) = Range(s) \cup {x}
  <2>1. ASSUME NEW y \in Range(t) PROVE y \in Range(s) \cup {x}
    <3>1. PICK i \in 1..Len(s) + 1 : y = t[i]
      BY <2>1, <1>1 DEF Range
    <3>2. CASE i \in 1..Len(s)
      BY <3>1, <3>2, <1>1 DEF Range
    <3>3. CASE i = Len(s) + 1
      BY <3>1, <3>3, <1>1
    <3> QED  BY <3>2, <3>3, <1>1
  <2>2. ASSUME NEW y \in Range(s) PROVE y \in Range(t)
    <3>1. PICK i \in 1..Len(s) : y = s[i]
      BY <2>2, <1>1 DEF Range
    <3>2. i \in 1..Len(s) + 1 /\ y = t[i]
      BY <3>1, <1>1
    <3> QED  BY <3>2, <1>1 DEF Range
  <2>3. x \in Range(t)
    <3>1. Len(s) + 1 \in 1..Len(s) + 1
      BY <1>1
    <3> QED  BY <3>1, <1>1 DEF Range
  <2> QED  BY <2>1, <2>2, <2>3
<1>3. Range(s) \subseteq S
  BY <1>1, ElementOfSeq DEF Range
<1> QED  BY <1>1, <1>2, <1>3 DEF t

\* A getter is visited: it becomes the innermost one of the path.
LEMMA PushFacts ==
  ASSUME NEW S, NEW s \in Seq(S), NEW x \in S
  PROVE  /\ <<x>> \o s \in Seq(S)
         /\ Len(s) \in Nat
         /\ DOMAIN s = 1..Len(s)
         /\ DOMAIN (<<x>> \o s) = 1..Len(s) + 1
         /\ (<<x>> \o s)[1] = x
         /\ \A i \in 2..Len(s) + 1 : (<<x>> \o s)[i] = s[i - 1]
<1>1. /\ <<x>> \in Seq(S) /\ Len(<<x>>) = 1 /\ <<x>>[1] = x
      /\ Len(s) \in Nat /\ DOMAIN s = 1..Len(s)
  BY LenProperties
<1>2. /\ <<x>> \o s \in Seq(S) /\ Len(<<x>> \o s) = 1 + Len(s)
      /\ DOMAIN (<<x>> \o s) = 1..Len(<<x>> \o s)
  BY <1>1, ConcatProperties, LenProperties
<1>3. \A i \in 1..Len(<<x>>) + Len(s) :
        (<<x>> \o s)[i] = IF i <= Len(<<x>>) THEN <<x>>[i] ELSE s[i - Len(<<x>>)]
  BY <1>1, ConcatProperties
<1>4. (<<x>> \o s)[1] = x
  BY <1>1, <1>3
<1>5. ASSUME NEW i \in 2..Len(s) + 1 PROVE (<<x>> \o s)[i] = s[i - 1]
  BY <1>1, <1>3
<1> QED  BY <1>1, <1>2, <1>4, <1>5

\* The search returns from the innermost getter.
LEMMA PopFacts ==
  ASSUME NEW S, NEW s \in Seq(S), s # <<>>
  PROVE  /\ Tail(s) \in Seq(S) /\ Head(s) = s[1] /\ Head(s) \in S
         /\ Len(s) \in Nat \ {0} /\ DOMAIN s = 1..Len(s)
         /\ DOMAIN Tail(s) = 1..Len(s) - 1
         /\ \A i \in 1..Len(s) - 1 : Tail(s)[i] = s[i + 1]
<1>1. /\ Tail(s) \in Seq(S) /\ Head(s) \in S
      /\ Len(Tail(s)) = Len(s) - 1
      /\ \A i \in 1..Len(Tail(s)) : Tail(s)[i] = s[i + 1]
  BY HeadTailProperties
<1>2. Len(s) \in Nat \ {0} /\ DOMAIN s = 1..Len(s) /\ Head(s) = s[1]
  BY EmptySeq, LenProperties
<1>3. DOMAIN Tail(s) = 1..Len(s) - 1
  BY <1>1, LenProperties
<1> QED  BY <1>1, <1>2, <1>3

-----------------------------------------------------------------------------
(* The compiler leaves the page alone, the page leaves the plan alone.     *)

LEMMA CompilerFrame ==
  ASSUME Compiler
  PROVE  /\ Compiling
         /\ clientState' = clientState /\ clientWrites' = clientWrites
         /\ call' = call /\ seen' = seen /\ ran' = ran /\ turns' = turns
         /\ outcome' = outcome /\ formula' = formula
         /\ ~Boot => Compiling' /\ next' = next /\ got' = got
<1> USE DEF Compiling, page, history, plan
<1>1. CASE Declare           BY <1>1 DEF Declare
<1>2. CASE EndDeclare        BY <1>2 DEF EndDeclare
<1>3. CASE Place             BY <1>3 DEF Place
<1>4. CASE EffectCycle       BY <1>4 DEF EffectCycle
<1>5. CASE EndOrder          BY <1>5 DEF EndOrder
<1>6. CASE VisitRoot         BY <1>6 DEF VisitRoot, Visit
<1>7. CASE VisitRead         BY <1>7 DEF VisitRead, Visit
<1>8. CASE GetterCycle       BY <1>8 DEF GetterCycle
<1>9. CASE AppendGetter      BY <1>9 DEF AppendGetter
<1>10. CASE Boot             BY <1>10 DEF Boot
<1> QED  BY <1>1, <1>2, <1>3, <1>4, <1>5, <1>6, <1>7, <1>8, <1>9, <1>10 DEF Compiler

LEMMA PageFrame ==
  ASSUME Page
  PROVE  /\ ~Compiling /\ ~Compiling'
         /\ declared' = declared /\ formula' = formula /\ subs' = subs
         /\ issues' = issues /\ ordered' = ordered /\ path' = path
         /\ derivedOrder' = derivedOrder
<1> USE DEF Compiling, page, history, plan, NewTurn, Running, Considers
<1>1. CASE Dispatch          BY <1>1 DEF Dispatch
<1>2. CASE Arrive            BY <1>2 DEF Arrive
<1>3. CASE If                BY <1>3 DEF If
<1>4. CASE Set               BY <1>4 DEF Set
<1>5. CASE BodyDone          BY <1>5 DEF BodyDone
<1>6. CASE Publish           BY <1>6 DEF Publish
<1>7. CASE Published         BY <1>7 DEF Published
<1>8. CASE SkipEffect        BY <1>8 DEF SkipEffect
<1>9. CASE RunEffect         BY <1>9 DEF RunEffect
<1>10. CASE EffectsDone      BY <1>10 DEF EffectsDone
<1>11. CASE ActionThrows     BY <1>11 DEF ActionThrows
<1>12. CASE FlushThrows      BY <1>12 DEF FlushThrows
<1> QED  BY <1>1, <1>2, <1>3, <1>4, <1>5, <1>6, <1>7, <1>8, <1>9, <1>10,
            <1>11, <1>12 DEF Page

-----------------------------------------------------------------------------
LEMMA InitInv == Init => IInv
<1> SUFFICES ASSUME Init PROVE IInv
  OBVIOUS
<1> USE DEF Init
<1>1. /\ <<>> \in Seq(Subscriptions) /\ <<>> \in Seq(Gets)
      /\ <<>> \in Seq(DOMAIN subs)
      /\ Len(<<>>) = 0 /\ DOMAIN <<>> = {}
  BY EmptySeq, LenProperties
<1>2. \A s \in Subscriptions : s[2] \in Slots /\ Initial[s[2]] \in Values
  BY SlotsAssumption DEF Subscriptions, Slots
<1>3. TypeOK
  <2>1. declared \in Seq(Actions \X Slots) /\ formula \in [Gets -> Formulas]
    BY PageAssumption, FormulasAssumption
  <2>2. clientState \in [Slots -> Values] /\ clientWrites \subseteq Slots
    BY SlotsAssumption
  <2>3. seen \in [Subscriptions -> Values] /\ ran \in [Subscriptions -> Nat]
    BY <1>2
  <2>4. next \in 0..(Len(ordered) + 1) /\ got \in 0..Len(derivedOrder)
        /\ turns \in 0..MaxTurns
    BY <1>1, SlotsAssumption
  <2> QED  BY <1>1, <2>1, <2>2, <2>3, <2>4 DEF TypeOK
<1>4. SubsInv
  BY <1>1 DEF SubsInv, Planned
<1>5. PlacedInv /\ StableInv
  BY <1>1 DEF PlacedInv, StableInv
<1>6. GettersInv
  BY <1>1 DEF GettersInv, Compiling
<1>7. PhaseInv
  BY DEF PhaseInv, Compiling
<1>8. HeardInv /\ RanInv
  BY <1>1 DEF HeardInv, RanInv, OncePerTurn
<1>9. ParametersInv
  BY DEF ParametersInv, Live
<1>10. PublishedInv
  BY DEF PublishedInv, GettersPublished
<1> QED  BY <1>3, <1>4, <1>5, <1>6, <1>7, <1>8, <1>9, <1>10 DEF IInv

-----------------------------------------------------------------------------
(* Types.                                                                  *)

Frame == [fn : Actions, pc : Nat \ {0}, saved : [Slots -> Values]]

LEMMA CallFacts ==
  ASSUME TypeOK
  PROVE  /\ phase = "body" =>
              /\ call \in Frame /\ call.fn \in Actions /\ call.pc \in Nat \ {0}
              /\ call.saved \in [Slots -> Values]
              /\ Len(Body[call.fn]) \in Nat
              /\ call.pc <= Len(Body[call.fn]) + 1
         /\ Running =>
              /\ call.pc \in DOMAIN Body[call.fn]
              /\ Statement.var \in Slots /\ Statement.skip \in Nat
              /\ call.pc + Statement.skip <= Len(Body[call.fn])
<1>1. phase = "body" =>
        /\ call \in Frame /\ call.fn \in Actions /\ call.pc \in Nat \ {0}
        /\ call.saved \in [Slots -> Values]
        /\ call.pc <= Len(Body[call.fn]) + 1
  BY DEF TypeOK, Frame
<1>2. phase = "body" =>
        /\ Body[call.fn] \in Seq([op : {"if", "set"}, var : Slots,
                                   formula : Formulas, skip : Nat])
        /\ Len(Body[call.fn]) \in Nat
        /\ DOMAIN Body[call.fn] = 1..Len(Body[call.fn])
  BY <1>1, ActionsAssumption, LenProperties
<1>3. Running => call.pc \in DOMAIN Body[call.fn]
  BY <1>1, <1>2 DEF Running
<1>4. Running => Statement \in [op : {"if", "set"}, var : Slots,
                                 formula : Formulas, skip : Nat]
  BY <1>2, <1>3, ElementOfSeq DEF Running, Statement
<1>5. Running => call.pc + Statement.skip <= Len(Body[call.fn])
  BY <1>1, <1>3, ActionsAssumption DEF Running, Statement
<1> QED  BY <1>1, <1>2, <1>3, <1>4, <1>5

LEMMA RestoredType ==
  ASSUME TypeOK, phase = "body"
  PROVE  Restored \in [Slots -> Values]
<1>1. call.saved \in [Slots -> Values] /\ clientState \in [Slots -> Values]
  BY CallFacts DEF TypeOK
<1> QED  BY <1>1 DEF Restored

LEMMA OrderedFacts ==
  ASSUME TypeOK
  PROVE  /\ Len(ordered) \in Nat
         /\ DOMAIN ordered = 1..Len(ordered)
         /\ next \in Nat
<1>1. ordered \in Seq(DOMAIN subs) /\ next \in 0..(Len(ordered) + 1)
  BY DEF TypeOK
<1>2. Len(ordered) \in Nat /\ DOMAIN ordered = 1..Len(ordered)
  BY <1>1, LenProperties
<1> QED  BY <1>1, <1>2

LEMMA EffectFacts ==
  ASSUME TypeOK, NEW i \in DOMAIN ordered
  PROVE  /\ ordered[i] \in DOMAIN subs
         /\ Effect(i) \in Subscriptions /\ Effect(i)[1] \in Actions
         /\ Effect(i)[2] \in Lets /\ Effect(i)[2] \in Slots
<1>1. ordered \in Seq(DOMAIN subs) /\ subs \in Seq(Subscriptions)
      /\ i \in 1..Len(ordered)
  BY LenProperties DEF TypeOK
<1>2. ordered[i] \in DOMAIN subs
  BY <1>1, ElementOfSeq
<1>3. Effect(i) \in Subscriptions
  BY <1>1, <1>2, ElementOfSeq, LenProperties DEF Effect
<1> QED  BY <1>2, <1>3 DEF Subscriptions, Slots

\* A getter's value is computed from the state.
LEMMA PublishType ==
  ASSUME TypeOK, NEW g \in Gets
  PROVE  Apply(formula[g], [i \in DOMAIN Deps[formula[g]] |->
                              clientState[Deps[formula[g]][i]]]) \in Values
<1> DEFINE f == formula[g]
           args == [i \in DOMAIN Deps[f] |-> clientState[Deps[f][i]]]
<1>1. f \in Formulas /\ clientState \in [Slots -> Values]
  BY DEF TypeOK
<1>2. Deps[f] \in Seq(Slots)
  BY <1>1, FormulasAssumption
<1>3. \A i \in DOMAIN Deps[f] : Deps[f][i] \in Slots
  BY <1>2, ElementOfSeq, LenProperties
<1>4. args \in [DOMAIN Deps[f] -> Values]
  BY <1>1, <1>3
<1> HIDE DEF args, f
<1>5. Apply(f, args) \in Values
  BY <1>1, <1>4, FormulasAssumption
<1> QED  BY <1>5 DEF args, f

LEMMA CompilerType == ASSUME IInv, Compiler PROVE TypeOK'
<1> USE DEF page, history, plan
<1>t. TypeOK
  BY DEF IInv
<1>f. /\ clientState' = clientState /\ clientWrites' = clientWrites
      /\ call' = call /\ seen' = seen /\ ran' = ran /\ turns' = turns
      /\ outcome' = outcome /\ formula' = formula
  BY CompilerFrame
<1>n. next = 0 /\ phase # "body"
  BY CompilerFrame DEF IInv, PhaseInv, Compiling
<1> DEFINE Rest == /\ formula' \in [Gets -> Formulas]
                   /\ clientState' \in [Slots -> Values]
                   /\ clientWrites' \subseteq Slots
                   /\ call' \in {NoCall} \cup
                        [fn : Actions, pc : Nat \ {0}, saved : [Slots -> Values]]
                   /\ turns' \in 0..MaxTurns
                   /\ seen' \in [Subscriptions -> Values]
                   /\ ran' \in [Subscriptions -> Nat]
                   /\ outcome' \in {"ok", "threw"}
<1>r. Rest
  BY <1>t, <1>f DEF TypeOK
<1> HIDE DEF Rest
<1>b. Len(ordered) \in Nat /\ Len(derivedOrder) \in Nat /\ got \in Nat
  BY <1>t, LenProperties DEF TypeOK
<1>1. CASE Declare
  <2>1. declared # <<>> /\ declared' = Tail(declared) /\ phase = "declare"
        /\ phase' = phase
    BY <1>1 DEF Declare
  <2>2. declared' \in Seq(Actions \X Slots) /\ Head(declared) \in Actions \X Slots
    BY <2>1, <1>t, PopFacts DEF TypeOK
  <2>3. subs' = subs \/
          (subs' = Append(subs, Head(declared)) /\ Head(declared) \in Subscriptions)
    BY <1>1, <2>2 DEF Declare, Watchable, Subscriptions
  <2>s. subs \in Seq(Subscriptions)
    BY <1>t DEF TypeOK
  <2>4. subs' \in Seq(Subscriptions)
    BY <2>3, <2>s, AppendProperties
  <2>5. ordered' = <<>> /\ ordered = <<>>
    BY <1>1 DEF Declare, IInv, SubsInv
  <2>6. ordered' \in Seq(DOMAIN subs')
    BY <2>5, EmptySeq
  <2>7. issues' \in BOOLEAN
    BY <1>1 DEF Declare
  <2> QED  BY <1>1, <1>t, <1>r, <2>1, <2>2, <2>4, <2>5, <2>6, <2>7
           DEF TypeOK, Declare, Rest
<1>2. CASE EndDeclare
  BY <1>2, <1>t, <1>r DEF TypeOK, EndDeclare, Rest
<1>3. CASE Place
  <2>1. PICK i \in Unplaced : ordered' = Append(ordered, i)
    BY <1>3 DEF Place
  <2>2. ordered' \in Seq(DOMAIN subs) /\ Len(ordered') = Len(ordered) + 1
    BY <2>1, <1>t, AppendFacts DEF TypeOK, Unplaced
  <2>3. subs' = subs /\ next' = 0 /\ next' \in 0..(Len(ordered') + 1)
    BY <1>3, <1>n, <2>2, <1>b DEF Place
  <2> QED  BY <1>3, <1>t, <1>r, <1>n, <2>2, <2>3 DEF TypeOK, Place, Rest
<1>4. CASE EffectCycle
  BY <1>4, <1>t, <1>r DEF TypeOK, EffectCycle, Rest
<1>5. CASE EndOrder
  BY <1>5, <1>t, <1>r DEF TypeOK, EndOrder, Rest
<1>6. ASSUME NEW g \in Gets, Visit(g), phase = "getters" PROVE TypeOK'
  <2>1. path' \in Seq(Gets)
    BY <1>6, <1>t, PushFacts DEF Visit, TypeOK
  <2> QED  BY <1>6, <1>t, <1>r, <2>1 DEF TypeOK, Visit, Rest
<1>7. CASE VisitRoot
  BY <1>6, <1>7 DEF VisitRoot
<1>8. CASE VisitRead
  BY <1>6, <1>8 DEF VisitRead, GetsRead
<1>9. CASE GetterCycle
  BY <1>9, <1>t, <1>r DEF TypeOK, GetterCycle, Rest
<1>10. CASE AppendGetter
  <2>1. path \in Seq(Gets) /\ path # <<>> /\ derivedOrder \in Seq(Gets)
    BY <1>10, <1>t DEF AppendGetter, TypeOK
  <2>2. path' \in Seq(Gets) /\ Head(path) \in Gets
    BY <1>10, <2>1, PopFacts DEF AppendGetter
  <2>3. derivedOrder' \in Seq(Gets) /\ Len(derivedOrder') = Len(derivedOrder) + 1
    BY <1>10, <2>1, <2>2, AppendFacts DEF AppendGetter
  <2>4. got \in 0..Len(derivedOrder) /\ got' = got
    BY <1>10, <1>t DEF AppendGetter, TypeOK
  <2>5. got' \in 0..Len(derivedOrder')
    BY <1>b, <2>3, <2>4
  <2> QED  BY <1>10, <1>t, <1>r, <2>2, <2>3, <2>5 DEF TypeOK, AppendGetter, Rest
<1>11. CASE Boot
  <2>1. next' \in 0..(Len(ordered') + 1) /\ got' \in 0..Len(derivedOrder')
    BY <1>11, <1>b DEF Boot
  <2> QED  BY <1>11, <1>t, <1>r, <2>1 DEF TypeOK, Boot, Rest
<1> QED  BY <1>1, <1>2, <1>3, <1>4, <1>5, <1>7, <1>8, <1>9, <1>10, <1>11 DEF Compiler

LEMMA PageType == ASSUME IInv, Page PROVE TypeOK'
<1> USE DEF page, history, plan
<1>t. TypeOK
  BY DEF IInv
<1>p. /\ declared' = declared /\ formula' = formula /\ subs' = subs
      /\ issues' = issues /\ ordered' = ordered /\ path' = path
      /\ derivedOrder' = derivedOrder
  BY PageFrame
<1>b. /\ Len(ordered) \in Nat /\ Len(derivedOrder) \in Nat
      /\ DOMAIN ordered = 1..Len(ordered)
      /\ DOMAIN derivedOrder = 1..Len(derivedOrder)
      /\ next \in 0..(Len(ordered) + 1) /\ got \in 0..Len(derivedOrder)
      /\ turns \in 0..MaxTurns /\ MaxTurns \in Nat
      /\ 0 \in 0..(Len(ordered) + 1) /\ 1 \in 0..(Len(ordered) + 1)
      /\ 0 \in 0..Len(derivedOrder)
  BY <1>t, LenProperties, SlotsAssumption DEF TypeOK
<1> DEFINE Rest == /\ declared' \in Seq(Actions \X Slots)
                   /\ formula' \in [Gets -> Formulas]
                   /\ subs' \in Seq(Subscriptions)
                   /\ issues' \in BOOLEAN
                   /\ ordered' \in Seq(DOMAIN subs')
                   /\ path' \in Seq(Gets)
                   /\ derivedOrder' \in Seq(Gets)
                   /\ ordered' = ordered /\ derivedOrder' = derivedOrder
<1>r. Rest
  BY <1>t, <1>p DEF TypeOK
<1> HIDE DEF Rest
<1>1. CASE Dispatch
  <2>1. PICK d \in Dispatches :
          /\ call' = [fn |-> d[1], pc |-> 1, saved |-> clientState]
          /\ clientState' = [v \in Slots |-> IF v \in Params[d[1]]
                                               THEN d[2][v] ELSE clientState[v]]
    BY <1>1 DEF Dispatch
  <2>2. d[1] \in Actions /\ d[2] \in [Params[d[1]] -> Values]
    BY PageAssumption
  <2>3. clientState \in [Slots -> Values]
    BY <1>t DEF TypeOK
  <2>4. clientState' \in [Slots -> Values]
    BY <2>1, <2>2, <2>3
  <2>5. call' \in Frame /\ call'.fn = d[1] /\ call'.pc = 1
    BY <2>1, <2>2, <2>3 DEF Frame
  <2>6. Len(Body[call'.fn]) \in Nat
    BY <2>2, <2>5, ActionsAssumption, LenProperties
  <2>7. call' # NoCall /\ call'.pc <= Len(Body[call'.fn]) + 1
    BY <2>5, <2>6, ActionsAssumption DEF Frame
  <2>8. turns' \in 0..MaxTurns /\ ran' \in [Subscriptions -> Nat]
    <3>1. turns < MaxTurns /\ turns' = turns + 1
          /\ ran' = [s \in Subscriptions |-> 0]
      BY <1>1 DEF Dispatch, NewTurn
    <3> QED  BY <3>1, <1>b
  <2>9. /\ phase' = "body" /\ next' = 0 /\ got' = got /\ seen' = seen
        /\ outcome' = outcome /\ clientWrites' = clientWrites
    BY <1>1 DEF Dispatch, NewTurn
  <2> QED  BY <1>t, <1>r, <1>b, <2>4, <2>5, <2>7, <2>8, <2>9
           DEF TypeOK, Rest, Frame
<1>2. CASE Arrive
  <2>1. PICK a \in Arrivals : clientState' = [clientState EXCEPT ![a[1]] = a[2]]
    BY <1>2 DEF Arrive
  <2>2. a[2] \in Values
    BY PageAssumption
  <2>3. clientState' \in [Slots -> Values]
    BY <2>1, <2>2, <1>t DEF TypeOK
  <2>4. turns' \in 0..MaxTurns /\ ran' \in [Subscriptions -> Nat]
    <3>1. turns < MaxTurns /\ turns' = turns + 1
          /\ ran' = [s \in Subscriptions |-> 0]
      BY <1>2 DEF Arrive, NewTurn
    <3> QED  BY <3>1, <1>b
  <2>5. /\ phase' = "publish" /\ next' = 1 /\ got' = 0 /\ seen' = seen
        /\ call' = call /\ outcome' = outcome /\ clientWrites' = clientWrites
    BY <1>2 DEF Arrive, NewTurn
  <2> QED  BY <1>t, <1>r, <1>b, <2>3, <2>4, <2>5 DEF TypeOK, Rest
<1>3. CASE If
  <2>1. Running /\ phase = "body" /\ phase' = "body"
    BY <1>3 DEF If, Running
  <2>2. call \in Frame /\ Len(Body[call.fn]) \in Nat /\ call.pc \in Nat \ {0}
        /\ Statement.skip \in Nat /\ call.pc + Statement.skip <= Len(Body[call.fn])
    BY <2>1, <1>t, CallFacts
  <2>3. PICK n \in Nat : /\ call' = [call EXCEPT !.pc = @ + n]
                         /\ call.pc + n <= Len(Body[call.fn]) + 1
    <3>1. CASE Result \in Falsy
      <4>1. call' = [call EXCEPT !.pc = @ + (1 + Statement.skip)]
        BY <1>3, <3>1 DEF If, SkipGuarded
      <4>2. 1 + Statement.skip \in Nat
            /\ call.pc + (1 + Statement.skip) <= Len(Body[call.fn]) + 1
        BY <2>2
      <4> QED  BY <4>1, <4>2
    <3>2. CASE Result \notin Falsy
      <4>1. call' = [call EXCEPT !.pc = @ + 1]
        BY <1>3, <3>2 DEF If
      <4>2. call.pc + 1 <= Len(Body[call.fn]) + 1
        BY <2>2
      <4> QED  BY <4>1, <4>2
    <3> QED  BY <3>1, <3>2
  <2>4. call' \in Frame /\ call'.fn = call.fn /\ call'.pc = call.pc + n
    BY <2>2, <2>3 DEF Frame
  <2>5. call' # NoCall /\ call'.pc <= Len(Body[call'.fn]) + 1
    BY <2>3, <2>4, ActionsAssumption DEF Frame
  <2>6. /\ clientState' = clientState /\ next' = next /\ got' = got
        /\ seen' = seen /\ ran' = ran /\ turns' = turns
        /\ outcome' = outcome /\ clientWrites' = clientWrites
    BY <1>3 DEF If
  <2> QED  BY <1>t, <1>r, <2>1, <2>4, <2>5, <2>6 DEF TypeOK, Rest, Frame
<1>4. CASE Set
  <2>1. Running /\ phase = "body" /\ phase' = "body" /\ Result \in Values
    BY <1>4 DEF Set, Running
  <2>2. call \in Frame /\ Len(Body[call.fn]) \in Nat /\ call.pc \in Nat \ {0}
        /\ Statement.var \in Slots /\ call.pc <= Len(Body[call.fn])
    BY <2>1, <1>t, CallFacts DEF Running
  <2>3. call' = [call EXCEPT !.pc = @ + 1]
    BY <1>4 DEF Set
  <2>4. call' \in Frame /\ call'.fn = call.fn /\ call'.pc = call.pc + 1
    BY <2>2, <2>3 DEF Frame
  <2>5. call' # NoCall /\ call'.pc <= Len(Body[call'.fn]) + 1
    BY <2>2, <2>4, ActionsAssumption DEF Frame
  <2>6. clientState' \in [Slots -> Values]
    BY <1>4, <2>1, <2>2, <1>t DEF Set, TypeOK
  <2>7. clientWrites' \subseteq Slots
    BY <1>4, <2>2, <1>t DEF Set, Record, TypeOK
  <2>8. /\ next' = next /\ got' = got /\ seen' = seen /\ ran' = ran
        /\ turns' = turns /\ outcome' = outcome
    BY <1>4 DEF Set
  <2> QED  BY <1>t, <1>r, <2>1, <2>4, <2>5, <2>6, <2>7, <2>8
           DEF TypeOK, Rest, Frame
<1>5. CASE BodyDone
  <2>1. phase = "body" /\ clientState' = Restored /\ next' = next + 1
        /\ got' = 0 /\ phase' = "publish" /\ call' = NoCall
        /\ clientWrites' = clientWrites /\ seen' = seen /\ ran' = ran
        /\ turns' = turns /\ outcome' = outcome
    BY <1>5 DEF BodyDone
  <2>2. clientState' \in [Slots -> Values]
    BY <2>1, <1>t, RestoredType
  <2>3. next' \in 0..(Len(ordered) + 1)
    <3>1. next > 0 => next \in 1..Len(ordered)
      BY <1>b, <2>1 DEF IInv, PhaseInv
    <3> QED  BY <3>1, <2>1, <1>b
  <2> QED  BY <1>t, <1>r, <1>b, <2>1, <2>2, <2>3 DEF TypeOK, Rest
<1>6. CASE Publish
  <2>1. got < Len(derivedOrder) /\ got' = got + 1 /\ phase = "publish"
    BY <1>6 DEF Publish
  <2>2. got' \in 0..Len(derivedOrder) /\ got + 1 \in 1..Len(derivedOrder)
    BY <2>1, <1>b
  <2>3. derivedOrder[got + 1] \in Gets
    BY <2>2, <1>t, ElementOfSeq DEF TypeOK
  <2>4. PICK g \in Gets : clientState' = [clientState EXCEPT ![g] =
          Apply(formula[g], [i \in DOMAIN Deps[formula[g]] |->
                               clientState[Deps[formula[g]][i]]])]
    BY <1>6, <2>3 DEF Publish
  <2>5. clientState' \in [Slots -> Values]
    BY <2>4, <1>t, PublishType DEF TypeOK
  <2>6. /\ phase' = phase /\ next' = next /\ seen' = seen /\ ran' = ran
        /\ turns' = turns /\ outcome' = outcome /\ call' = call
        /\ clientWrites' = clientWrites
    BY <1>6 DEF Publish
  <2> QED  BY <1>t, <1>r, <2>1, <2>2, <2>5, <2>6 DEF TypeOK, Rest
<1>7. CASE Published
  BY <1>7, <1>t, <1>r DEF Published, TypeOK, Rest
<1>8. CASE SkipEffect
  <2>1. next' \in 0..(Len(ordered) + 1)
    BY <1>8, <1>b DEF SkipEffect, Considers
  <2> QED  BY <1>8, <1>t, <1>r, <2>1 DEF SkipEffect, Considers, TypeOK, Rest
<1>9. CASE RunEffect
  <2> DEFINE s == Effect(next)
  <2>1. next \in DOMAIN ordered
    <3>1. next > 0 /\ next <= Len(ordered)
      BY <1>9 DEF RunEffect, Considers, IInv, PhaseInv
    <3> QED  BY <3>1, <1>b
  <2>2. s \in Subscriptions /\ s[1] \in Actions /\ s[2] \in Slots
    BY <2>1, <1>t, EffectFacts
  <2> HIDE DEF s
  <2>3. /\ call' = [fn |-> s[1], pc |-> 1, saved |-> clientState]
        /\ seen' = [seen EXCEPT ![s] = clientState[s[2]]]
        /\ ran' = [ran EXCEPT ![s] = @ + 1]
        /\ phase' = "body" /\ clientState' = clientState /\ next' = next
        /\ clientWrites' = clientWrites /\ got' = got
        /\ turns' = turns /\ outcome' = outcome
    BY <1>9 DEF RunEffect, s
  <2>4. clientState \in [Slots -> Values] /\ seen \in [Subscriptions -> Values]
        /\ ran \in [Subscriptions -> Nat]
    BY <1>t DEF TypeOK
  <2>5. call' \in Frame /\ call'.fn = s[1] /\ call'.pc = 1
    BY <2>2, <2>3, <2>4 DEF Frame
  <2>6. Len(Body[call'.fn]) \in Nat
    BY <2>2, <2>5, ActionsAssumption, LenProperties
  <2>7. call' # NoCall /\ call'.pc <= Len(Body[call'.fn]) + 1
    BY <2>5, <2>6, ActionsAssumption DEF Frame
  <2>8. seen' \in [Subscriptions -> Values] /\ ran' \in [Subscriptions -> Nat]
    BY <2>2, <2>3, <2>4
  <2> QED  BY <1>t, <1>r, <2>3, <2>5, <2>7, <2>8 DEF TypeOK, Rest, Frame
<1>10. CASE EffectsDone
  BY <1>10, <1>t, <1>r, <1>b DEF EffectsDone, NoWrites, TypeOK, Rest
<1>11. CASE ActionThrows
  <2>1. phase = "body" /\ clientState' = Restored
    BY <1>11 DEF ActionThrows, Running
  <2>2. clientState' \in [Slots -> Values]
    BY <2>1, <1>t, RestoredType
  <2> QED  BY <1>11, <1>t, <1>r, <2>2 DEF ActionThrows, TypeOK, Rest
<1>12. CASE FlushThrows
  <2>1. \A s \in Subscriptions : s[2] \in Slots
    BY DEF Subscriptions, Slots
  <2>2. seen' \in [Subscriptions -> Values]
    BY <1>12, <2>1, <1>t DEF FlushThrows, TypeOK
  <2> QED  BY <1>12, <1>t, <1>r, <1>b, <2>2 DEF FlushThrows, TypeOK, Rest
<1> QED  BY <1>1, <1>2, <1>3, <1>4, <1>5, <1>6, <1>7, <1>8, <1>9, <1>10,
            <1>11, <1>12 DEF Page

-----------------------------------------------------------------------------
(* The plan.                                                               *)

LEMMA PagePlan ==
  ASSUME IInv, Page
  PROVE  SubsInv' /\ PlacedInv' /\ StableInv' /\ GettersInv'
<1>1. /\ ~Compiling /\ ~Compiling'
      /\ formula' = formula /\ subs' = subs /\ ordered' = ordered
      /\ path' = path /\ derivedOrder' = derivedOrder
  BY PageFrame
<1>2. \A i : Effect(i)' = Effect(i)
  BY <1>1 DEF Effect
<1>3. Unplaced' = Unplaced /\ \A u : Ready(u)' = Ready(u)
  BY <1>1 DEF Unplaced, Ready
<1>4. SubsInv'
  BY <1>1, <1>3 DEF IInv, SubsInv, Compiling, Planned
<1>5. PlacedInv' /\ StableInv'
  BY <1>1, <1>2, <1>3 DEF IInv, PlacedInv, StableInv
<1>6. \A g : GetsRead(g)' = GetsRead(g)
  BY <1>1 DEF GetsRead
<1>7. GettersInv'
  BY <1>1, <1>6 DEF IInv, GettersInv, Compiling
<1> QED  BY <1>4, <1>5, <1>7

\* What a placement does.
LEMMA PlaceFacts ==
  ASSUME IInv, Place
  PROVE  \E x \in Unplaced, n \in Nat :
           /\ Ready(x) /\ FirstReady(x)
           /\ subs' = subs /\ phase' = phase /\ phase = "order"
           /\ Unplaced' = Unplaced \ {x}
           /\ DOMAIN ordered = 1..n
           /\ DOMAIN ordered' = 1..n + 1
           /\ \A i \in 1..n : ordered'[i] = ordered[i]
           /\ \A i \in 1..n : Effect(i)' = Effect(i)
           /\ ordered'[n + 1] = x
           /\ Effect(n + 1)' = subs[x]
<1>1. PICK x \in Unplaced : Ready(x) /\ FirstReady(x) /\ ordered' = Append(ordered, x)
  BY DEF Place
<1>2. ordered \in Seq(DOMAIN subs) /\ x \in DOMAIN subs
  BY DEF IInv, TypeOK, Unplaced
<1>3. subs' = subs /\ phase' = phase /\ phase = "order"
  BY DEF Place
<1>4. PICK n \in Nat :
      /\ DOMAIN ordered = 1..n
      /\ DOMAIN ordered' = 1..n + 1
      /\ \A i \in 1..n : ordered'[i] = ordered[i]
      /\ ordered'[n + 1] = x
      /\ Range(ordered') = Range(ordered) \cup {x}
  <2>1. /\ Len(ordered) \in Nat /\ DOMAIN ordered = 1..Len(ordered)
        /\ DOMAIN ordered' = 1..Len(ordered) + 1
        /\ \A i \in 1..Len(ordered) : ordered'[i] = ordered[i]
        /\ ordered'[Len(ordered) + 1] = x
        /\ Range(ordered') = Range(ordered) \cup {x}
    BY <1>1, <1>2, AppendFacts
  <2> QED  BY <2>1
<1>5. Unplaced' = Unplaced \ {x}
  BY <1>3, <1>4 DEF Unplaced
<1>6. /\ \A i \in 1..n : Effect(i)' = Effect(i)
      /\ Effect(n + 1)' = subs[x]
  BY <1>3, <1>4 DEF Effect
<1> QED  BY <1>1, <1>3, <1>4, <1>5, <1>6

LEMMA SubsStep == ASSUME IInv, Compiler PROVE SubsInv'
<1> USE DEF page, history, plan
<1>i. SubsInv
  BY DEF IInv
<1>1. CASE Declare
  <2> DEFINE s == Head(declared)
  <2>1. subs \in Seq(Subscriptions) /\ ordered = <<>> /\ ordered' = <<>>
        /\ phase' = "declare"
    BY <1>1 DEF IInv, TypeOK, SubsInv, Declare
  <2>2. s \in Actions \X Slots
    BY <1>1, PopFacts DEF IInv, TypeOK, Declare
  <2>3. CASE subs' = subs
    BY <2>1, <2>3, <1>i DEF SubsInv, Planned
  <2>4. CASE subs' = Append(subs, s) /\ Watchable(s) /\ NewSubscription(s)
    <3>1. s \in Subscriptions /\ Params[s[1]] = {} /\ s \notin Range(subs)
      BY <2>2, <2>4 DEF Watchable, Subscriptions, NewSubscription
    <3> HIDE DEF s
    <3>2. /\ Len(subs) \in Nat /\ DOMAIN subs = 1..Len(subs)
          /\ DOMAIN subs' = 1..Len(subs) + 1
          /\ \A i \in 1..Len(subs) : subs'[i] = subs[i]
          /\ subs'[Len(subs) + 1] = s
      BY <2>1, <2>4, <3>1, AppendFacts
    <3>3. \A i \in 1..Len(subs) : subs'[i] # s
      BY <3>1, <3>2 DEF Range
    <3>4. ASSUME NEW i \in DOMAIN subs', NEW j \in DOMAIN subs', subs'[i] = subs'[j]
          PROVE  i = j
      <4>1. CASE i \in 1..Len(subs) /\ j \in 1..Len(subs)
        BY <3>2, <3>4, <4>1, <1>i DEF SubsInv
      <4>2. CASE i = Len(subs) + 1 \/ j = Len(subs) + 1
        BY <3>2, <3>3, <3>4, <4>2
      <4> QED  BY <3>2, <4>1, <4>2
    <3>5. ASSUME NEW i \in DOMAIN subs' PROVE Params[subs'[i][1]] = {}
      <4>1. CASE i \in 1..Len(subs)
        BY <3>2, <4>1, <1>i DEF SubsInv
      <4>2. CASE i = Len(subs) + 1
        BY <3>1, <3>2, <4>2
      <4> QED  BY <3>2, <4>1, <4>2
    <3> QED  BY <2>1, <3>4, <3>5 DEF SubsInv, Planned
  <2> QED  BY <1>1, <2>3, <2>4 DEF Declare
<1>2. CASE EndDeclare
  BY <1>2, <1>i DEF EndDeclare, SubsInv, Planned
<1>3. CASE Place
  <2>1. subs' = subs /\ phase' = "order"
    BY <1>3 DEF Place
  <2> QED  BY <2>1, <1>i DEF SubsInv, Planned
<1>4. CASE EffectCycle
  <2>1. /\ subs' = subs /\ ordered' = ordered /\ phase' = "effectCycle"
        /\ Unplaced # {} /\ \A i \in Unplaced : ~Ready(i)
    BY <1>4 DEF EffectCycle
  <2>2. Unplaced' = Unplaced /\ \A u : Ready(u)' = Ready(u)
    BY <2>1 DEF Unplaced, Ready
  <2> QED  BY <2>1, <2>2, <1>i DEF SubsInv, Planned
<1>5. CASE EndOrder
  <2>1. subs' = subs /\ ordered' = ordered /\ phase' \in {"refused", "getters"}
        /\ Unplaced = {}
    BY <1>5 DEF EndOrder
  <2>2. Unplaced' = {}
    BY <2>1 DEF Unplaced
  <2> QED  BY <2>1, <2>2, <1>i DEF SubsInv, Planned
<1>6. CASE VisitRoot \/ VisitRead \/ GetterCycle \/ AppendGetter \/ Boot
  <2>1. /\ subs' = subs /\ ordered' = ordered /\ phase = "getters"
        /\ phase' \in {"getters", "getterCycle", "publish"}
    BY <1>6 DEF VisitRoot, VisitRead, Visit, GetterCycle, AppendGetter, Boot
  <2>2. Unplaced' = Unplaced
    BY <2>1 DEF Unplaced
  <2> QED  BY <2>1, <2>2, <1>i DEF SubsInv, Planned
<1> QED  BY <1>1, <1>2, <1>3, <1>4, <1>5, <1>6 DEF Compiler

\* Nothing is placed while effects are declared, and only a placement changes
\* the order.
LEMMA OrderFrame ==
  ASSUME IInv, Compiler, ~Place
  PROVE  \/ ordered' = <<>> /\ DOMAIN ordered' = {}
         \/ /\ subs' = subs /\ ordered' = ordered /\ Unplaced' = Unplaced
            /\ \A i : Effect(i)' = Effect(i)
            /\ \A u : Ready(u)' = Ready(u)
<1> USE DEF page, history, plan
<1>1. CASE Declare
  <2>1. ordered' = <<>>
    BY <1>1 DEF Declare, IInv, SubsInv
  <2> QED  BY <2>1
<1>2. CASE ~Declare
  <2>1. subs' = subs /\ ordered' = ordered
    BY <1>2 DEF Compiler, EndDeclare, EffectCycle, EndOrder, VisitRoot,
                VisitRead, Visit, GetterCycle, AppendGetter, Boot
  <2>2. Unplaced' = Unplaced /\ \A i : Effect(i)' = Effect(i)
    BY <2>1 DEF Unplaced, Effect
  <2>3. \A u : Ready(u)' = Ready(u)
    BY <2>1, <2>2 DEF Ready
  <2> QED  BY <2>1, <2>2, <2>3
<1> QED  BY <1>1, <1>2

LEMMA PlacedStep == ASSUME IInv, Compiler PROVE PlacedInv'
<1>i. PlacedInv
  BY DEF IInv
<1>1. CASE ~Place
  BY <1>1, <1>i, OrderFrame DEF PlacedInv
<1>2. CASE Place
  <2>1. PICK x \in Unplaced, n \in Nat :
           /\ Ready(x) /\ subs' = subs /\ Unplaced' = Unplaced \ {x}
           /\ DOMAIN ordered = 1..n
           /\ DOMAIN ordered' = 1..n + 1
           /\ \A i \in 1..n : ordered'[i] = ordered[i]
           /\ \A i \in 1..n : Effect(i)' = Effect(i)
           /\ ordered'[n + 1] = x
           /\ Effect(n + 1)' = subs[x]
    BY <1>2, PlaceFacts
  <2>2. x \notin Range(ordered) /\ \A i \in 1..n : ordered[i] # x
    BY <2>1 DEF Unplaced, Range
  <2>3. \A u \in Unplaced : subs[x][2] \notin Writes(subs[u][1])
    BY <2>1 DEF Ready
  <2>4. ASSUME NEW i \in DOMAIN ordered', NEW j \in DOMAIN ordered',
               ordered'[i] = ordered'[j]
        PROVE  i = j
    <3>1. CASE i \in 1..n /\ j \in 1..n
      BY <2>1, <2>4, <3>1, <1>i DEF PlacedInv
    <3>2. CASE i = n + 1 \/ j = n + 1
      BY <2>1, <2>2, <2>4, <3>2
    <3> QED  BY <2>1, <3>1, <3>2
  <2>5. ASSUME NEW i \in DOMAIN ordered', NEW j \in DOMAIN ordered',
               Effect(j)'[2] \in Writes(Effect(i)'[1])
        PROVE  i < j
    <3>1. CASE i \in 1..n /\ j \in 1..n
      BY <2>1, <2>5, <3>1, <1>i DEF PlacedInv
    <3>2. CASE i \in 1..n /\ j = n + 1
      BY <2>1, <3>2
    <3>3. CASE i = n + 1 /\ j \in 1..n
      BY <2>1, <2>5, <3>3, <1>i DEF PlacedInv
    <3>4. CASE i = n + 1 /\ j = n + 1
      BY <2>1, <2>3, <2>5, <3>4
    <3> QED  BY <2>1, <3>1, <3>2, <3>3, <3>4
  <2>6. ASSUME NEW i \in DOMAIN ordered', NEW u \in Unplaced'
        PROVE  Effect(i)'[2] \notin Writes(subs'[u][1])
    <3>1. CASE i \in 1..n
      BY <2>1, <2>6, <3>1, <1>i DEF PlacedInv
    <3>2. CASE i = n + 1
      BY <2>1, <2>3, <2>6, <3>2
    <3> QED  BY <2>1, <3>1, <3>2
  <2> QED  BY <2>4, <2>5, <2>6 DEF PlacedInv
<1> QED  BY <1>1, <1>2

LEMMA StableStep == ASSUME IInv, Compiler PROVE StableInv'
<1>i. StableInv
  BY DEF IInv
<1>1. CASE ~Place
  BY <1>1, <1>i, OrderFrame DEF StableInv
<1>2. CASE Place
  <2>1. PICK x \in Unplaced, n \in Nat :
           /\ Ready(x) /\ FirstReady(x) /\ subs' = subs
           /\ Unplaced' = Unplaced \ {x}
           /\ DOMAIN ordered = 1..n
           /\ DOMAIN ordered' = 1..n + 1
           /\ \A i \in 1..n : ordered'[i] = ordered[i]
           /\ \A i \in 1..n : Effect(i)' = Effect(i)
           /\ ordered'[n + 1] = x
           /\ Effect(n + 1)' = subs[x]
    BY <1>2, PlaceFacts
  <2>x. ordered \in Seq(DOMAIN subs) /\ DOMAIN subs \subseteq Nat
        /\ Unplaced \subseteq DOMAIN subs
    BY LenProperties DEF IInv, TypeOK, Unplaced
  <2>y. \A i \in 1..n : ordered[i] \in Nat
    BY <2>x, <2>1, ElementOfSeq, LenProperties
  <2>2. ASSUME NEW i \in DOMAIN ordered', NEW j \in DOMAIN ordered',
               i < j, ordered'[j] < ordered'[i]
        PROVE  \E k \in DOMAIN ordered' :
                 i <= k /\ k < j /\ Effect(j)'[2] \in Writes(Effect(k)'[1])
    <3>1. CASE j \in 1..n
      <4>1. i \in 1..n
        BY <2>1, <2>2, <3>1
      <4>2. PICK k \in 1..n :
              i <= k /\ k < j /\ Effect(j)[2] \in Writes(Effect(k)[1])
        BY <2>1, <2>2, <3>1, <4>1, <1>i DEF StableInv
      <4>3. k \in DOMAIN ordered'
        BY <2>1
      <4> QED  BY <2>1, <3>1, <4>2, <4>3
    <3>2. CASE j = n + 1
      <4>1. i \in 1..n /\ x < ordered[i]
        BY <2>1, <2>2, <3>2
      <4>2. PICK k \in 1..n : i <= k /\ subs[x][2] \in Writes(Effect(k)[1])
        BY <2>1, <4>1, <1>i DEF StableInv
      <4>3. k \in DOMAIN ordered' /\ k < j
        BY <2>1, <3>2
      <4> QED  BY <2>1, <3>2, <4>2, <4>3
    <3> QED  BY <2>1, <3>1, <3>2
  <2>3. ASSUME NEW u \in Unplaced', ~Ready(u)
        PROVE  ~Ready(u)' \/ subs[u][2] \in Writes(Effect(n + 1)'[1])
    <3>1. PICK j \in Unplaced : subs[u][2] \in Writes(subs[j][1])
      BY <2>3 DEF Ready
    <3>2. CASE j = x
      BY <2>1, <3>1, <3>2
    <3>3. CASE j # x
      <4>1. j \in Unplaced' /\ subs'[u][2] \in Writes(subs'[j][1])
        BY <2>1, <3>1, <3>3
      <4> QED  BY <4>1 DEF Ready
    <3> QED  BY <3>2, <3>3
  <2>4. ASSUME NEW i \in DOMAIN ordered', NEW u \in Unplaced', u < ordered'[i]
        PROVE  \/ ~Ready(u)'
               \/ \E k \in DOMAIN ordered' :
                    i <= k /\ subs'[u][2] \in Writes(Effect(k)'[1])
    <3>n. n + 1 \in DOMAIN ordered' /\ i <= n + 1
      BY <2>1
    <3>1. CASE ~Ready(u)
      BY <2>1, <2>3, <3>1, <3>n
    <3>2. CASE Ready(u) /\ i \in 1..n
      <4>1. u < ordered[i] /\ u \in Unplaced
        BY <2>1, <2>4, <3>2
      <4>2. PICK k \in 1..n : i <= k /\ subs[u][2] \in Writes(Effect(k)[1])
        BY <2>1, <3>2, <4>1, <1>i DEF StableInv
      <4>3. k \in DOMAIN ordered'
        BY <2>1
      <4> QED  BY <2>1, <4>2, <4>3
    <3>3. CASE Ready(u) /\ i = n + 1
      BY <2>1, <2>4, <3>3 DEF FirstReady
    <3> QED  BY <2>1, <3>1, <3>2, <3>3
  <2> QED  BY <2>2, <2>4 DEF StableInv
<1> QED  BY <1>1, <1>2

LEMMA GettersStep == ASSUME IInv, Compiler PROVE GettersInv'
<1> USE DEF page, history, plan
<1>i. GettersInv
  BY DEF IInv
<1>t. path \in Seq(Gets) /\ derivedOrder \in Seq(Gets)
  BY DEF IInv, TypeOK
<1>g. formula' = formula
  BY CompilerFrame
<1>f. \A g : GetsRead(g)' = GetsRead(g)
  BY <1>g DEF GetsRead
<1>1. CASE Declare \/ EndDeclare \/ Place \/ EffectCycle \/ EndOrder
  <2>1. path' = path /\ derivedOrder' = derivedOrder
        /\ phase' \in {"declare", "order", "refused", "effectCycle", "getters"}
    BY <1>1 DEF Declare, EndDeclare, Place, EffectCycle, EndOrder
  <2> QED  BY <2>1, <1>i, <1>f DEF GettersInv, Compiling
<1>2. ASSUME NEW g \in Gets, Visit(g), phase = "getters", g \notin Range(derivedOrder),
             g \notin Range(path), path # <<>> => g \in GetsRead(Head(path))
      PROVE  GettersInv'
  <2>1. path' = <<g>> \o path /\ derivedOrder' = derivedOrder /\ phase' = "getters"
    BY <1>2 DEF Visit
  <2>2. PICK n \in Nat :
          /\ n = Len(path) /\ DOMAIN path = 1..n
          /\ DOMAIN path' = 1..n + 1 /\ path'[1] = g
          /\ \A i \in 2..n + 1 : path'[i] = path[i - 1] /\ i - 1 \in 1..n
    <3>1. path \in Seq(Gets)
      BY <1>t
    <3>2. /\ Len(path) \in Nat /\ DOMAIN path = 1..Len(path)
          /\ DOMAIN (<<g>> \o path) = 1..Len(path) + 1
          /\ (<<g>> \o path)[1] = g
          /\ \A i \in 2..Len(path) + 1 : (<<g>> \o path)[i] = path[i - 1]
      BY <3>1, PushFacts
    <3>3. \A i \in 2..Len(path) + 1 : i - 1 \in 1..Len(path)
      BY <3>2
    <3>4. path' = <<g>> \o path
      BY <2>1
    <3> QED  BY ONLY <3>2, <3>3, <3>4
  <2>3. \A i \in 1..n : path[i] # g
    BY <1>2, <2>2 DEF Range
  <2>4. ASSUME NEW i \in DOMAIN path', NEW j \in DOMAIN path', path'[i] = path'[j]
        PROVE  i = j
    <3>1. CASE i \in 2..n + 1 /\ j \in 2..n + 1
      <4>1. \A k, l \in DOMAIN path : path[k] = path[l] => k = l
        BY <1>i DEF GettersInv
      <4>2. /\ i - 1 \in DOMAIN path /\ j - 1 \in DOMAIN path
            /\ path[i - 1] = path[j - 1]
        BY <2>2, <2>4, <3>1
      <4>3. i - 1 = j - 1
        BY <4>1, <4>2
      <4> QED  BY <4>3, <3>1
    <3>2. CASE i = 1 \/ j = 1
      BY <2>2, <2>3, <2>4, <3>2
    <3> QED  BY <2>2, <3>1, <3>2
  <2>5. ASSUME NEW i \in DOMAIN path' PROVE path'[i] \notin Range(derivedOrder')
    <3>1. CASE i \in 2..n + 1
      BY <2>1, <2>2, <3>1, <1>i DEF GettersInv
    <3>2. CASE i = 1
      BY <1>2, <2>1, <2>2, <3>2
    <3> QED  BY <2>2, <3>1, <3>2
  <2>6. ASSUME NEW i \in DOMAIN path', i > 1 PROVE path'[i - 1] \in GetsRead(path'[i])
    <3>1. i \in 2..n + 1 /\ path'[i] = path[i - 1] /\ i - 1 \in 1..n
      BY <2>2, <2>6
    <3>2. CASE i = 2
      <4>1. path # <<>> /\ Head(path) = path[1]
        BY <2>2, <3>1, <3>2, <1>t, EmptySeq, PopFacts
      <4>2. path'[1] = g /\ path'[2] = path[1]
        BY <2>2, <3>1, <3>2
      <4> QED  BY <1>2, <3>2, <4>1, <4>2
    <3>3. CASE i > 2
      <4>1. i - 1 \in 2..n + 1 /\ path'[i - 1] = path[(i - 1) - 1] /\ i - 1 > 1
        BY <2>2, <3>1, <3>3
      <4> QED  BY <2>2, <3>1, <4>1, <1>i DEF GettersInv
    <3> QED  BY <3>1, <3>2, <3>3
  <2> QED  BY <2>1, <2>4, <2>5, <2>6, <1>i, <1>g DEF GettersInv, Compiling, GetsRead
<1>3. CASE VisitRoot
  <2>1. PICK g \in Gets : g \notin Range(derivedOrder) /\ Visit(g)
    BY <1>3 DEF VisitRoot
  <2>2. path = <<>> /\ phase = "getters" /\ Range(path) = {}
    BY <1>3, EmptySeq DEF VisitRoot, Range
  <2> QED  BY <1>2, <2>1, <2>2
<1>4. CASE VisitRead
  <2>1. PICK g \in GetsRead(Head(path)) :
          g \notin Range(derivedOrder) /\ g \notin Range(path) /\ Visit(g)
    BY <1>4 DEF VisitRead
  <2>2. phase = "getters" /\ g \in Gets
    BY <1>4 DEF VisitRead, GetsRead
  <2> QED  BY <1>2, <2>1, <2>2
<1>5. CASE GetterCycle
  <2>1. path' = path /\ derivedOrder' = derivedOrder /\ phase' = "getterCycle"
        /\ path # <<>> /\ GetsRead(Head(path)) \cap Range(path) # {}
    BY <1>5 DEF GetterCycle
  <2>2. GetsRead(Head(path))' = GetsRead(Head(path))
    BY <2>1, CompilerFrame DEF GetsRead
  <2> QED  BY <2>1, <2>2, <1>i, <1>f DEF GettersInv, Compiling
<1>6. CASE AppendGetter
  <2>1. /\ path # <<>> /\ path' = Tail(path) /\ phase' = "getters"
        /\ GetsRead(Head(path)) \subseteq Range(derivedOrder)
        /\ derivedOrder' = Append(derivedOrder, Head(path))
    BY <1>6 DEF AppendGetter, ReadsComplete
  <2>2. PICK m \in Nat \ {0} :
          /\ m = Len(path) /\ DOMAIN path = 1..m /\ DOMAIN path' = 1..m - 1
          /\ Head(path) = path[1] /\ Head(path) \in Gets
          /\ \A i \in 1..m - 1 : path'[i] = path[i + 1] /\ i + 1 \in 1..m
    BY <2>1, <1>t, PopFacts
  <2>3. PICK h \in Gets : h = path[1] /\ h = Head(path)
    BY <2>2
  <2>4. PICK n \in Nat :
          /\ DOMAIN derivedOrder = 1..n /\ DOMAIN derivedOrder' = 1..n + 1
          /\ \A i \in 1..n : derivedOrder'[i] = derivedOrder[i]
          /\ derivedOrder'[n + 1] = h
          /\ Range(derivedOrder') = Range(derivedOrder) \cup {h}
    BY <2>1, <2>3, <1>t, AppendFacts
  <2>5. h \notin Range(derivedOrder) /\ \A i \in 1..n : derivedOrder[i] # h
    <3>1. 1 \in DOMAIN path
      BY <2>2
    <3>2. h \notin Range(derivedOrder)
      BY <2>3, <3>1, <1>i DEF GettersInv
    <3> QED  BY <2>4, <3>2 DEF Range
  <2>6. ASSUME NEW i \in DOMAIN path', NEW j \in DOMAIN path', path'[i] = path'[j]
        PROVE  i = j
    <3>1. i + 1 \in DOMAIN path /\ j + 1 \in DOMAIN path /\ path[i + 1] = path[j + 1]
      BY <2>2, <2>6
    <3>2. i + 1 = j + 1
      BY <3>1, <1>i DEF GettersInv
    <3> QED  BY <3>2, <2>2
  <2>7. ASSUME NEW i \in DOMAIN path' PROVE path'[i] \notin Range(derivedOrder')
    <3>1. path'[i] = path[i + 1] /\ i + 1 \in 1..m /\ 1 \in 1..m /\ i + 1 # 1
      BY <2>2
    <3>2. path[i + 1] # h
      BY <2>2, <2>3, <3>1, <1>i DEF GettersInv
    <3>3. path[i + 1] \notin Range(derivedOrder)
      BY <2>2, <3>1, <1>i DEF GettersInv
    <3> QED  BY <2>4, <3>1, <3>2, <3>3
  <2>8. ASSUME NEW i \in DOMAIN path', i > 1 PROVE path'[i - 1] \in GetsRead(path'[i])
    <3>1. /\ path'[i] = path[i + 1] /\ i + 1 \in 1..m /\ i + 1 > 1
          /\ path'[i - 1] = path[(i - 1) + 1] /\ (i - 1) + 1 = (i + 1) - 1
      BY <2>2, <2>8
    <3> QED  BY <2>2, <3>1, <1>i DEF GettersInv
  <2>9. ASSUME NEW i \in DOMAIN derivedOrder', NEW j \in DOMAIN derivedOrder',
               derivedOrder'[i] = derivedOrder'[j]
        PROVE  i = j
    <3>1. CASE i \in 1..n /\ j \in 1..n
      BY <2>4, <2>9, <3>1, <1>i DEF GettersInv
    <3>2. CASE i = n + 1 \/ j = n + 1
      BY <2>4, <2>5, <2>9, <3>2
    <3> QED  BY <2>4, <3>1, <3>2
  <2>10. ASSUME NEW i \in DOMAIN derivedOrder', NEW g \in GetsRead(derivedOrder'[i])
         PROVE  \E k \in DOMAIN derivedOrder' : k < i /\ derivedOrder'[k] = g
    <3>1. CASE i \in 1..n
      <4>1. PICK k \in 1..n : k < i /\ derivedOrder[k] = g
        BY <2>4, <2>10, <3>1, <1>i DEF GettersInv
      <4> QED  BY <4>1, <2>4
    <3>2. CASE i = n + 1
      <4>1. g \in Range(derivedOrder)
        BY <2>1, <2>3, <2>4, <2>10, <3>2
      <4>2. PICK k \in 1..n : derivedOrder[k] = g
        BY <4>1, <2>4 DEF Range
      <4> QED  BY <4>2, <2>4, <3>2
    <3> QED  BY <2>4, <3>1, <3>2
  <2> QED  BY <2>1, <2>6, <2>7, <2>8, <2>9, <2>10, <1>g
           DEF GettersInv, Compiling, GetsRead
<1>7. CASE Boot
  <2>1. path' = path /\ derivedOrder' = derivedOrder /\ phase' = "publish"
        /\ Range(derivedOrder) = Gets
    BY <1>7 DEF Boot
  <2> QED  BY <2>1, <1>i, <1>f DEF GettersInv, Compiling
<1> QED  BY <1>1, <1>3, <1>4, <1>5, <1>6, <1>7 DEF Compiler

-----------------------------------------------------------------------------
(* The page.                                                               *)

LEMMA PhaseStep == ASSUME IInv, Next PROVE PhaseInv'
<1> USE DEF page, history, plan
<1>i. PhaseInv
  BY DEF IInv
<1>b. /\ Len(ordered) \in Nat /\ DOMAIN ordered = 1..Len(ordered)
      /\ next \in 0..(Len(ordered) + 1)
  BY LenProperties DEF IInv, TypeOK
<1>1. CASE Compiler
  <2>1. /\ Compiling /\ clientState' = clientState
        /\ clientWrites' = clientWrites /\ seen' = seen /\ ran' = ran
    BY <1>1, CompilerFrame
  <2>2. CASE Boot
    BY <2>2 DEF Boot, PhaseInv, Compiling
  <2>3. CASE ~Boot
    <3>1. Compiling' /\ next' = next
      BY <1>1, <2>3, CompilerFrame
    <3> QED  BY <2>1, <3>1, <1>i DEF PhaseInv, Compiling
  <2> QED  BY <2>2, <2>3
<1>2. ASSUME Page, /\ phase' = "rest" => next' = 0 /\ (outcome' = "ok" => clientWrites' = {})
                   /\ phase' = "body" /\ next' > 0 => next' \in DOMAIN ordered
                                                   /\ call'.fn = Effect(next')[1]
                   /\ phase' \in {"publish", "effects"} => next' > 0
      PROVE  PhaseInv'
  <2>1. ~Compiling' /\ ordered' = ordered /\ subs' = subs
    BY <1>2, PageFrame
  <2>2. \A i : subs'[ordered'[i]] = subs[ordered[i]]
    BY <2>1
  <2> QED  BY <1>2, <2>1, <2>2 DEF PhaseInv, Compiling, Effect
<1>3. CASE Dispatch
  <2>1. phase' = "body" /\ next' = 0
    BY <1>3 DEF Dispatch
  <2> QED  BY <1>2, <1>3, <2>1 DEF Page
<1>4. CASE Arrive
  <2>1. phase' = "publish" /\ next' = 1
    BY <1>4 DEF Arrive
  <2> QED  BY <1>2, <1>4, <2>1 DEF Page
<1>5. CASE If \/ Set
  <2>1. /\ phase = "body" /\ phase' = "body" /\ next' = next
        /\ call \in Frame /\ \E n : call' = [call EXCEPT !.pc = n]
    BY <1>5, CallFacts DEF If, Set, Running, IInv
  <2>2. call'.fn = call.fn
    BY <2>1 DEF Frame
  <2> QED  BY <1>2, <1>5, <2>1, <2>2, <1>i DEF Page, PhaseInv
<1>6. CASE BodyDone
  <2>1. phase' = "publish" /\ next' = next + 1 /\ next' > 0
    BY <1>6, <1>b DEF BodyDone
  <2> QED  BY <1>2, <1>6, <2>1 DEF Page
<1>7. CASE Publish \/ Published
  <2>1. phase = "publish" /\ phase' \in {"publish", "effects"} /\ next' = next
    BY <1>7 DEF Publish, Published
  <2> QED  BY <1>2, <1>7, <2>1, <1>i DEF Page, PhaseInv
<1>8. CASE SkipEffect
  <2>1. phase' = "effects" /\ next' = next + 1 /\ next' > 0
    BY <1>8, <1>b DEF SkipEffect, Considers
  <2> QED  BY <1>2, <1>8, <2>1 DEF Page
<1>9. CASE RunEffect
  <2>1. phase = "effects" /\ next <= Len(ordered) /\ phase' = "body"
        /\ next' = next /\ call'.fn = Effect(next)[1]
    BY <1>9 DEF RunEffect, Considers
  <2>2. next \in DOMAIN ordered
    BY <2>1, <1>i, <1>b DEF PhaseInv
  <2> QED  BY <1>2, <1>9, <2>1, <2>2 DEF Page
<1>10. CASE EffectsDone
  <2>1. phase' = "rest" /\ next' = 0 /\ clientWrites' = {}
    BY <1>10 DEF EffectsDone, NoWrites
  <2> QED  BY <1>2, <1>10, <2>1 DEF Page
<1>11. CASE ActionThrows
  <2>1. phase' = "rest" /\ next' = 0 /\ outcome' = "threw"
    BY <1>11 DEF ActionThrows
  <2> QED  BY <1>2, <1>11, <2>1 DEF Page
<1>12. CASE FlushThrows
  <2>1. phase' = "rest" /\ next' = 0 /\ outcome' = "threw"
    BY <1>12 DEF FlushThrows
  <2> QED  BY <1>2, <1>12, <2>1 DEF Page
<1> QED  BY <1>1, <1>3, <1>4, <1>5, <1>6, <1>7, <1>8, <1>9, <1>10, <1>11,
            <1>12 DEF Next, Page

\* What can change the value of a root: an answer, an assignment to it, the
\* publication of it.
LEMMA LiveStep ==
  ASSUME IInv, Page, NEW v \in Slots
  PROVE  \/ Live(v)' = Live(v)
         \/ Arrive /\ \E a \in Arrivals : a[1] = v
         \/ Set /\ Statement.var = v /\ v \notin Params[call.fn]
         \/ Publish /\ v \in Gets
<1> USE DEF page, history, plan
<1>t. TypeOK /\ clientState \in [Slots -> Values]
  BY DEF IInv, TypeOK
<1>1. CASE Dispatch
  <2>1. PICK d \in Dispatches :
          /\ call' = [fn |-> d[1], pc |-> 1, saved |-> clientState]
          /\ clientState' = [w \in Slots |-> IF w \in Params[d[1]]
                                               THEN d[2][w] ELSE clientState[w]]
    BY <1>1 DEF Dispatch
  <2>2. phase = "rest" /\ phase' = "body"
    BY <1>1 DEF Dispatch, NewTurn
  <2>3. call'.fn = d[1] /\ call'.saved = clientState
    BY <2>1
  <2>4. v \notin Params[d[1]] => clientState'[v] = clientState[v]
    BY <2>1
  <2> QED  BY <2>2, <2>3, <2>4 DEF Live
<1>2. CASE Arrive
  <2>1. PICK a \in Arrivals : clientState' = [clientState EXCEPT ![a[1]] = a[2]]
    BY <1>2 DEF Arrive
  <2>2. phase = "rest" /\ phase' = "publish"
    BY <1>2 DEF Arrive, NewTurn
  <2>3. a[1] = v \/ clientState'[v] = clientState[v]
    BY <2>1, <1>t
  <2> QED  BY <1>2, <2>2, <2>3 DEF Live
<1>3. CASE If
  <2>1. /\ phase = "body" /\ phase' = "body" /\ clientState' = clientState
        /\ call \in Frame /\ \E n : call' = [call EXCEPT !.pc = n]
    BY <1>3, <1>t, CallFacts DEF If, Running
  <2>2. call'.fn = call.fn /\ call'.saved = call.saved
    BY <2>1 DEF Frame
  <2> QED  BY <2>1, <2>2 DEF Live
<1>4. CASE Set
  <2>1. /\ phase = "body" /\ phase' = "body"
        /\ clientState' = [clientState EXCEPT ![Statement.var] = Result]
        /\ call \in Frame /\ \E n : call' = [call EXCEPT !.pc = n]
    BY <1>4, <1>t, CallFacts DEF Set, Running
  <2>2. call'.fn = call.fn /\ call'.saved = call.saved
    BY <2>1 DEF Frame
  <2>3. Statement.var = v \/ clientState'[v] = clientState[v]
    BY <2>1, <1>t
  <2> QED  BY <1>4, <2>1, <2>2, <2>3 DEF Live
<1>5. CASE BodyDone \/ ActionThrows
  <2>1. phase = "body" /\ phase' # "body" /\ clientState' = Restored
    BY <1>5 DEF BodyDone, ActionThrows, Running
  <2> QED  BY <2>1 DEF Live, Restored
<1>6. CASE Publish
  <2>1. phase = "publish" /\ phase' = "publish"
    BY <1>6 DEF Publish
  <2>2. clientState'[v] = clientState[v] \/ derivedOrder[got + 1] = v
    BY <1>6, <1>t DEF Publish
  <2>3. derivedOrder[got + 1] \in Gets
    <3>1. /\ derivedOrder \in Seq(Gets) /\ Len(derivedOrder) \in Nat
          /\ got \in Nat /\ got < Len(derivedOrder)
      BY <1>6, <1>t, LenProperties DEF Publish, TypeOK
    <3>2. got + 1 \in 1..Len(derivedOrder)
      BY <3>1
    <3> QED  BY <3>1, <3>2, ElementOfSeq
  <2> QED  BY <1>6, <2>1, <2>2, <2>3 DEF Live
<1>7. CASE Published \/ SkipEffect \/ EffectsDone
  <2>1. phase # "body" /\ phase' # "body" /\ clientState' = clientState
    BY <1>7 DEF Published, SkipEffect, EffectsDone, Considers
  <2> QED  BY <2>1 DEF Live
<1>8. CASE RunEffect
  <2>1. phase # "body" /\ clientState' = clientState /\ call'.saved = clientState
    BY <1>8 DEF RunEffect, Considers
  <2> QED  BY <2>1 DEF Live
<1>9. CASE FlushThrows
  <2>1. phase' # "body" /\ clientState' = clientState
    BY <1>9 DEF FlushThrows
  <2>2. CASE phase # "body"
    BY <2>1, <2>2 DEF Live
  <2>3. CASE phase = "body"
    <3>1. next > 0
      BY <1>9, <2>3 DEF FlushThrows, Considers
    <3>2. next \in DOMAIN ordered /\ call.fn = Effect(next)[1]
      BY <2>3, <3>1 DEF IInv, PhaseInv
    <3>3. Params[call.fn] = {}
      BY <3>2, <1>t, EffectFacts DEF IInv, SubsInv, Effect
    <3> QED  BY <2>1, <3>3 DEF Live
  <2> QED  BY <2>2, <2>3
<1> QED  BY <1>1, <1>2, <1>3, <1>4, <1>5, <1>6, <1>7, <1>8, <1>9 DEF Page

LEMMA ParametersStep == ASSUME IInv, Next PROVE ParametersInv'
<1> USE DEF page, history, plan
<1>1. CASE Compiler
  <2>1. Compiling /\ clientState' = Initial /\ phase' # "body"
    BY <1>1, CompilerFrame DEF IInv, PhaseInv, Compiling, Boot
  <2> QED  BY <2>1 DEF ParametersInv, Live
<1>2. CASE Page
  <2>1. ASSUME NEW v \in Slots, OnlyParameter(v) PROVE Live(v)' = Initial[v]
    <3>1. v \in Others /\ v \notin Gets /\ \A a \in Arrivals : a[1] # v
      BY <2>1, SlotsAssumption DEF OnlyParameter
    <3>2. ~(Set /\ Statement.var = v /\ v \notin Params[call.fn])
      <4>1. ASSUME Set, Statement.var = v, v \notin Params[call.fn] PROVE FALSE
        <5>1. Running /\ Statement.op = "set" /\ call.pc \in DOMAIN Body[call.fn]
          BY <4>1, CallFacts DEF Set, IInv
        <5>2. v \in Writes(call.fn) /\ call.fn \in Actions
          BY <4>1, <5>1, CallFacts DEF Writes, Statement, IInv, Running
        <5> QED  BY <2>1, <4>1, <5>2 DEF OnlyParameter
      <4> QED  BY <4>1
    <3>3. Live(v)' = Live(v)
      BY <1>2, <3>1, <3>2, LiveStep
    <3>4. Live(v) = Initial[v]
      BY <2>1 DEF IInv, ParametersInv
    <3> QED  BY <3>3, <3>4
  <2> QED  BY <2>1 DEF ParametersInv, OnlyParameter
<1> QED  BY <1>1, <1>2 DEF Next

\* A write to what an effect depends on comes from an action, or from a callback
\* that runs before the effect.
LEMMA WrittenAhead ==
  ASSUME IInv, Set, NEW i \in DOMAIN ordered, Told(i),
         Statement.var = Effect(i)[2], Statement.var \notin Params[call.fn]
  PROVE  FALSE
<1>1. Running /\ phase = "body" /\ Statement.op = "set"
  BY DEF Set, Running
<1>2. call.pc \in DOMAIN Body[call.fn]
  BY <1>1, CallFacts DEF IInv
<1>3. Statement.var \in Writes(call.fn)
  BY <1>1, <1>2 DEF Writes, Statement
<1>4. i \in Nat \ {0} /\ next \in Nat /\ i <= next
  <2>1. i \in 1..Len(ordered) /\ Len(ordered) \in Nat /\ next \in Nat
    BY OrderedFacts DEF IInv
  <2> QED  BY <2>1 DEF Told
<1>5. next \in DOMAIN ordered /\ call.fn = Effect(next)[1]
  BY <1>1, <1>4 DEF IInv, PhaseInv
<1>6. next < i
  BY <1>3, <1>5 DEF IInv, PlacedInv
<1> QED  BY <1>4, <1>6

LEMMA HeardStep == ASSUME IInv, Next, TypeOK' PROVE HeardInv'
<1> USE DEF page, history, plan
<1>t. TypeOK /\ HeardInv /\ PhaseInv
  BY DEF IInv
<1>1. CASE Compiler
  <2>1. /\ Compiling /\ clientState' = Initial /\ phase' # "body"
        /\ seen' = [s \in Subscriptions |-> Initial[s[2]]]
    BY <1>1, CompilerFrame DEF IInv, PhaseInv, Compiling, Boot
  <2>2. ASSUME NEW i \in DOMAIN ordered' PROVE Effect(i)' \in Subscriptions
    <3>1. /\ subs' \in Seq(Subscriptions) /\ ordered' \in Seq(DOMAIN subs')
          /\ i \in 1..Len(ordered')
      BY <2>2, LenProperties DEF TypeOK
    <3>2. ordered'[i] \in 1..Len(subs')
      BY <3>1, ElementOfSeq, LenProperties
    <3> QED  BY <3>1, <3>2, ElementOfSeq DEF Effect
  <2> QED  BY <2>1, <2>2 DEF HeardInv, Live
<1>2. CASE Page
  <2>p. subs' = subs /\ ordered' = ordered
    BY <1>2, PageFrame
  <2>b. /\ Len(ordered) \in Nat /\ DOMAIN ordered = 1..Len(ordered)
        /\ next \in Nat /\ seen \in [Subscriptions -> Values]
    BY <1>t, LenProperties DEF TypeOK
  <2>f. \A i \in DOMAIN ordered : subs[ordered[i]] \in Subscriptions
    BY <1>t, EffectFacts DEF Effect
  <2> SUFFICES ASSUME NEW i \in DOMAIN ordered, NEW s \in Subscriptions,
                      s = Effect(i), Told(i)' \/ s[2] \notin clientWrites'
               PROVE  seen'[s] = Live(s[2])'
    BY <2>p, <2>f DEF HeardInv, Effect, Live, Told
  <2>s. s[2] \in Slots /\ s[2] \notin Gets /\ s[2] \notin Others /\ i \in Nat \ {0}
    BY <1>t, <2>b, EffectFacts, SlotsAssumption DEF Subscriptions
  <2>e. Told(i) \/ s[2] \notin clientWrites => seen[s] = Live(s[2])
    BY <1>t DEF HeardInv
  <2>1. CASE Dispatch \/ Arrive
    <3>1. /\ phase = "rest" /\ seen' = seen /\ clientWrites' = clientWrites
          /\ (phase' = "body" /\ next' = 0) \/ (phase' = "publish" /\ next' = 1)
      BY <2>1 DEF Dispatch, Arrive, NewTurn
    <3>2. ~Told(i)'
      BY <3>1, <2>s DEF Told
    <3>3. Live(s[2])' = Live(s[2])
      <4>1. \A a \in Arrivals : a[1] # s[2]
        BY <2>s, PageAssumption
      <4>2. ~Set /\ ~Publish
        BY <3>1 DEF Set, Running, Publish
      <4> QED  BY <1>2, <2>s, <4>1, <4>2, LiveStep
    <3> QED  BY <3>1, <3>2, <3>3, <2>e
  <2>2. CASE If \/ Published
    <3>1. /\ seen' = seen /\ clientWrites' = clientWrites /\ next' = next
          /\ (phase = "body" <=> phase' = "body")
      BY <2>2 DEF If, Published, Running
    <3>2. Live(s[2])' = Live(s[2])
      <4>1. ~Set /\ ~Publish /\ ~Arrive
        BY <2>2 DEF If, Published, Set, Publish, Arrive, NewTurn, Running
      <4> QED  BY <1>2, <2>s, <4>1, LiveStep
    <3> QED  BY <3>1, <3>2, <2>e DEF Told
  <2>3. CASE Set
    <3>1. /\ seen' = seen /\ clientWrites' = Record(Statement.var) /\ next' = next
          /\ phase = "body" /\ phase' = "body"
      BY <2>3 DEF Set, Running
    <3>2. CASE Statement.var = s[2] /\ s[2] \notin Params[call.fn]
      <4>1. Told(i)
        BY <3>1, <3>2 DEF Record, Told
      <4> QED  BY <2>3, <3>2, <4>1, WrittenAhead
    <3>3. CASE ~(Statement.var = s[2] /\ s[2] \notin Params[call.fn])
      <4>1. Live(s[2])' = Live(s[2])
        <5>1. ~Arrive /\ ~Publish
          BY <3>1 DEF Arrive, NewTurn, Publish
        <5> QED  BY <1>2, <2>s, <3>3, <5>1, LiveStep
      <4>2. Told(i) \/ s[2] \notin clientWrites
        BY <3>1 DEF Record, Told
      <4> QED  BY <3>1, <4>1, <4>2, <2>e
    <3> QED  BY <3>2, <3>3
  <2>4. CASE BodyDone
    <3>1. /\ seen' = seen /\ clientWrites' = clientWrites /\ next' = next + 1
          /\ phase = "body" /\ phase' = "publish"
      BY <2>4 DEF BodyDone
    <3>2. Live(s[2])' = Live(s[2])
      <4>1. ~Arrive /\ ~Publish /\ ~Set
        BY <2>4, <3>1 DEF Arrive, NewTurn, Publish, Set, Running
      <4> QED  BY <1>2, <2>s, <4>1, LiveStep
    <3>3. Told(i)' => Told(i)
      BY <3>1, <2>b, <2>s DEF Told
    <3> QED  BY <3>1, <3>2, <3>3, <2>e
  <2>5. CASE Publish
    <3>1. /\ seen' = seen /\ clientWrites' = clientWrites /\ next' = next
          /\ phase = "publish" /\ phase' = "publish"
      BY <2>5 DEF Publish
    <3>2. Live(s[2])' = Live(s[2])
      <4>1. ~Arrive /\ ~Set
        BY <3>1 DEF Arrive, NewTurn, Set, Running
      <4> QED  BY <1>2, <2>s, <4>1, LiveStep
    <3> QED  BY <3>1, <3>2, <2>e DEF Told
  <2>6. CASE SkipEffect
    <3>1. /\ seen' = seen /\ clientWrites' = clientWrites /\ next' = next + 1
          /\ phase = "effects" /\ phase' = "effects"
          /\ Effect(next)[2] \notin clientWrites
      BY <2>6 DEF SkipEffect, Considers, Due
    <3>2. Live(s[2])' = Live(s[2])
      <4>1. ~Arrive /\ ~Set /\ ~Publish
        BY <3>1 DEF Arrive, NewTurn, Set, Running, Publish
      <4> QED  BY <1>2, <2>s, <4>1, LiveStep
    <3>3. Told(i)' => Told(i) \/ i = next
      BY <3>1, <2>b, <2>s DEF Told
    <3> QED  BY <3>1, <3>2, <3>3, <2>e
  <2>7. CASE RunEffect
    <3>1. /\ clientWrites' = clientWrites /\ next' = next
          /\ phase = "effects" /\ phase' = "body" /\ clientState' = clientState
          /\ seen' = [seen EXCEPT ![Effect(next)] = clientState[Effect(next)[2]]]
      BY <2>7 DEF RunEffect, Considers
    <3>2. Live(s[2])' = Live(s[2]) /\ Live(s[2]) = clientState[s[2]]
      <4>1. ~Arrive /\ ~Set /\ ~Publish
        BY <3>1 DEF Arrive, NewTurn, Set, Running, Publish
      <4> QED  BY <1>2, <2>s, <3>1, <4>1, LiveStep DEF Live
    <3>3. CASE s = Effect(next)
      BY <3>1, <3>2, <3>3, <2>b
    <3>4. CASE s # Effect(next)
      <4>1. seen'[s] = seen[s]
        BY <3>1, <3>4, <2>b
      <4>2. i # next
        BY <3>4
      <4>3. Told(i)' => Told(i)
        BY <3>1, <4>2, <2>b, <2>s DEF Told
      <4> QED  BY <3>1, <3>2, <4>1, <4>3, <2>e
    <3> QED  BY <3>3, <3>4
  <2>8. CASE EffectsDone
    <3>1. /\ seen' = seen /\ phase = "effects" /\ next > Len(ordered)
      BY <2>8 DEF EffectsDone
    <3>2. Live(s[2])' = Live(s[2])
      <4>1. ~Arrive /\ ~Set /\ ~Publish
        BY <3>1 DEF Arrive, NewTurn, Set, Running, Publish
      <4> QED  BY <1>2, <2>s, <4>1, LiveStep
    <3>3. Told(i)
      BY <3>1, <2>b DEF Told
    <3> QED  BY <3>1, <3>2, <3>3, <2>e
  <2>9. CASE ActionThrows
    <3>1. /\ seen' = seen /\ clientWrites' = clientWrites /\ next' = next
          /\ next = 0 /\ phase = "body" /\ phase' = "rest"
      BY <2>9 DEF ActionThrows, Running
    <3>2. CASE Live(s[2])' = Live(s[2])
      <4>1. ~Told(i)'
        BY <3>1, <2>s DEF Told
      <4> QED  BY <3>1, <3>2, <4>1, <2>e
    <3>3. Live(s[2])' = Live(s[2])
      <4>1. clientState' = Restored
        BY <2>9 DEF ActionThrows
      <4> QED  BY <3>1, <4>1, <2>s DEF Live, Restored
    <3> QED  BY <3>2, <3>3
  <2>10. CASE FlushThrows
    <3>1. /\ phase' = "rest" /\ clientState' = clientState
          /\ seen' = [r \in Subscriptions |-> clientState[r[2]]]
      BY <2>10 DEF FlushThrows
    <3> QED  BY <3>1 DEF Live
  <2> QED  BY <1>2, <2>1, <2>2, <2>3, <2>4, <2>5, <2>6, <2>7, <2>8, <2>9, <2>10
           DEF Page
<1> QED  BY <1>1, <1>2 DEF Next

LEMMA RanStep == ASSUME IInv, Next PROVE RanInv'
<1> USE DEF page, history, plan
<1>t. TypeOK /\ RanInv
  BY DEF IInv
<1>1. CASE Compiler
  <2>1. ran' = [s \in Subscriptions |-> 0]
    BY <1>1, CompilerFrame DEF IInv, PhaseInv
  <2>2. OncePerTurn'
    BY <2>1 DEF OncePerTurn
  <2>3. ASSUME Boot PROVE RanInv'
    <3>1. ordered' = ordered /\ subs' = subs
      BY <2>3 DEF Boot
    <3>2. \A i \in DOMAIN ordered : subs[ordered[i]] \in Subscriptions
      BY <1>t, EffectFacts DEF Effect
    <3> QED  BY <2>1, <2>2, <3>1, <3>2 DEF RanInv, Effect
  <2>4. ASSUME ~Boot PROVE RanInv'
    BY <1>1, <2>2, <2>4, CompilerFrame DEF RanInv, Compiling
  <2> QED  BY <2>3, <2>4
<1>2. CASE Page
  <2>p. subs' = subs /\ ordered' = ordered
    BY <1>2, PageFrame
  <2>b. /\ Len(ordered) \in Nat /\ DOMAIN ordered = 1..Len(ordered)
        /\ next \in Nat /\ ran \in [Subscriptions -> Nat]
        /\ \A i \in DOMAIN ordered : Effect(i) \in Subscriptions
    <3>1. ran \in [Subscriptions -> Nat]
      BY <1>t DEF TypeOK
    <3>2. \A i \in DOMAIN ordered : Effect(i) \in Subscriptions
      BY <1>t, EffectFacts
    <3> QED  BY <1>t, <3>1, <3>2, OrderedFacts
  <2>e. \A i : Effect(i)' = Effect(i)
    BY <2>p DEF Effect
  <2>1. CASE Dispatch \/ Arrive
    <3>1. ran' = [s \in Subscriptions |-> 0]
      BY <2>1 DEF Dispatch, Arrive, NewTurn
    <3> QED  BY <3>1, <2>p, <2>b, <2>e DEF RanInv, OncePerTurn
  <2>2. ASSUME ran' = ran, phase \in {"body", "publish", "effects"},
               \A i \in DOMAIN ordered : Told(i) => Told(i)'
        PROVE  RanInv'
    BY <2>2, <2>p, <2>e, <1>t DEF RanInv, OncePerTurn
  <2>3. CASE If \/ Set \/ Publish \/ Published
    <3>1. /\ ran' = ran /\ phase \in {"body", "publish", "effects"}
          /\ next' = next /\ (phase = "body" <=> phase' = "body")
      BY <2>3 DEF If, Set, Running, Publish, Published
    <3> QED  BY <2>2, <3>1 DEF Told
  <2>4. CASE BodyDone \/ SkipEffect
    <3>1. /\ ran' = ran /\ phase \in {"body", "publish", "effects"}
          /\ next' = next + 1
      BY <2>4 DEF BodyDone, SkipEffect, Considers
    <3> QED  BY <2>2, <3>1, <2>b DEF Told
  <2>5. CASE EffectsDone \/ ActionThrows \/ FlushThrows
    <3>1. ran' = ran /\ phase' = "rest"
      BY <2>5 DEF EffectsDone, ActionThrows, FlushThrows
    <3> QED  BY <3>1, <1>t DEF RanInv, OncePerTurn
  <2>6. CASE RunEffect
    <3>1. /\ phase = "effects" /\ phase' = "body" /\ next' = next
          /\ next <= Len(ordered)
          /\ ran' = [ran EXCEPT ![Effect(next)] = @ + 1]
      BY <2>6 DEF RunEffect, Considers
    <3>2. next \in DOMAIN ordered
      BY <3>1, <2>b DEF IInv, PhaseInv
    <3>3. ran[Effect(next)] = 0
      BY <3>1, <3>2, <2>b, <1>t DEF RanInv, Told
    <3>4. OncePerTurn'
      BY <3>1, <3>2, <3>3, <2>b, <1>t DEF RanInv, OncePerTurn
    <3>5. ASSUME NEW i \in DOMAIN ordered, ~Told(i)' PROVE ran'[Effect(i)] = 0
      <4>1. i # next /\ ~Told(i)
        BY <3>1, <3>5, <2>b DEF Told
      <4>2. ordered[i] # ordered[next]
        BY <3>2, <4>1 DEF IInv, PlacedInv
      <4>3. ordered[i] \in DOMAIN subs /\ ordered[next] \in DOMAIN subs
        BY <3>2, <1>t, EffectFacts
      <4>4. Effect(i) # Effect(next)
        BY <4>2, <4>3 DEF IInv, SubsInv, Effect
      <4>5. ran[Effect(i)] = 0
        BY <3>1, <4>1, <1>t DEF RanInv
      <4> QED  BY <3>1, <4>4, <4>5, <2>b
    <3> QED  BY <3>4, <3>5, <2>p, <2>e DEF RanInv
  <2> QED  BY <1>2, <2>1, <2>3, <2>4, <2>5, <2>6 DEF Page
<1> QED  BY <1>1, <1>2 DEF Next

\* Publishing a getter does not disturb those published before it.
LEMMA PublishOne ==
  ASSUME IInv, Publish, NEW i \in 1..got + 1
  PROVE  Current(derivedOrder[i])'
<1> USE DEF page, history, plan
<1>t. TypeOK /\ GettersInv
  BY DEF IInv
<1>b. /\ derivedOrder \in Seq(Gets) /\ Len(derivedOrder) \in Nat
      /\ DOMAIN derivedOrder = 1..Len(derivedOrder)
      /\ got \in Nat /\ got < Len(derivedOrder)
      /\ clientState \in [Slots -> Values] /\ formula \in [Gets -> Formulas]
  BY <1>t, LenProperties DEF TypeOK, Publish
<1>1. got + 1 \in DOMAIN derivedOrder /\ i \in DOMAIN derivedOrder
  BY <1>b
<1> PICK g \in Gets, h \in Gets : g = derivedOrder[got + 1] /\ h = derivedOrder[i]
  BY <1>1, <1>b, ElementOfSeq
<1>2. /\ clientState' = [clientState EXCEPT ![g] =
           Apply(formula[g], [k \in DOMAIN Deps[formula[g]] |->
                                clientState[Deps[formula[g]][k]]])]
      /\ formula' = formula /\ derivedOrder' = derivedOrder
      /\ phase = "publish" /\ got' = got + 1
  BY DEF Publish
<1>3. \A k \in DOMAIN Deps[formula[h]] : Deps[formula[h]][k] # g
  <2>1. ASSUME NEW k \in DOMAIN Deps[formula[h]], Deps[formula[h]][k] = g
        PROVE  FALSE
    <3>1. g \in GetsRead(h)
      BY <2>1 DEF GetsRead, Range
    <3>2. PICK m \in DOMAIN derivedOrder : m < i /\ derivedOrder[m] = g
      BY <3>1, <1>1, <1>t DEF GettersInv
    <3>3. m = got + 1
      BY <3>2, <1>1, <1>t DEF GettersInv
    <3> QED  BY <3>2, <3>3, <1>b
  <2> QED  BY <2>1
<1>4. \A k \in DOMAIN Deps[formula[h]] : Deps[formula[h]][k] \in Slots
  <2>1. formula[h] \in Formulas
    BY <1>b
  <2>2. Deps[formula[h]] \in Seq(Slots)
    BY <2>1, FormulasAssumption
  <2> QED  BY <2>2, ElementOfSeq, LenProperties
<1>5. \A k \in DOMAIN Deps[formula[h]] :
        clientState'[Deps[formula[h]][k]] = clientState[Deps[formula[h]][k]]
  BY <1>2, <1>3, <1>4, <1>b
<1>6. LET j == derivedOrder'[i] IN
        [k \in DOMAIN Deps[formula'[j]] |-> clientState'[Deps[formula'[j]][k]]] =
        [k \in DOMAIN Deps[formula[h]] |-> clientState[Deps[formula[h]][k]]]
  <2>1. derivedOrder'[i] = h /\ formula'[h] = formula[h]
    BY <1>2
  <2> QED  BY <2>1, <1>5
<1>7. clientState'[h] =
        Apply(formula[h], [k \in DOMAIN Deps[formula[h]] |->
                             clientState[Deps[formula[h]][k]]])
  <2>1. CASE h = g
    BY <2>1, <1>2, <1>b DEF Slots
  <2>2. CASE h # g
    <3>1. i # got + 1
      BY <2>2
    <3>2. i \in 1..got
      BY <3>1, <1>b
    <3>3. Current(h)
      BY <3>2, <1>2 DEF IInv, PublishedInv
    <3>4. clientState'[h] = clientState[h]
      BY <2>2, <1>2, <1>b DEF Slots
    <3> QED  BY <3>3, <3>4 DEF Current
  <2> QED  BY <2>1, <2>2
<1> QED  BY <1>2, <1>6, <1>7 DEF Current

LEMMA PublishedStep == ASSUME IInv, Next PROVE PublishedInv'
<1> USE DEF page, history, plan
<1>i. TypeOK /\ PublishedInv
  BY DEF IInv
<1>1. CASE Compiler
  <2>1. CASE Boot
    BY <2>1 DEF Boot, PublishedInv, GettersPublished
  <2>2. CASE ~Boot
    BY <1>1, <2>2, CompilerFrame DEF PublishedInv, GettersPublished, Compiling
  <2> QED  BY <2>1, <2>2
<1>2. CASE Dispatch \/ If \/ Set \/ RunEffect
  <2>1. phase' = "body"
    BY <1>2 DEF Dispatch, If, Set, Running, RunEffect
  <2> QED  BY <2>1 DEF PublishedInv, GettersPublished
<1>3. CASE Arrive \/ BodyDone
  <2>1. phase' = "publish" /\ got' = 0
    BY <1>3 DEF Arrive, BodyDone
  <2> QED  BY <2>1 DEF PublishedInv, GettersPublished
<1>4. CASE Publish
  <2>1. phase' = "publish" /\ got' = got + 1 /\ derivedOrder' = derivedOrder
        /\ formula' = formula
    BY <1>4 DEF Publish
  <2>2. \A i \in 1..got + 1 : Current(derivedOrder[i])'
    BY <1>4, PublishOne
  <2> QED  BY <2>1, <2>2 DEF PublishedInv, GettersPublished, Current
<1>5. CASE Published
  <2>1. /\ phase = "publish" /\ got = Len(derivedOrder) /\ phase' = "effects"
        /\ clientState' = clientState /\ formula' = formula
    BY <1>5 DEF Published
  <2>2. Range(derivedOrder) = Gets /\ DOMAIN derivedOrder = 1..got
    BY <2>1, <1>i, LenProperties DEF IInv, GettersInv, Compiling, TypeOK
  <2>3. \A g \in Gets : Current(g)
    BY <2>1, <2>2, <1>i DEF PublishedInv, Range
  <2> QED  BY <2>1, <2>3 DEF PublishedInv, GettersPublished, Current
<1>6. CASE SkipEffect \/ EffectsDone
  <2>1. /\ phase = "effects" /\ phase' \in {"effects", "rest"}
        /\ clientState' = clientState /\ formula' = formula
    BY <1>6 DEF SkipEffect, EffectsDone, Considers
  <2>2. \A g \in Gets : Current(g)
    BY <2>1, <1>i DEF PublishedInv, GettersPublished
  <2> QED  BY <2>1, <2>2 DEF PublishedInv, GettersPublished, Current
<1>7. CASE ActionThrows \/ FlushThrows
  <2>1. phase' = "rest" /\ outcome' = "threw"
    BY <1>7 DEF ActionThrows, FlushThrows
  <2> QED  BY <2>1 DEF PublishedInv, GettersPublished
<1> QED  BY <1>1, <1>2, <1>3, <1>4, <1>5, <1>6, <1>7 DEF Next, Page

-----------------------------------------------------------------------------
LEMMA Stutter == ASSUME IInv, UNCHANGED vars PROVE IInv'
<1> USE DEF vars, page, history, plan
<1>1. /\ phase' = phase /\ declared' = declared /\ formula' = formula
      /\ subs' = subs /\ issues' = issues /\ ordered' = ordered
      /\ path' = path /\ derivedOrder' = derivedOrder
      /\ clientState' = clientState /\ clientWrites' = clientWrites
      /\ call' = call /\ next' = next /\ got' = got /\ turns' = turns
      /\ seen' = seen /\ ran' = ran /\ outcome' = outcome
  OBVIOUS
<1>2. TypeOK'
  BY <1>1 DEF IInv, TypeOK
<1>3. Unplaced' = Unplaced /\ Planned' = Planned /\ Compiling' = Compiling
  BY <1>1 DEF Unplaced, Planned, Compiling
<1>4. SubsInv' /\ PlacedInv' /\ StableInv'
  BY <1>1, <1>3 DEF IInv, SubsInv, PlacedInv, StableInv, Ready, Effect
<1>5. GettersInv'
  BY <1>1, <1>3 DEF IInv, GettersInv, GetsRead
<1>6. PhaseInv' /\ HeardInv' /\ RanInv' /\ ParametersInv'
  BY <1>1, <1>3 DEF IInv, PhaseInv, HeardInv, RanInv, OncePerTurn,
                    ParametersInv, Effect, Told, Live
<1>7. PublishedInv'
  BY <1>1 DEF IInv, PublishedInv, GettersPublished, Current
<1> QED  BY <1>2, <1>4, <1>5, <1>6, <1>7 DEF IInv

\* The conjunction of the plan's, the page's and the histories' parts holds in
\* every reachable state, of every program and page.
THEOREM Inductive == Spec => []IInv
<1>1. Init => IInv
  BY InitInv
<1>2. IInv /\ [Next]_vars => IInv'
  <2> SUFFICES ASSUME IInv, Next PROVE IInv'
    BY Stutter
  <2>1. TypeOK'
    BY CompilerType, PageType DEF Next
  <2>2. SubsInv' /\ PlacedInv' /\ StableInv' /\ GettersInv'
    BY SubsStep, PlacedStep, StableStep, GettersStep, PagePlan DEF Next
  <2>3. PhaseInv' /\ HeardInv' /\ RanInv'
    BY <2>1, PhaseStep, HeardStep, RanStep
  <2>4. ParametersInv' /\ PublishedInv'
    BY ParametersStep, PublishedStep
  <2> QED  BY <2>1, <2>2, <2>3, <2>4 DEF IInv
<1> QED  BY <1>1, <1>2, PTL DEF Spec

\* What the compiler and the page compute has its type: in particular an action
\* never leaves its body, and the passes stay within what was planned.
THEOREM TypeCorrect == Spec => []TypeOK
<1>1. IInv => TypeOK
  BY DEF IInv
<1> QED  BY <1>1, Inductive, PTL

\* One pass in the planned order is enough for any number of effects.
THEOREM OnePassSuffices == Spec => []EffectsHeard
<1>1. IInv => EffectsHeard
  <2> SUFFICES ASSUME IInv, phase = "rest", outcome = "ok", NEW s \in Range(subs)
               PROVE  seen[s] = clientState[s[2]]
    BY DEF EffectsHeard
  <2>1. clientWrites = {}
    BY DEF IInv, PhaseInv
  <2>2. PICK u \in DOMAIN subs : s = subs[u]
    BY DEF Range
  <2>3. Unplaced = {}
    BY DEF IInv, SubsInv, Planned
  <2>4. PICK i \in DOMAIN ordered : ordered[i] = u
    BY <2>2, <2>3 DEF Unplaced, Range
  <2>5. s = Effect(i)
    BY <2>2, <2>4 DEF Effect
  <2>6. seen[Effect(i)] = Live(Effect(i)[2])
    BY <2>1 DEF IInv, HeardInv
  <2> QED  BY <2>5, <2>6 DEF Live
<1> QED  BY <1>1, Inductive, PTL

\* An effect runs at most once in a turn.
THEOREM AtMostOnce == Spec => []OncePerTurn
<1>1. IInv => OncePerTurn
  BY DEF IInv, RanInv
<1> QED  BY <1>1, Inductive, PTL

\* A callback, and whoever looks after a turn, finds every getter up to date.
THEOREM GettersCurrent == Spec => []GettersPublished
<1>1. IInv => GettersPublished
  BY DEF IInv, PublishedInv
<1> QED  BY <1>1, Inductive, PTL

\* Nothing of a parameter is left when its action has ended.
THEOREM ParametersLeaveNothing == Spec => []ParametersRestored
<1>1. IInv => ParametersRestored
  BY DEF IInv, ParametersInv, ParametersRestored, Live
<1> QED  BY <1>1, Inductive, PTL

\* The plan is the source order as far as the callbacks' writes allow.
THEOREM StableOrder == Spec => []OrderIsStable
<1>1. IInv => OrderIsStable
  BY DEF IInv, PlacedInv, StableInv, OrderIsStable
<1> QED  BY <1>1, Inductive, PTL

\* A program is refused for a cycle only if it has one.
THEOREM RefusedForACycle == Spec => []OnlyCyclesRefused
<1>1. ASSUME IInv, phase = "effectCycle"
      PROVE  \E S \in SUBSET Range(subs) :
               S # {} /\ \A s \in S : \E r \in S : s[2] \in Writes(r[1])
  <2> DEFINE S == {subs[u] : u \in Unplaced}
  <2>1. Unplaced # {} /\ \A u \in Unplaced : ~Ready(u)
    BY <1>1 DEF IInv, SubsInv
  <2>2. S \in SUBSET Range(subs) /\ S # {}
    BY <2>1 DEF Unplaced, Range
  <2>3. ASSUME NEW s \in S PROVE \E r \in S : s[2] \in Writes(r[1])
    <3>1. PICK u \in Unplaced : s = subs[u]
      OBVIOUS
    <3>2. PICK j \in Unplaced : subs[u][2] \in Writes(subs[j][1])
      BY <2>1 DEF Ready
    <3> QED  BY <3>1, <3>2
  <2> QED  BY <2>2, <2>3
<1>2. ASSUME IInv, phase = "getterCycle"
      PROVE  \E S \in SUBSET Gets : S # {} /\ \A g \in S : GetsRead(g) \cap S # {}
  <2>1. path \in Seq(Gets) /\ path # <<>>
        /\ GetsRead(Head(path)) \cap Range(path) # {}
    BY <1>2 DEF IInv, TypeOK, GettersInv
  <2>2. PICK n \in Nat \ {0} : DOMAIN path = 1..n /\ Head(path) = path[1]
    BY <2>1, PopFacts
  <2>3. PICK k \in 1..n : path[k] \in GetsRead(path[1])
    BY <2>1, <2>2 DEF Range
  <2> DEFINE S == {path[i] : i \in 1..k}
  <2>4. S \in SUBSET Gets /\ path[1] \in S /\ path[k] \in S
    <3>1. \A i \in 1..k : path[i] \in Gets
      BY <2>1, <2>2, ElementOfSeq, LenProperties
    <3>2. 1 \in 1..k /\ k \in 1..k
      BY <2>2
    <3> QED  BY <3>1, <3>2
  <2>5. ASSUME NEW g \in S PROVE GetsRead(g) \cap S # {}
    <3>1. PICK i \in 1..k : g = path[i]
      OBVIOUS
    <3>2. CASE i = 1
      BY <2>3, <2>4, <3>1, <3>2
    <3>3. CASE i # 1
      <4>1. i \in DOMAIN path /\ i > 1 /\ i - 1 \in 1..k
        BY <2>2, <3>3
      <4>2. path[i - 1] \in GetsRead(path[i]) /\ path[i - 1] \in S
        BY <4>1, <1>2 DEF IInv, GettersInv
      <4> QED  BY <3>1, <4>2
    <3> QED  BY <3>2, <3>3
  <2> QED  BY <2>4, <2>5
<1>3. IInv => OnlyCyclesRefused
  BY <1>1, <1>2 DEF OnlyCyclesRefused
<1> QED  BY <1>3, Inductive, PTL

=============================================================================
