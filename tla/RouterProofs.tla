---------------------------- MODULE RouterProofs ----------------------------
(***************************************************************************)
(* Proofs about Router, for every set of routes, guards and paths.  The    *)
(* type invariant and the two invariants of Router are inductive together; *)
(* what applyRoutes does to each of them is a lemma of its own, because    *)
(* four actions end in it.                                                 *)
(***************************************************************************)
EXTENDS Router, TLAPS

IInv == TypeOK /\ OneRouteVisible /\ ActiveIsHash

\* What the elements of a sequence are.
LEMMA ElementInSeq ==
  ASSUME NEW S, NEW s \in Seq(S), NEW i \in DOMAIN s
  PROVE  s[i] \in S
  OBVIOUS

\* What applyRoutes leaves, whoever calls it, with what kind of state.
LEMMA ApplyRoutesKeeps ==
  ASSUME IInv, NEW left \in Nat, ApplyRoutes(left)
  PROVE  /\ hash' \in Paths /\ events' \in Nat
         /\ active' \in (Paths \cup {None}) \X (Patterns \cup {None})
         /\ shown' \subseteq Sections
         /\ current' \in {None} \cup (Paths \X (Sections \cup {0}))
         /\ thrown' \subseteq {"boot", "render"}
         /\ OneRouteVisible'
         /\ events' = 0 => active'[1] = hash'
<1>0. /\ hash \in Paths /\ 0 \notin Sections /\ 1 \in Sections
      /\ active[2] \in Patterns \cup {None}
  BY RouterAssumption DEF IInv, TypeOK, Sections
<1>1. CASE Refuse(left)
  <2>1. PICK i \in DOMAIN Guards :
             IF Guards[i].redirect = None \/ Throws(Guards[i].path)
             THEN hash' = hash /\ events' = left
             ELSE SetHash(Guards[i].redirect, left)
    BY <1>1 DEF Refuse
  <2>2. Guards[i].redirect \in Paths \cup {None}
    <3> DEFINE G == [path : Patterns, var : Vars, redirect : Paths \cup {None}]
    <3>1. Guards \in Seq(G)
      BY RouterAssumption
    <3> HIDE DEF G
    <3>2. Guards[i] \in G
      BY <2>1, <3>1, ElementInSeq
    <3> QED BY <3>2 DEF G
  <2>3. /\ hash' \in Paths /\ events' \in Nat
        /\ events' = 0 => hash' = hash
    BY <1>0, <2>1, <2>2 DEF SetHash
  <2>4. /\ active' = <<hash, active[2]>> /\ shown' = shown /\ current' = current
        /\ thrown' = thrown \ {"boot"}
    BY <1>1 DEF Refuse
  <2>5. OneRouteVisible'
    BY <2>4 DEF IInv, OneRouteVisible
  <2>6. /\ shown' \subseteq Sections /\ thrown' \subseteq {"boot", "render"}
        /\ current' \in {None} \cup (Paths \X (Sections \cup {0}))
    BY <2>4 DEF IInv, TypeOK
  <2>7. active' \in (Paths \cup {None}) \X (Patterns \cup {None})
    BY <1>0, <2>4
  <2>8. events' = 0 => active'[1] = hash'
    BY <2>3, <2>4
  <2> QED BY <2>3, <2>5, <2>6, <2>7, <2>8
<1>2. CASE /\ hash' = hash /\ events' = left
           /\ \E i \in Sections : ShowMatch(i)
  <2>1. PICK i \in Sections : ShowMatch(i)
    BY <1>2
  <2>2. Routes[i] \in Patterns
    BY RouterAssumption DEF Sections
  <2>3. /\ active' = <<hash, Routes[i]>> /\ shown' = {i}
        /\ current' = <<hash, i>> /\ thrown' = {}
    BY <2>1 DEF ShowMatch, ShowOnly
  <2> QED BY <1>0, <1>2, <2>2, <2>3 DEF OneRouteVisible
<1>3. CASE /\ hash' = hash /\ events' = left
           /\ \E i \in Sections : MatchThrows(i)
  <2>1. PICK i \in Sections : MatchThrows(i)
    BY <1>3
  <2>2. /\ active' = <<hash, active[2]>> /\ current' = current
        /\ shown' \subseteq shown /\ thrown' = thrown \ {"boot"}
    BY <2>1 DEF MatchThrows
  <2> QED BY <1>0, <1>3, <2>2 DEF IInv, TypeOK, OneRouteVisible
<1>4. CASE hash' = hash /\ events' = left /\ ShowFirst
  <2>1. /\ active' = <<hash, None>> /\ shown' = {1} /\ current' = <<hash, 0>>
        /\ thrown' = {}
    BY <1>4 DEF ShowFirst, ShowOnly
  <2> QED BY <1>0, <1>4, <2>1 DEF OneRouteVisible
<1>5. CASE /\ hash' = hash /\ events' = left
           /\ \E i \in Sections : RenderThrows(i)
  <2>1. PICK i \in Sections : RenderThrows(i)
    BY <1>5
  <2>2. Routes[i] \in Patterns
    BY RouterAssumption DEF Sections
  <2>3. /\ active' = <<hash, Routes[i]>> /\ shown' = {i} \cup (shown \ 1..i)
        /\ current' = current /\ thrown' = {"render"}
    BY <2>1 DEF RenderThrows
  <2> QED BY <1>0, <1>5, <2>2, <2>3 DEF IInv, TypeOK, OneRouteVisible
<1> QED BY <1>1, <1>2, <1>3, <1>4, <1>5 DEF ApplyRoutes

\* The invariant holds of every step.
LEMMA StepKeeps == IInv /\ [Next]_vars => IInv'
<1> SUFFICES ASSUME IInv, [Next]_vars PROVE IInv'
  OBVIOUS
<1> USE RouterAssumption
<1>0. events \in Nat /\ hash \in Paths
  BY DEF IInv, TypeOK
<1>1. CASE Boot
  <2>1. ApplyRoutes(events) /\ local' = local /\ state' = state
        /\ moves' = moves /\ ready' = TRUE
    BY <1>1 DEF Boot
  <2> QED BY <1>0, <2>1, ApplyRoutesKeeps DEF IInv, TypeOK, ActiveIsHash
<1>2. CASE HashChange
  <2>1. /\ ApplyRoutes(events - 1) /\ local' = local /\ state' = state
        /\ moves' = moves /\ ready' = ready /\ events - 1 \in Nat
    BY <1>0, <1>2 DEF HashChange
  <2> QED BY <2>1, ApplyRoutesKeeps DEF IInv, TypeOK, ActiveIsHash
<1>3. ASSUME NEW path \in Paths, Move(path) PROVE IInv'
  <2>1. events' \in Nat /\ hash' = path /\ events' # 0
    BY <1>0, <1>3 DEF Move, SetHash
  <2> QED BY <1>3, <2>1
          DEF Move, IInv, TypeOK, OneRouteVisible, ActiveIsHash
<1>4. ASSUME NEW path \in Paths, Follow(path) PROVE IInv'
  <2>1. CASE path = hash
    <3>1. /\ ApplyRoutes(events) /\ local' = local /\ state' = state
          /\ moves' \in 0..MaxMoves /\ ready' = ready
      BY <1>4, <2>1 DEF Follow, IInv, TypeOK
    <3> QED BY <1>0, <3>1, ApplyRoutesKeeps DEF IInv, TypeOK, ActiveIsHash
  <2>2. CASE path # hash
    <3>1. events' \in Nat /\ hash' = path /\ events' # 0
      BY <1>0, <1>4, <2>2 DEF Follow, SetHash
    <3>2. /\ UNCHANGED <<local, ready, state, active, shown, current, thrown>>
          /\ moves' \in 0..MaxMoves
      BY <1>4, <2>2 DEF Follow, IInv, TypeOK
    <3> QED BY <3>1, <3>2 DEF IInv, TypeOK, OneRouteVisible, ActiveIsHash
  <2> QED BY <2>1, <2>2
<1>5. ASSUME NEW var \in Vars, NEW value \in BOOLEAN, Bindings(var, value)
      PROVE  IInv'
  <2>1. /\ ApplyRoutes(events) /\ local' = local
        /\ state' \in [Vars -> BOOLEAN]
        /\ moves' \in 0..MaxMoves /\ ready' = ready
    BY <1>5 DEF Bindings, IInv, TypeOK
  <2> QED BY <1>0, <2>1, ApplyRoutesKeeps DEF IInv, TypeOK, ActiveIsHash
<1>6. ASSUME NEW var \in Vars, NEW value \in BOOLEAN,
             NEW redirect \in Paths \cup {None}, Act(var, value, redirect)
      PROVE  IInv'
  <2>1. /\ events' \in Nat /\ hash' \in Paths
        /\ events' = 0 => hash' = hash /\ events = 0
    BY <1>0, <1>6 DEF Act, SetHash
  <2> QED BY <1>6, <2>1
          DEF Act, IInv, TypeOK, OneRouteVisible, ActiveIsHash
<1>7. CASE BootThrows
  BY <1>7 DEF BootThrows, IInv, TypeOK, OneRouteVisible, ActiveIsHash
<1>8. CASE UNCHANGED vars
  BY <1>8 DEF vars, IInv, TypeOK, OneRouteVisible, ActiveIsHash
<1> QED BY <1>1, <1>2, <1>3, <1>4, <1>5, <1>6, <1>7, <1>8 DEF Next

\* Types, one visible section at most once a route was applied, and
\* activeRoute equal to the hash when no event is outstanding, each until an
\* exception interferes and again after the next application of the routes that
\* ends: for every program of routes and guards.
THEOREM Inductive == Spec => []IInv
<1>1. ASSUME Init PROVE IInv
  <2>1. TypeOK
    <3>1. moves \in 0..MaxMoves /\ events \in Nat
      BY <1>1, RouterAssumption DEF Init
    <3>2. active \in (Paths \cup {None}) \X (Patterns \cup {None})
      BY <1>1 DEF Init
    <3>3. local \in BOOLEAN /\ ready \in BOOLEAN
      BY <1>1, Zenon DEF Init
    <3> QED BY <1>1, <3>1, <3>2, <3>3 DEF Init, TypeOK
  <2> QED BY <1>1, <2>1 DEF Init, IInv, OneRouteVisible, ActiveIsHash
<1> QED BY <1>1, StepKeeps, PTL DEF Spec

\* applyRoutes leaves no second section visible, unless applyClientState throws
\* in the middle of it; the next one that ends hides what that one left.
THEOREM OneVisible == Spec => []OneRouteVisible
<1>1. IInv => OneRouteVisible
  BY DEF IInv
<1> QED BY <1>1, Inductive, PTL

\* activeRoute is the hash whenever the browser has nothing left to report and
\* routes were applied at all since applyInitial.
THEOREM ActiveFollows == Spec => []ActiveIsHash
<1>1. IInv => ActiveIsHash
  BY DEF IInv
<1> QED BY <1>1, Inductive, PTL

\* A section that applyRoutes makes visible has passed its guards, or is the
\* first one.
LEMMA ShownPasses ==
  ASSUME IInv, NEW left, ApplyRoutes(left), ready', NEW i \in shown' \ shown,
         i # 1
  PROVE  GuardOk(i)
<1>1. PICK j \in Sections : /\ ShowMatch(j) \/ RenderThrows(j)
                           /\ \A k \in DOMAIN Guards : ~Stops(Guards[k])
  BY DEF ApplyRoutes, Refuse, ShowFirst, ShowOnly, MatchThrows
<1>2. i = j /\ Match(Routes[i])
  BY <1>1 DEF ShowMatch, ShowOnly, RenderThrows
<1> QED BY <1>1, <1>2 DEF GuardOk, Stops

\* Guards block: no handler of a page that is ready makes a guarded section
\* visible while the guard's variable is false.
THEOREM GuardedStaysHidden == Spec => GuardsBlock
<1> DEFINE Blocks == ready => \A i \in shown' \ shown : i # 1 => GuardOk(i)
<1>1. ASSUME IInv, [Next]_vars PROVE [Blocks]_vars
  <2> SUFFICES ASSUME Next, ready, NEW i \in shown' \ shown, i # 1
               PROVE  GuardOk(i)
    BY <1>1
  <2>1. \E left : ApplyRoutes(left) /\ ready'
    BY DEF Next, Boot, BootThrows, HashChange, Move, Follow, Act, Bindings
  <2> QED BY <1>1, <2>1, ShownPasses
<1> QED BY <1>1, Inductive, PTL DEF GuardsBlock, Spec
=============================================================================
