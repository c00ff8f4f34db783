------------------------- MODULE KeyedRegionProofs -------------------------
(***************************************************************************)
(* Proofs about KeyedRegion, for any rows, values and number of updates,   *)
(* when no key extends another one by `__` (Apart); the run KeyedNested    *)
(* shows why that is needed.  IInv is inductive: while a patch runs, what  *)
(* the snapshot holds and what the recorded inverses restore is a region   *)
(* at rest (Sound, Undoable), and what rendering has added is what the new *)
(* rows need (Refreshed, Rendered).  One lemma per action.                 *)
(***************************************************************************)
EXTENDS KeyedRegion, SequenceTheorems, TLAPS

Apart == \A k \in Keys : Extends[k] = {}

USE DEF vars, board, document, runtime, TypeOK, Patching

---------------------------------------------------------------------------
(* Sequences of keys, and ids. *)

\* The keys of a sequence are keys.
LEMMA KeysAreKeys ==
  ASSUME NEW s \in Seq(Keys) PROVE KeysOf(s) \subseteq Keys
  BY DEF KeysOf

\* The keys of a sequence are its head and those of its tail, which stays
\* unambiguous.
LEMMA TailKeys ==
  ASSUME NEW s \in Seq(Keys), s # <<>>
  PROVE  /\ Head(s) \in Keys /\ Tail(s) \in Seq(Keys)
         /\ KeysOf(s) = {Head(s)} \cup KeysOf(Tail(s))
         /\ Distinct(s) => Distinct(Tail(s)) /\ Head(s) \notin KeysOf(Tail(s))
<1>1. /\ Head(s) \in Keys /\ Tail(s) \in Seq(Keys)
      /\ Head(s) = s[1] /\ DOMAIN s = 1..Len(s) /\ Len(s) \in Nat \ {0}
      /\ DOMAIN Tail(s) = 1..(Len(s) - 1)
      /\ \A i \in 1..(Len(s) - 1) : Tail(s)[i] = s[i + 1]
  OBVIOUS
<1>2. ASSUME NEW i \in 1..Len(s), i # 1
      PROVE  i - 1 \in DOMAIN Tail(s) /\ s[i] = Tail(s)[i - 1]
  BY <1>1, <1>2
<1>3. KeysOf(s) \subseteq {Head(s)} \cup KeysOf(Tail(s))
  <2> SUFFICES ASSUME NEW i \in 1..Len(s)
               PROVE  s[i] \in {Head(s)} \cup KeysOf(Tail(s))
    BY <1>1 DEF KeysOf
  <2> QED BY <1>1, <1>2 DEF KeysOf
<1>4. KeysOf(Tail(s)) \subseteq KeysOf(s) /\ Head(s) \in KeysOf(s)
  BY <1>1 DEF KeysOf
<1>5. ASSUME Distinct(s) PROVE Distinct(Tail(s)) /\ Head(s) \notin KeysOf(Tail(s))
  BY <1>1, <1>5 DEF Distinct, KeysOf
<1> QED BY <1>1, <1>3, <1>4, <1>5

LEMMA Shift ==
  ASSUME NEW n \in Nat, NEW i \in 1..n, NEW j \in 1..(n - 1), ~(j < i)
  PROVE  /\ ~(j <= i - 1) /\ j - (i - 1) \in 1..(n - i)
         /\ i + (j - (i - 1)) = j + 1 /\ j \in 1..((i - 1) + (n - i))
<1>1. ~(j <= i - 1) /\ i + (j - (i - 1)) = j + 1
  OBVIOUS
<1>2. j - (i - 1) \in 1..(n - i)
  OBVIOUS
<1>3. j \in 1..((i - 1) + (n - i))
  OBVIOUS
<1> QED BY <1>1, <1>2, <1>3

\* Taking out the i-th row takes out no other key.
LEMMA RemoveKeys ==
  ASSUME NEW s \in Seq(Keys), NEW i \in DOMAIN s
  PROVE  /\ RemoveAt(s, i) \in Seq(Keys)
         /\ KeysOf(RemoveAt(s, i)) \subseteq KeysOf(s)
         /\ KeysOf(s) \ {s[i]} \subseteq KeysOf(RemoveAt(s, i))
<1> DEFINE r == RemoveAt(s, i)
<1>1. /\ r \in Seq(Keys) /\ Len(r) = Len(s) - 1
      /\ \A j \in 1..(Len(s) - 1) : r[j] = IF j < i THEN s[j] ELSE s[j + 1]
  <2> DEFINE a == SubSeq(s, 1, i - 1)
             b == SubSeq(s, i + 1, Len(s))
  <2>0. Len(s) \in Nat /\ i \in 1..Len(s) /\ \A j \in 1..Len(s) : s[j] \in Keys
    OBVIOUS
  <2>1. /\ a \in Seq(Keys) /\ Len(a) = i - 1
        /\ \A j \in 1..(i - 1) : a[j] = s[j]
    BY <2>0, SubSeqProperties
  <2>2. /\ b \in Seq(Keys) /\ Len(b) = Len(s) - i
        /\ \A j \in 1..(Len(s) - i) : b[j] = s[i + j]
    BY <2>0, SubSeqProperties
  <2>3. r = a \o b
    BY DEF RemoveAt
  <2> HIDE DEF a, b, r
  <2>4. /\ r \in Seq(Keys) /\ Len(r) = Len(a) + Len(b)
        /\ \A j \in 1..(Len(a) + Len(b)) :
             r[j] = IF j <= Len(a) THEN a[j] ELSE b[j - Len(a)]
    BY <2>1, <2>2, <2>3, ConcatProperties
  <2>5. \A j \in 1..(Len(s) - 1) : r[j] = IF j < i THEN s[j] ELSE s[j + 1]
    <3> SUFFICES ASSUME NEW j \in 1..(Len(s) - 1)
                 PROVE  r[j] = IF j < i THEN s[j] ELSE s[j + 1]
      OBVIOUS
    <3>1. CASE j < i
      <4>1. j <= Len(a) /\ j \in 1..(i - 1) /\ j \in 1..(Len(a) + Len(b))
        BY <2>0, <2>1, <2>2, <3>1
      <4> QED BY <2>1, <2>4, <3>1, <4>1
    <3>2. CASE ~(j < i)
      <4>1. /\ ~(j <= Len(a)) /\ j - Len(a) \in 1..(Len(s) - i)
            /\ i + (j - Len(a)) = j + 1 /\ j \in 1..(Len(a) + Len(b))
        BY <2>0, <2>1, <2>2, <3>2, Shift
      <4>2. r[j] = b[j - Len(a)] /\ b[j - Len(a)] = s[i + (j - Len(a))]
        BY <2>2, <2>4, <4>1
      <4> QED BY <3>2, <4>1, <4>2
    <3> QED BY <3>1, <3>2
  <2> QED BY <2>0, <2>1, <2>2, <2>4, <2>5
<1>2. /\ Len(s) \in Nat /\ i \in 1..Len(s) /\ DOMAIN s = 1..Len(s)
      /\ DOMAIN r = 1..(Len(s) - 1)
  BY <1>1
<1> HIDE DEF r
<1>3. KeysOf(r) \subseteq KeysOf(s)
  BY <1>1, <1>2 DEF KeysOf
<1>4. ASSUME NEW j \in 1..Len(s), j # i PROVE s[j] \in KeysOf(r)
  <2>1. CASE j < i
    BY <1>1, <1>2, <2>1 DEF KeysOf
  <2>2. CASE j > i
    <3>1. j - 1 \in DOMAIN r /\ r[j - 1] = s[j]
      BY <1>1, <1>2, <2>2
    <3> QED BY <3>1 DEF KeysOf
  <2> QED BY <1>2, <1>4, <2>1, <2>2
<1>5. KeysOf(s) \ {s[i]} \subseteq KeysOf(r)
  BY <1>2, <1>4 DEF KeysOf
<1> QED BY <1>1, <1>3, <1>5 DEF r

LEMMA NoKeys == KeysOf(<<>>) = {} /\ Distinct(<<>>)
  BY DEF KeysOf, Distinct

\* An id is that of a row or that of the cell of its key.
LEMMA IdFacts ==
  /\ \A id \in Ids : /\ id[2] \in Keys /\ id[1] \in {"row", "cell"}
                     /\ id = IF id[1] = "row" THEN Row(id[2]) ELSE Cell(id[2])
  /\ \A k \in Keys : /\ Row(k) \in Ids /\ Row(k)[1] = "row" /\ Row(k)[2] = k
                     /\ Cell(k) \in Ids /\ Cell(k)[1] = "cell" /\ Cell(k)[2] = k
  BY DEF Ids, Row, Cell

LEMMA InIdsOf ==
  ASSUME NEW rows \in Seq(Keys), NEW cells \in BOOLEAN, NEW id \in Ids
  PROVE  id \in IdsOf(rows, cells) <=>
           id[2] \in KeysOf(rows) /\ (id[1] = "row" \/ cells)
<1>1. KeysOf(rows) \subseteq Keys
  BY KeysAreKeys
<1>2. id = Row(id[2]) <=> id[1] = "row"
  BY IdFacts
<1>3. id = Cell(id[2]) <=> id[1] = "cell"
  BY IdFacts
<1>4. \A k \in Keys : (id = Row(k) \/ id = Cell(k)) => k = id[2]
  BY IdFacts
<1> QED BY <1>1, <1>2, <1>3, <1>4, IdFacts DEF IdsOf

LEMMA InShown ==
  ASSUME NEW rows \in Seq(Keys), NEW content \in [Keys -> Rows], NEW id \in Ids
  PROVE  id \in IdsShown(rows, content) <=>
           id[2] \in KeysOf(rows) /\ (id[1] = "row" \/ content[id[2]].cell)
<1>1. KeysOf(rows) \subseteq Keys
  BY KeysAreKeys
<1>2. id = Row(id[2]) <=> id[1] = "row"
  BY IdFacts
<1>3. id = Cell(id[2]) <=> id[1] = "cell"
  BY IdFacts
<1>4. \A k \in Keys : (id = Row(k) \/ id = Cell(k)) => k = id[2]
  BY IdFacts
<1> QED BY <1>1, <1>2, <1>3, <1>4, IdFacts DEF IdsShown

LEMMA ShownAreIds ==
  ASSUME NEW rows \in Seq(Keys), NEW content
  PROVE  IdsShown(rows, content) \subseteq Ids
  BY KeysAreKeys, IdFacts DEF IdsShown

\* What a region shows whose rows are all new.
LEMMA NewRows ==
  ASSUME TypeOK, order = list, Edited(<<>>)
  PROVE  /\ Shown = IdsOf(list, open)
         /\ \A k \in KeysOf(order) : inside[k] = NewRow
         /\ \A id \in Shown : inside[id[2]].text = value
<1>0. order \in Seq(Keys) /\ inside \in [Keys -> Rows] /\ open \in BOOLEAN
  BY DEF RegionTypes
<1>1. \A k \in KeysOf(order) : inside[k] = NewRow
  BY NoKeys DEF Edited
<1>2. \A k \in KeysOf(order) : inside[k].cell = open /\ inside[k].text = value
  BY <1>1 DEF NewRow
<1>3. \A id \in Ids : id \in Shown <=> id \in IdsOf(list, open)
  BY <1>0, <1>2, InShown, InIdsOf DEF Shown
<1>4. Shown \subseteq Ids /\ IdsOf(list, open) \subseteq Ids
  BY <1>0, ShownAreIds, KeysAreKeys, IdFacts DEF Shown, IdsOf
<1>5. \A id \in Shown : id[2] \in KeysOf(order)
  BY <1>0, <1>4, InShown DEF Shown
<1> QED BY <1>1, <1>2, <1>3, <1>4, <1>5

---------------------------------------------------------------------------
(* The steps. *)

LEMMA Records ==
  /\ \A r \in [gen : Nat, param : Values] : r # None
  /\ \A r \in [param : Values, count : Nat] : r # None
  BY KeyedAssumption

THEOREM InitIInv == Init => IInv
<1> SUFFICES ASSUME Init PROVE IInv
  OBVIOUS
<1>0. /\ list \in Lists /\ list \in Seq(Keys) /\ Distinct(list)
      /\ open \in BOOLEAN /\ value \in Values /\ pc = "idle" /\ updates = 0
      /\ order = list /\ listKeys = list
      /\ undo = <<>> /\ todo = <<>> /\ gone = {}
  BY KeyedAssumption DEF Init
<1>1. inside \in [Keys -> Rows] /\ \A k \in Keys : inside[k] = NewRow
  BY <1>0 DEF Init, Rows, NewRow
<1>2. \A id \in Ids :
        /\ gens[id] = IF id \in IdsOf(list, open) THEN 1 ELSE 0
        /\ registry[id] = IF id \in IdsOf(list, open)
                          THEN [gen |-> 1, param |-> value] ELSE None
        /\ scopes[id] = IF id \in IdsOf(list, open)
                        THEN [param |-> value, count |-> 0] ELSE None
  BY DEF Init, Fresh
<1>3. /\ [gen |-> 1, param |-> value] \in [gen : Nat, param : Values]
      /\ [param |-> value, count |-> 0] \in [param : Values, count : Nat]
  BY <1>0
<1>4. registry \in [Ids -> Entries] /\ scopes \in [Ids -> Scopes]
      /\ gens \in [Ids -> Nat]
  BY <1>0, <1>3 DEF Init, Fresh, Entries, Scopes
<1>5. TypeOK
  BY <1>0, <1>1, <1>4, KeyedAssumption DEF RegionTypes, PatchTypes
<1>6. Paired
  BY <1>2, <1>3, Records DEF Paired
<1>7. Edited(<<>>)
  BY <1>0, <1>1, KeysAreKeys DEF Edited
<1>8. Consistent(order, inside, registry, scopes, listKeys)
  <2>1. /\ Shown = IdsOf(list, open)
        /\ \A id \in Shown : inside[id[2]].text = value
    BY <1>0, <1>5, <1>7, NewRows
  <2>2. Shown \subseteq Ids
    BY <1>0, ShownAreIds DEF Shown
  <2> QED BY <1>0, <1>2, <1>3, <2>1, <2>2, Records DEF Consistent, Shown
<1> QED BY <1>0, <1>5, <1>6, <1>8 DEF IInv

LEMMA ActKeeps == ASSUME IInv, NEW id \in Ids, Act(id) PROVE IInv'
<1>0. /\ pc = "idle" /\ scopes' = [scopes EXCEPT ![id].count = @ + 1]
      /\ UNCHANGED <<board, document, registry, gens, listKeys, pc, saved, undo,
                     todo, gone, updates>>
      /\ registry[id] # None
  BY DEF Act
<1>1. scopes[id] \in [param : Values, count : Nat]
  BY <1>0 DEF IInv, Paired, RegionTypes, Scopes
<1>2. /\ \A i \in Ids : i # id => scopes'[i] = scopes[i]
      /\ scopes'[id] \in [param : Values, count : Nat]
      /\ scopes'[id].param = scopes[id].param
      /\ scopes' \in [Ids -> Scopes]
  <2>0. scopes \in [Ids -> Scopes]
    BY DEF IInv, RegionTypes
  <2>1. \A i \in Ids : i # id => scopes'[i] = scopes[i]
    BY <1>0, <2>0
  <2>2. scopes'[id] = [scopes[id] EXCEPT !.count = @ + 1]
    BY <1>0, <2>0
  <2>3. /\ scopes'[id] \in [param : Values, count : Nat]
        /\ scopes'[id].param = scopes[id].param
    BY <1>1, <2>2
  <2>4. scopes' = [i \in Ids |-> scopes'[i]]
    BY <1>0, <2>0
  <2>5. \A i \in Ids : scopes'[i] \in Scopes
    BY <2>0, <2>1, <2>3 DEF Scopes
  <2>6. scopes' \in [Ids -> Scopes]
    BY <2>4, <2>5
  <2> QED BY <2>1, <2>3, <2>6
<1>3. \A i \in Ids : (scopes'[i] = None) = (scopes[i] = None)
                     /\ (i = id \/ scopes'[i] = scopes[i])
  BY <1>1, <1>2, Records
<1>4. TypeOK'
  BY <1>0, <1>2 DEF IInv, RegionTypes, PatchTypes
<1>5. Paired'
  BY <1>0, <1>3 DEF IInv, Paired
<1>6. Consistent(order, inside, registry, scopes', listKeys)
  <2>1. IdsShown(order, inside) \subseteq Ids
    BY ShownAreIds DEF IInv, RegionTypes
  <2> QED BY <1>0, <1>2, <1>3, <2>1 DEF IInv, Consistent
<1> QED BY <1>0, <1>4, <1>5, <1>6 DEF IInv

LEMMA UpdateKeeps == ASSUME IInv, Update PROVE IInv'
<1>0. /\ pc = "idle" /\ pc' = "render" /\ updates' = updates + 1
      /\ updates < MaxUpdates
      /\ list' \in Lists /\ open' \in BOOLEAN /\ value' \in Values
      /\ saved' = [registry |-> registry, scopes |-> scopes, gens |-> gens,
                   listKeys |-> listKeys, order |-> order, inside |-> inside]
      /\ listKeys' = list' /\ todo' = list'
      /\ UNCHANGED <<document, registry, scopes, gens, undo, gone>>
  BY DEF Update
<1>1. list' \in Seq(Keys)
  BY <1>0, KeyedAssumption
<1>2. /\ saved'.registry = registry /\ saved'.scopes = scopes
      /\ saved'.gens = gens /\ saved'.listKeys = listKeys
      /\ saved'.order = order /\ saved'.inside = inside
  BY <1>0
<1>3. TypeOK'
  <2>1. saved' \in Snapshots
    BY <1>0 DEF IInv, RegionTypes, Snapshots
  <2> QED BY <1>0, <1>1, <2>1, KeyedAssumption DEF IInv, RegionTypes, PatchTypes
<1>4. Sound'
  BY <1>0, <1>2 DEF IInv, Sound, Consistent, Paired
<1>5. Undoable' /\ undo' = <<>>
  BY <1>0, <1>2 DEF IInv, Undoable
<1>6. Paired' /\ Refreshed'
  BY <1>0, <1>2 DEF IInv, Paired, Refreshed
<1>7. Renders'
  BY <1>0, <1>2, <1>5 DEF Renders, Rendered
<1> QED BY <1>0, <1>3, <1>4, <1>5, <1>6, <1>7 DEF IInv

LEMMA RenderKeeps == ASSUME IInv, Render PROVE IInv'
<1> DEFINE h == Head(todo)
           ids == IdsOf(<<h>>, open)
<1>0. /\ pc = "render" /\ todo # <<>> /\ todo' = Tail(todo)
      /\ RegisterAll(ids)
      /\ UNCHANGED <<board, document, listKeys, pc, saved, undo, gone, updates>>
  BY DEF Render
<1>1. /\ todo \in Seq(Keys) /\ list \in Seq(Keys) /\ open \in BOOLEAN
      /\ value \in Values /\ <<h>> \in Seq(Keys) /\ KeysOf(<<h>>) = {h}
      /\ Tail(todo) \in Seq(Keys) /\ h \in KeysOf(todo)
      /\ KeysOf(todo) = {h} \cup KeysOf(Tail(todo))
      /\ KeysOf(todo) \subseteq KeysOf(list)
  <2>1. todo \in Seq(Keys) /\ list \in Seq(Keys) /\ open \in BOOLEAN
        /\ value \in Values
    BY KeyedAssumption DEF IInv, RegionTypes, PatchTypes
  <2>2. h \in Keys /\ Tail(todo) \in Seq(Keys)
        /\ KeysOf(todo) = {h} \cup KeysOf(Tail(todo))
    BY <1>0, <2>1, TailKeys
  <2>3. <<h>> \in Seq(Keys) /\ KeysOf(<<h>>) = {h}
    BY <2>2 DEF KeysOf
  <2> QED BY <1>0, <2>1, <2>2, <2>3 DEF IInv, Renders
<1> HIDE DEF h
<1>2. \A id \in Ids : /\ id \in ids => id \in IdsOf(list, open)
                      /\ id \in IdsOf(todo, open) =>
                           id \in ids \/ id \in IdsOf(Tail(todo), open)
  BY <1>1, InIdsOf
<1> HIDE DEF ids
<1>3. \A id \in Ids \ ids : /\ registry'[id] = registry[id]
                            /\ scopes'[id] = scopes[id] /\ gens'[id] = gens[id]
  BY <1>0 DEF RegisterAll
<1>4. \A id \in Ids : id \in ids =>
        /\ gens'[id] = IF registry[id] = None THEN gens[id] + 1 ELSE gens[id]
        /\ registry'[id] = [gen |-> IF registry[id] = None THEN gens[id] + 1
                                    ELSE registry[id].gen, param |-> value]
        /\ scopes'[id] = [param |-> value,
                          count |-> IF scopes[id] = None THEN 0
                                    ELSE scopes[id].count]
  BY <1>0 DEF RegisterAll, Fresh
<1>5. \A id \in Ids : /\ gens[id] \in Nat
                      /\ registry[id] \in [gen : Nat, param : Values] \cup {None}
                      /\ scopes[id] \in [param : Values, count : Nat] \cup {None}
  BY DEF IInv, RegionTypes, Entries, Scopes
<1>6. ASSUME NEW id \in Ids, id \in ids
      PROVE  /\ registry'[id] \in [gen : Nat, param : Values]
             /\ registry'[id] # None /\ gens'[id] \in Nat
  <2> DEFINE g == IF registry[id] = None THEN gens[id] + 1 ELSE registry[id].gen
  <2>0. gens[id] \in Nat /\ (registry[id] # None => registry[id].gen \in Nat)
    <3>1. registry[id] # None => registry[id] \in [gen : Nat, param : Values]
      BY <1>5
    <3>2. registry[id] \in [gen : Nat, param : Values] => registry[id].gen \in Nat
      OBVIOUS
    <3> QED BY <1>5, <3>1, <3>2
  <2>1. g \in Nat /\ gens'[id] \in Nat
    <3>1. gens'[id] = IF registry[id] = None THEN gens[id] + 1 ELSE gens[id]
      BY <1>4, <1>6
    <3> QED BY <2>0, <3>1
  <2>2. registry'[id] = [gen |-> g, param |-> value]
    BY <1>4, <1>6
  <2> HIDE DEF g
  <2>3. registry'[id] \in [gen : Nat, param : Values]
    BY <1>1, <2>1, <2>2
  <2> QED BY <2>1, <2>3, Records
<1>6g. ASSUME NEW id \in Ids, id \in ids
       PROVE  /\ registry'[id].gen = gens'[id]
              /\ registry[id] # None => registry'[id].gen = registry[id].gen
  <2>1. registry[id] # None => registry[id].gen = gens[id]
    BY DEF IInv, Paired
  <2> DEFINE g == IF registry[id] = None THEN gens[id] + 1 ELSE registry[id].gen
  <2>2. gens'[id] = IF registry[id] = None THEN gens[id] + 1 ELSE gens[id]
    BY <1>4, <1>6g
  <2>3. registry'[id] = [gen |-> g, param |-> value]
    BY <1>4, <1>6g
  <2> HIDE DEF g
  <2>4. registry'[id].gen = g
    BY <2>3
  <2> QED BY <2>1, <2>2, <2>4 DEF g
<1>6s. ASSUME NEW id \in Ids, id \in ids
       PROVE  /\ scopes'[id] \in [param : Values, count : Nat]
              /\ scopes'[id] # None /\ scopes'[id].param = value
              /\ scopes'[id].count = IF scopes[id] = None THEN 0
                                     ELSE scopes[id].count
  <2> DEFINE c == IF scopes[id] = None THEN 0 ELSE scopes[id].count
  <2>1. c \in Nat
    BY <1>5
  <2>2. scopes'[id] = [param |-> value, count |-> c]
    BY <1>4, <1>6s
  <2> HIDE DEF c
  <2>3. /\ scopes'[id] \in [param : Values, count : Nat]
        /\ scopes'[id].param = value /\ scopes'[id].count = c
    BY <1>1, <2>1, <2>2
  <2> QED BY <2>3, Records DEF c
<1>7. TypeOK'
  <2>1. /\ registry' \in [Ids -> Entries] /\ scopes' \in [Ids -> Scopes]
        /\ gens' \in [Ids -> Nat]
    <3>1. /\ DOMAIN registry' = Ids /\ DOMAIN scopes' = Ids /\ DOMAIN gens' = Ids
          /\ registry' = [id \in Ids |-> registry'[id]]
          /\ scopes' = [id \in Ids |-> scopes'[id]]
          /\ gens' = [id \in Ids |-> gens'[id]]
      BY <1>0 DEF RegisterAll
    <3>2. \A id \in Ids : /\ registry'[id] \in Entries /\ scopes'[id] \in Scopes
                          /\ gens'[id] \in Nat
      BY <1>3, <1>5, <1>6, <1>6g, <1>6s DEF Entries, Scopes
    <3> QED BY <3>1, <3>2
  <2> QED BY <1>0, <1>1, <2>1 DEF IInv, RegionTypes, PatchTypes
<1>8. Paired'
  BY <1>3, <1>6, <1>6g, <1>6s DEF IInv, Paired
<1>9. Refreshed'
  <2> SUFFICES ASSUME NEW id \in Ids
               PROVE  /\ saved.registry[id] # None =>
                           /\ registry'[id] # None /\ gens'[id] = saved.gens[id]
                           /\ registry'[id].gen = saved.registry[id].gen
                           /\ scopes'[id].count = saved.scopes[id].count
                      /\ saved.registry[id] = None =>
                           IF registry'[id] = None THEN gens'[id] = saved.gens[id]
                           ELSE /\ gens'[id] = saved.gens[id] + 1
                                /\ scopes'[id].count = 0
    BY <1>0 DEF Refreshed
  <2>1. /\ saved.registry[id] # None =>
             /\ registry[id] # None /\ gens[id] = saved.gens[id]
             /\ registry[id].gen = saved.registry[id].gen
             /\ scopes[id].count = saved.scopes[id].count
        /\ saved.registry[id] = None =>
             IF registry[id] = None THEN gens[id] = saved.gens[id]
             ELSE gens[id] = saved.gens[id] + 1 /\ scopes[id].count = 0
        /\ (registry[id] = None) = (scopes[id] = None)
    BY <1>0 DEF IInv, Paired, Refreshed
  <2>2. CASE id \notin ids
    BY <1>3, <2>1, <2>2
  <2>3. CASE id \in ids
    <3>1. gens'[id] = IF registry[id] = None THEN gens[id] + 1 ELSE gens[id]
      BY <1>4, <2>3
    <3>2. /\ registry'[id] # None
          /\ registry[id] # None => registry'[id].gen = registry[id].gen
          /\ scopes'[id].count = IF scopes[id] = None THEN 0
                                 ELSE scopes[id].count
      BY <1>6, <1>6g, <1>6s, <2>3
    <3> QED BY <2>1, <3>1, <3>2
  <2> QED BY <2>2, <2>3
<1>10. Rendered(todo)
  BY <1>0 DEF IInv, Renders
<1>11. Rendered(todo)'
  <2>1. ASSUME NEW id \in Ids, id \in IdsOf(list, open) \ IdsOf(Tail(todo), open)
        PROVE  registry'[id] # None /\ scopes'[id].param = value
    <3>1. CASE id \in ids
      BY <1>6, <1>6g, <1>6s, <3>1
    <3>2. CASE id \notin ids
      BY <1>2, <1>3, <1>10, <2>1, <3>2 DEF Rendered
    <3> QED BY <3>1, <3>2
  <2>2. ASSUME NEW id \in Ids, registry'[id] # None
        PROVE  saved.registry[id] # None \/ id \in IdsOf(list, open)
    BY <1>2, <1>3, <1>10, <2>2 DEF Rendered
  <2> QED BY <1>0, <2>1, <2>2 DEF Rendered, IdsOf
<1>12. Renders' /\ Undoable' /\ Sound'
  BY <1>0, <1>1, <1>11 DEF IInv, Renders, Undoable, Sound
<1> QED BY <1>0, <1>7, <1>8, <1>9, <1>12 DEF IInv

LEMMA PlanKeeps == ASSUME IInv, Plan PROVE IInv'
<1>0. /\ pc = "render" /\ pc' = "edit" /\ todo = <<>> /\ todo' = list
      /\ Distinct(list)
      /\ UNCHANGED <<board, document, runtime, saved, undo, gone, updates>>
  BY DEF Plan
<1>1. list \in Seq(Keys)
  BY KeyedAssumption DEF IInv, RegionTypes
<1>2. TypeOK'
  BY <1>0, <1>1 DEF IInv, RegionTypes, PatchTypes
<1>3. Paired' /\ Sound' /\ Undoable' /\ Refreshed'
  BY <1>0 DEF IInv, Paired, Sound, Undoable, Refreshed
<1>4. Distinct(list)' /\ Rendered(<<>>)'
  BY <1>0 DEF IInv, Renders, Rendered, IdsOf
<1>5. Editing'
  BY <1>0 DEF IInv, Renders, Editing, Edited
<1> QED BY <1>0, <1>2, <1>3, <1>4, <1>5 DEF IInv

LEMMA EditRowKeeps == ASSUME IInv, EditRow PROVE IInv'
<1> DEFINE h == Head(todo)
<1>0. /\ pc = "edit" /\ todo # <<>> /\ todo' = Tail(todo)
      /\ UNCHANGED <<board, order, runtime, pc, saved, gone, updates>>
  BY DEF EditRow
<1>1. /\ todo \in Seq(Keys) /\ undo \in Seq(Edits) /\ inside \in [Keys -> Rows]
      /\ NewRow \in Rows
      /\ order = saved.order /\ Distinct(todo)
      /\ KeysOf(todo) \subseteq KeysOf(list)
  BY <1>0 DEF IInv, RegionTypes, PatchTypes, Editing, NewRow, Rows
<1>2. /\ h \in Keys /\ Tail(todo) \in Seq(Keys)
      /\ KeysOf(todo) = {h} \cup KeysOf(Tail(todo))
      /\ Distinct(Tail(todo)) /\ h \notin KeysOf(Tail(todo))
  BY <1>0, <1>1, TailKeys
<1> HIDE DEF h
<1>3. \A j \in DOMAIN undo : /\ undo[j].of = "row"
                             /\ undo[j].key \notin KeysOf(todo)
                             /\ undo[j].was = saved.inside[undo[j].key]
  BY <1>0 DEF IInv, Editing, Undoable
<1>4. /\ undo' \in Seq(Edits) /\ inside' \in [Keys -> Rows]
      /\ \A j \in DOMAIN undo' : /\ undo'[j].of = "row"
                                 /\ undo'[j].key \notin KeysOf(Tail(todo))
                                 /\ undo'[j].was = saved.inside[undo'[j].key]
      /\ \A k \in KeysOf(saved.order) :
           \/ inside'[k] = saved.inside[k]
           \/ \E j \in DOMAIN undo' : undo'[j].of = "row" /\ undo'[j].key = k
      /\ h \in KeysOf(order) => inside'[h] = NewRow
      /\ \A k \in Keys : k # h => inside'[k] = inside[k]
  <2>1. CASE h \in KeysOf(order)
    <3> DEFINE e == [of |-> "row", key |-> h, was |-> inside[h]]
               n == Len(undo)
    <3>1. undo' = Append(undo, e) /\ inside' = [inside EXCEPT ![h] = NewRow]
      BY <1>0, <2>1 DEF EditRow, InverseOf, NewRow, h
    <3>2. e.of = "row" /\ e.key = h /\ e.was = inside[h] /\ e \in Edits
      BY <1>1, <1>2 DEF Edits
    <3> HIDE DEF e
    <3>3. /\ undo' \in Seq(Edits) /\ DOMAIN undo' = 1..(n + 1) /\ n \in Nat
          /\ undo'[n + 1] = e /\ DOMAIN undo = 1..n
          /\ \A j \in 1..n : undo'[j] = undo[j]
      BY <1>1, <3>1, <3>2, AppendProperties
    <3> HIDE DEF n
    <3>4. inside' \in [Keys -> Rows] /\ inside'[h] = NewRow
          /\ \A k \in Keys : k # h => inside'[k] = inside[k]
      BY <1>1, <1>2, <3>1
    <3>5. inside[h] = saved.inside[h]
      BY <1>0, <1>1, <1>2, <1>3, <2>1 DEF IInv, Undoable
    <3>6. ASSUME NEW j \in DOMAIN undo'
          PROVE  /\ undo'[j].of = "row" /\ undo'[j].key \notin KeysOf(Tail(todo))
                 /\ undo'[j].was = saved.inside[undo'[j].key]
      <4>1. CASE j = n + 1
        BY <1>2, <3>2, <3>3, <3>5, <4>1
      <4>2. CASE j \in 1..n
        BY <1>2, <1>3, <3>3, <4>2
      <4> QED BY <3>3, <4>1, <4>2
    <3>7. ASSUME NEW k \in KeysOf(saved.order)
          PROVE  \/ inside'[k] = saved.inside[k]
                 \/ \E j \in DOMAIN undo' : undo'[j].of = "row" /\ undo'[j].key = k
      <4>1. CASE k = h
        BY <3>2, <3>3, <4>1
      <4>2. CASE k # h
        <5>1. k \in Keys
          BY <1>1, KeysAreKeys DEF IInv, RegionTypes
        <5>2. \/ inside[k] = saved.inside[k]
              \/ \E j \in DOMAIN undo : undo[j].of = "row" /\ undo[j].key = k
          BY <1>0 DEF IInv, Undoable
        <5>3. \A j \in DOMAIN undo : j \in DOMAIN undo' /\ undo'[j] = undo[j]
          BY <3>3
        <5> QED BY <3>4, <4>2, <5>1, <5>2, <5>3
      <4> QED BY <4>1, <4>2
    <3> QED BY <3>3, <3>4, <3>6, <3>7
  <2>2. CASE h \notin KeysOf(order)
    <3>1. undo' = undo /\ inside' = inside
      BY <1>0, <2>2 DEF EditRow, h
    <3>2. \A k \in KeysOf(saved.order) :
            \/ inside[k] = saved.inside[k]
            \/ \E j \in DOMAIN undo : undo[j].of = "row" /\ undo[j].key = k
      BY <1>0 DEF IInv, Undoable
    <3> QED BY <1>1, <1>2, <1>3, <2>2, <3>1, <3>2
  <2> QED BY <2>1, <2>2
<1>5. TypeOK'
  BY <1>0, <1>2, <1>4 DEF IInv, RegionTypes, PatchTypes
<1>6. Undoable'
  BY <1>0, <1>1, <1>4 DEF Undoable
<1>7. Paired' /\ Sound' /\ Refreshed' /\ Distinct(list)' /\ Rendered(<<>>)'
  BY <1>0 DEF IInv, Paired, Sound, Refreshed, Rendered, IdsOf
<1>8. Edited(todo)'
  <2>1. Edited(todo) /\ KeysOf(list) \subseteq Keys
    BY <1>0, KeysAreKeys, KeyedAssumption DEF IInv, Editing, RegionTypes
  <2> SUFFICES ASSUME NEW k \in (KeysOf(order) \cap KeysOf(list))
                                  \ KeysOf(Tail(todo))
               PROVE  inside'[k] = NewRow
    BY <1>0 DEF Edited, NewRow
  <2> QED BY <1>2, <1>4, <2>1 DEF Edited
<1>9. Editing'
  BY <1>0, <1>1, <1>2, <1>4, <1>8 DEF Editing
<1> QED BY <1>0, <1>5, <1>6, <1>7, <1>9 DEF IInv

LEMMA RearrangeKeeps == ASSUME IInv, Rearrange PROVE IInv'
<1> DEFINE e == [of |-> "order", was |-> order]
           n == Len(undo)
<1>0. /\ pc = "edit" /\ pc' = "rearrange" /\ todo = <<>>
      /\ undo' = Append(undo, e)
      /\ UNCHANGED <<board, document, runtime, saved, todo, gone, updates>>
  BY DEF Rearrange
<1>1. /\ undo \in Seq(Edits) /\ order = saved.order /\ Edited(<<>>)
      /\ e.of = "order" /\ e.was = saved.order /\ e \in Edits
  BY <1>0 DEF IInv, Editing, RegionTypes, PatchTypes, Edits
<1> HIDE DEF e
<1>2. /\ undo' \in Seq(Edits) /\ DOMAIN undo' = 1..(n + 1) /\ n \in Nat
      /\ undo'[n + 1] = e /\ DOMAIN undo = 1..n
      /\ \A j \in 1..n : undo'[j] = undo[j]
  BY <1>0, <1>1, AppendProperties
<1> HIDE DEF n
<1>3. TypeOK'
  BY <1>0, <1>2 DEF IInv, RegionTypes, PatchTypes
<1>4. Undoable'
  <2>1. Undoable /\ \A j \in DOMAIN undo : j \in DOMAIN undo' /\ undo'[j] = undo[j]
    BY <1>0, <1>2 DEF IInv
  <2>2. \A j \in DOMAIN undo' : j \in DOMAIN undo \/ j = n + 1
    BY <1>2
  <2>3. ASSUME NEW j \in DOMAIN undo'
        PROVE  undo'[j].was = IF undo'[j].of = "row"
                              THEN saved.inside[undo'[j].key] ELSE saved.order
    BY <1>1, <1>2, <2>1, <2>2 DEF Undoable
  <2> QED BY <1>0, <1>1, <2>1, <2>3 DEF Undoable
<1>5. Paired' /\ Sound' /\ Refreshed' /\ Distinct(list)' /\ Rendered(<<>>)'
  BY <1>0 DEF IInv, Paired, Sound, Refreshed, Rendered, IdsOf
<1>6. Rearranges'
  BY <1>0, <1>1, <1>2 DEF Rearranges, Edited, NewRow
<1> QED BY <1>0, <1>3, <1>4, <1>5, <1>6 DEF IInv

LEMMA RemoveRowKeeps ==
  ASSUME IInv, NEW i \in DOMAIN order, RemoveRow(i) PROVE IInv'
<1>0. /\ pc = "rearrange" /\ order[i] \notin KeysOf(list)
      /\ order' = RemoveAt(order, i)
      /\ UNCHANGED <<board, inside, runtime, pc, saved, undo, todo, gone, updates>>
  BY DEF RemoveRow
<1>1. /\ order' \in Seq(Keys) /\ KeysOf(order') \subseteq KeysOf(order)
      /\ KeysOf(order) \ {order[i]} \subseteq KeysOf(order')
  BY <1>0, RemoveKeys DEF IInv, RegionTypes
<1>2. TypeOK'
  BY <1>0, <1>1 DEF IInv, RegionTypes, PatchTypes
<1>3. Rearranges'
  BY <1>0, <1>1 DEF IInv, Rearranges, Edited, NewRow
<1>4. Undoable'
  BY <1>0 DEF IInv, Undoable, Rearranges
<1>5. Paired' /\ Sound' /\ Refreshed' /\ Distinct(list)' /\ Rendered(<<>>)'
  BY <1>0 DEF IInv, Paired, Sound, Refreshed, Rendered, IdsOf
<1> QED BY <1>0, <1>2, <1>3, <1>4, <1>5 DEF IInv

LEMMA InsertRowsKeeps == ASSUME IInv, InsertRows PROVE IInv'
<1>0. /\ pc = "rearrange" /\ pc' = "bind" /\ order' = list
      /\ KeysOf(order) \subseteq KeysOf(list)
      /\ inside' = [k \in Keys |-> IF k \in KeysOf(list) \ KeysOf(order)
                                   THEN NewRow ELSE inside[k]]
      /\ UNCHANGED <<board, runtime, saved, undo, todo, gone, updates>>
  BY DEF InsertRows, NewRow
<1>1. /\ list \in Seq(Keys) /\ inside \in [Keys -> Rows] /\ NewRow \in Rows
      /\ saved.order \in Seq(Keys) /\ Rearranges
  BY <1>0, KeyedAssumption
  DEF IInv, RegionTypes, PatchTypes, NewRow, Rows, Snapshots
<1>2. KeysOf(list) \subseteq Keys /\ KeysOf(saved.order) \subseteq Keys
  BY <1>1, KeysAreKeys
<1>3. TypeOK'
  BY <1>0, <1>1 DEF IInv, RegionTypes, PatchTypes
<1>4. \A k \in KeysOf(saved.order) : inside'[k] = inside[k]
  BY <1>0, <1>1, <1>2 DEF Rearranges
<1>5. Undoable'
  BY <1>0, <1>1, <1>4 DEF IInv, Undoable, Rearranges
<1>6. Edited(<<>>)'
  <2> SUFFICES ASSUME NEW k \in KeysOf(list) PROVE inside'[k] = NewRow
    BY <1>0, NoKeys DEF Edited, NewRow
  <2> QED BY <1>0, <1>1, <1>2, NoKeys DEF Rearranges, Edited
<1>7. Paired' /\ Sound' /\ Refreshed' /\ Distinct(list)' /\ Rendered(<<>>)'
  BY <1>0 DEF IInv, Paired, Sound, Refreshed, Rendered, IdsOf
<1> QED BY <1>0, <1>3, <1>5, <1>6, <1>7 DEF IInv

\* What rendering and the edits have left: the components shown are the
\* ones registered, but for those that were shown before.
LEMMA Committing ==
  ASSUME IInv, pc = "bind"
  PROVE  /\ Shown = IdsOf(list, open) /\ Shown \subseteq Ids
         /\ \A id \in Ids : registry[id] # None =>
              id \in Shown \/ id \in IdsShown(saved.order, saved.inside)
         /\ \A id \in Shown : registry[id] # None /\ scopes[id].param = value
<1>0. Sound /\ Rendered(<<>>) /\ TypeOK /\ order = list /\ Edited(<<>>)
  BY DEF IInv
<1>1. Shown = IdsOf(list, open)
  BY <1>0, NewRows
<1>2. Shown \subseteq Ids
  BY <1>0, ShownAreIds DEF RegionTypes, Shown
<1>3. ASSUME NEW id \in Ids, registry[id] # None
      PROVE  id \in Shown \/ id \in IdsShown(saved.order, saved.inside)
  BY <1>0, <1>1, <1>3 DEF Rendered, Sound, Consistent
<1>4. IdsOf(<<>>, open) = {}
  BY NoKeys DEF IdsOf
<1>5. \A id \in Shown : registry[id] # None /\ scopes[id].param = value
  BY <1>0, <1>1, <1>2, <1>4 DEF Rendered
<1> QED BY <1>1, <1>2, <1>3, <1>5

LEMMA BindKeeps == ASSUME IInv, Bind PROVE IInv'
<1>0. /\ pc = "bind" /\ pc' = "destroy" /\ undo' = <<>>
      /\ gone' = IdsShown(saved.order, saved.inside) \ Shown
      /\ UNCHANGED <<board, document, runtime, saved, todo, updates>>
  BY DEF Bind
<1>1. IdsShown(saved.order, saved.inside) \subseteq Ids
  BY <1>0, ShownAreIds DEF IInv, PatchTypes, Snapshots
<1>2. TypeOK'
  BY <1>0, <1>1, EmptySeq DEF IInv, RegionTypes, PatchTypes
<1>3. Paired' /\ Edited(<<>>)'
  BY <1>0 DEF IInv, Paired, Edited, NewRow
<1>4. /\ gone' \cap Shown = {} /\ Registered \subseteq Shown \cup gone'
      /\ \A id \in Shown : registry[id] # None /\ scopes[id].param = value
  BY <1>0, Committing DEF Registered
<1>5. Shown' = Shown /\ Registered' = Registered
  BY <1>0 DEF Shown, Registered
<1>6. Destroys'
  BY <1>0, <1>3, <1>4, <1>5 DEF Destroys, IInv
<1> QED BY <1>0, <1>2, <1>3, <1>6 DEF IInv

LEMMA FailKeeps == ASSUME IInv, Fail PROVE IInv'
<1>0. /\ pc \in Patching /\ pc' = "undo" /\ todo' = <<>>
      /\ UNCHANGED <<board, document, runtime, saved, undo, gone, updates>>
  BY DEF Fail
<1>1. TypeOK'
  BY <1>0, EmptySeq DEF IInv, RegionTypes, PatchTypes
<1>2. Paired' /\ Sound' /\ Undoable'
  BY <1>0 DEF IInv, Paired, Sound, Undoable
<1> QED BY <1>0, <1>1, <1>2 DEF IInv

LEMMA UndoEditKeeps == ASSUME IInv, UndoEdit PROVE IInv'
<1> DEFINE n == Len(undo)
           e == Last(undo)
<1>0. /\ pc = "undo" /\ undo # <<>> /\ undo' = Front(undo)
      /\ \/ /\ e.of = "row" /\ inside' = [inside EXCEPT ![e.key] = e.was]
            /\ UNCHANGED order
         \/ e.of = "order" /\ order' = e.was /\ UNCHANGED inside
      /\ UNCHANGED <<board, runtime, pc, saved, todo, gone, updates>>
  BY DEF UndoEdit
<1>1. undo \in Seq(Edits) /\ order \in Seq(Keys) /\ inside \in [Keys -> Rows]
  BY DEF IInv, RegionTypes, PatchTypes
<1>2. /\ n \in Nat \ {0} /\ DOMAIN undo = 1..n /\ e = undo[n] /\ e \in Edits
      /\ n \in DOMAIN undo
      /\ undo' \in Seq(Edits) /\ DOMAIN undo' = 1..(n - 1)
      /\ \A j \in 1..(n - 1) : j \in DOMAIN undo /\ undo'[j] = undo[j]
  <2>1. n \in Nat \ {0} /\ DOMAIN undo = 1..n
        /\ \A j \in 1..n : undo[j] \in Edits
    BY <1>0, <1>1
  <2>2. e = undo[n]
    BY DEF Last
  <2>3. undo' = SubSeq(undo, 1, n - 1)
    BY <1>0 DEF Front
  <2>4. /\ undo' \in Seq(Edits) /\ DOMAIN undo' = 1..(n - 1)
        /\ \A j \in 1..(n - 1) : undo'[j] = undo[j]
    <3> HIDE DEF n
    <3> QED BY <1>1, <2>1, <2>3, SubSeqProperties
  <2> QED BY <2>1, <2>2, <2>4
<1> HIDE DEF n, e
<1>3. Undoable
  BY <1>0 DEF IInv
<1>4. \A j \in DOMAIN undo : j = n \/ (j \in DOMAIN undo' /\ undo'[j] = undo[j])
  <2>1. \A j \in 1..n : j = n \/ j \in 1..(n - 1)
    BY <1>2
  <2> QED BY <1>2, <2>1, Zenon
<1>5. /\ e.of = "row" => e.was = saved.inside[e.key]
      /\ e.of = "order" => e.was = saved.order
  BY <1>2, <1>3 DEF Undoable
<1>6. \A j \in DOMAIN undo' :
        undo'[j].was = IF undo'[j].of = "row" THEN saved.inside[undo'[j].key]
                       ELSE saved.order
  BY <1>2, <1>3 DEF Undoable
<1>7. /\ order' \in Seq(Keys) /\ inside' \in [Keys -> Rows]
      /\ order' = saved.order \/ \E j \in DOMAIN undo' : undo'[j].of = "order"
      /\ \A k \in KeysOf(saved.order) :
           \/ inside'[k] = saved.inside[k]
           \/ \E j \in DOMAIN undo' : undo'[j].of = "row" /\ undo'[j].key = k
  <2>1. CASE e.of = "row"
    <3>1. inside' = [inside EXCEPT ![e.key] = e.was] /\ order' = order
          /\ e.of # "order"
      BY <1>0, <2>1
    <3>2. e.key \in Keys /\ e.was \in Rows
      BY <1>2, <2>1 DEF Edits
    <3>3. /\ inside' \in [Keys -> Rows] /\ inside'[e.key] = saved.inside[e.key]
          /\ \A k \in Keys : k # e.key => inside'[k] = inside[k]
      BY <1>1, <1>5, <2>1, <3>1, <3>2
    <3>4. order = saved.order \/ \E j \in DOMAIN undo' : undo'[j].of = "order"
      BY <1>2, <1>3, <1>4, <2>1 DEF Undoable
    <3>5. ASSUME NEW k \in KeysOf(saved.order)
          PROVE  \/ inside'[k] = saved.inside[k]
                 \/ \E j \in DOMAIN undo' : undo'[j].of = "row" /\ undo'[j].key = k
      <4>1. k \in Keys
        BY <1>0, KeysAreKeys DEF IInv, PatchTypes, Snapshots
      <4>2. CASE k = e.key
        BY <3>3, <4>2
      <4>3. CASE k # e.key
        BY <1>2, <1>3, <1>4, <3>3, <4>1, <4>3 DEF Undoable
      <4> QED BY <4>2, <4>3
    <3> QED BY <1>1, <3>1, <3>3, <3>4, <3>5
  <2>2. CASE e.of = "order"
    <3>1. order' = e.was /\ inside' = inside
      BY <1>0, <2>2
    <3>2. order' = saved.order /\ order' \in Seq(Keys)
      BY <1>0, <1>5, <2>2, <3>1 DEF IInv, PatchTypes, Snapshots
    <3>3. ASSUME NEW k \in KeysOf(saved.order)
          PROVE  \/ inside[k] = saved.inside[k]
                 \/ \E j \in DOMAIN undo' : undo'[j].of = "row" /\ undo'[j].key = k
      BY <1>2, <1>3, <1>4, <2>2 DEF Undoable
    <3> QED BY <1>1, <3>1, <3>2, <3>3
  <2> QED BY <1>0, <2>1, <2>2
<1>8. TypeOK'
  BY <1>0, <1>2, <1>7 DEF IInv, RegionTypes, PatchTypes
<1>9. Undoable'
  BY <1>0, <1>6, <1>7 DEF Undoable
<1>10. Paired' /\ Sound'
  BY <1>0 DEF IInv, Paired, Sound
<1> QED BY <1>0, <1>8, <1>9, <1>10 DEF IInv

\* A patch that is undone has put the document back.
LEMMA Undone ==
  ASSUME IInv, pc = "undo", undo = <<>>
  PROVE  /\ order = saved.order /\ saved.order \in Seq(Keys)
         /\ \A k \in KeysOf(order) : inside[k] = saved.inside[k]
         /\ Shown = IdsShown(saved.order, saved.inside) /\ Shown \subseteq Ids
<1>1. Undoable /\ saved \in Snapshots
  BY DEF IInv, PatchTypes
<1>2. /\ order = saved.order
      /\ \A k \in KeysOf(order) : inside[k] = saved.inside[k]
  BY <1>1 DEF Undoable
<1>3. /\ saved.order \in Seq(Keys) /\ saved.inside \in [Keys -> Rows]
      /\ inside \in [Keys -> Rows]
  BY <1>1 DEF IInv, RegionTypes, Snapshots
<1>4. \A id \in Ids : id \in Shown <=> id \in IdsShown(saved.order, saved.inside)
  BY <1>2, <1>3, InShown DEF Shown
<1>5. Shown \subseteq Ids /\ IdsShown(saved.order, saved.inside) \subseteq Ids
  BY <1>2, <1>3, ShownAreIds DEF Shown
<1> QED BY <1>2, <1>3, <1>4, <1>5

LEMMA RestoreKeeps == ASSUME IInv, Restore PROVE IInv'
<1>0. /\ pc = "undo" /\ pc' = "idle" /\ undo = <<>> /\ undo' = <<>>
      /\ registry' = saved.registry /\ scopes' = saved.scopes
      /\ gens' = saved.gens /\ listKeys' = saved.listKeys
      /\ UNCHANGED <<board, document, todo, gone, updates>>
  BY DEF Restore, SavedScopes
<1>1. /\ saved.registry \in [Ids -> Entries] /\ saved.scopes \in [Ids -> Scopes]
      /\ saved.gens \in [Ids -> Nat] /\ saved.listKeys \in Seq(Keys)
  BY <1>0 DEF IInv, PatchTypes, Snapshots
<1>2. TypeOK'
  BY <1>0, <1>1, EmptySeq DEF IInv, RegionTypes, PatchTypes
<1>3. Sound
  BY <1>0 DEF IInv
<1>4. Paired'
  BY <1>0, <1>3, Zenon DEF Sound, Consistent, Paired
<1>5. Consistent(order, inside, saved.registry, saved.scopes, saved.listKeys)
  <2>1. Consistent(saved.order, saved.inside, saved.registry, saved.scopes,
                   saved.listKeys)
    BY <1>3 DEF Sound
  <2>2. \A id \in Shown : id[2] \in KeysOf(order)
    BY <1>0, Undone, InShown DEF IInv, RegionTypes, Shown
  <2> QED BY <1>0, <2>1, <2>2, Undone DEF Consistent, Shown
<1> QED BY <1>0, <1>2, <1>4, <1>5 DEF IInv

\* What is destroyed is none of what is shown.
LEMMA DestroyKeepsShown ==
  ASSUME Apart, IInv, NEW id \in Ids, Destroy(id)
  PROVE  \A i \in Shown : registry'[i] = registry[i] /\ scopes'[i] = scopes[i]
<1> DEFINE family == {id} \cup Children(id)
<1>0. /\ pc = "destroy" /\ id \in gone
      /\ IF registry[id] = None THEN UNCHANGED <<registry, scopes>>
         ELSE UnregisterAll(family)
  BY DEF Destroy
<1>1. /\ order \in Seq(Keys) /\ inside \in [Keys -> Rows] /\ Shown \subseteq Ids
      /\ Destroys
  BY <1>0, ShownAreIds DEF IInv, RegionTypes, Shown
<1>2. Children(id) \subseteq {Cell(id[2])} /\ (id[1] # "row" => Children(id) = {})
  BY IdFacts DEF Apart, Children
<1>3. family \cap Shown = {}
  <2>1. id \notin Shown
    BY <1>0, <1>1 DEF Destroys
  <2>2. CASE id[1] = "row"
    <3>1. id[2] \notin KeysOf(order)
      BY <1>1, <2>1, <2>2, InShown DEF Shown
    <3>2. Cell(id[2]) \notin Shown
      BY <1>1, <3>1, InShown, IdFacts DEF Shown
    <3> QED BY <1>2, <2>1, <3>2
  <2>3. CASE id[1] # "row"
    BY <1>2, <2>1, <2>3
  <2> QED BY <2>2, <2>3
<1> HIDE DEF family
<1> QED BY <1>0, <1>1, <1>3 DEF UnregisterAll

LEMMA DestroyKeeps ==
  ASSUME Apart, IInv, NEW id \in Ids, Destroy(id) PROVE IInv'
<1> DEFINE family == {id} \cup Children(id)
<1>0. /\ pc = "destroy" /\ id \in gone /\ gone' = gone \ {id}
      /\ IF registry[id] = None THEN UNCHANGED <<registry, scopes>>
         ELSE UnregisterAll(family)
      /\ UNCHANGED <<board, document, gens, listKeys, pc, saved, undo, todo, updates>>
  BY DEF Destroy
<1>1. /\ registry \in [Ids -> Entries] /\ scopes \in [Ids -> Scopes]
      /\ Destroys /\ Paired /\ None \in Entries /\ None \in Scopes
  BY <1>0 DEF IInv, RegionTypes, Entries, Scopes
<1>2. registry'[id] = None
  BY <1>0 DEF UnregisterAll
<1> HIDE DEF family
<1>3. \A i \in Ids : \/ registry'[i] = registry[i] /\ scopes'[i] = scopes[i]
                     \/ registry'[i] = None /\ scopes'[i] = None
  BY <1>0 DEF UnregisterAll
<1>4. registry' \in [Ids -> Entries] /\ scopes' \in [Ids -> Scopes]
  BY <1>0, <1>1 DEF UnregisterAll
<1>5. TypeOK'
  BY <1>0, <1>4 DEF IInv, RegionTypes, PatchTypes
<1>6. Paired'
  BY <1>0, <1>1, <1>3 DEF Paired
<1>7. Shown' = Shown /\ Registered' \subseteq Registered \ {id}
  BY <1>0, <1>2, <1>3 DEF Shown, Registered
<1>8. \A i \in Shown : registry'[i] # None /\ scopes'[i].param = value
  BY <1>1, DestroyKeepsShown DEF Destroys
<1>9. Destroys'
  BY <1>0, <1>1, <1>7, <1>8 DEF Destroys, Edited, NewRow
<1> QED BY <1>0, <1>5, <1>6, <1>9 DEF IInv

LEMMA FinishKeeps == ASSUME IInv, Finish PROVE IInv'
<1>0. /\ pc = "destroy" /\ pc' = "idle" /\ gone = {}
      /\ UNCHANGED <<board, document, runtime, undo, todo, gone, updates>>
  BY DEF Finish
<1>1. Destroys /\ Paired /\ TypeOK
  BY <1>0 DEF IInv
<1>2. TypeOK'
  BY <1>0, <1>1 DEF RegionTypes, PatchTypes
<1>3. Consistent(order, inside, registry, scopes, listKeys)
  <2>1. Shown \subseteq Ids
    BY <1>1, ShownAreIds DEF RegionTypes, Shown
  <2>2. \A id \in Shown : inside[id[2]].text = value
    BY <1>1, NewRows DEF Destroys
  <2>3. \A id \in Ids : (registry[id] # None) = (id \in Shown)
    BY <1>0, <1>1 DEF Destroys, Registered
  <2> QED BY <1>1, <2>1, <2>2, <2>3 DEF Destroys, Paired, Consistent, Shown
<1>4. Paired'
  BY <1>0, <1>1 DEF Paired
<1> QED BY <1>0, <1>1, <1>2, <1>3, <1>4 DEF IInv, Destroys

LEMMA StepKeeps == ASSUME Apart, IInv, [Next]_vars PROVE IInv'
<1>1. CASE UNCHANGED vars
  <2>1. TypeOK' = TypeOK /\ Paired' = Paired
    BY <1>1 DEF RegionTypes, PatchTypes, Paired
  <2>2. /\ Consistent(order, inside, registry, scopes, listKeys)'
           = Consistent(order, inside, registry, scopes, listKeys)
        /\ Sound' = Sound
    BY <1>1 DEF Sound
  <2>3. Undoable' = Undoable /\ Refreshed' = Refreshed
    BY <1>1 DEF Undoable, Refreshed
  <2>4. Renders' = Renders /\ Rendered(<<>>)' = Rendered(<<>>)
    BY <1>1 DEF Renders, Rendered
  <2>5. Editing' = Editing /\ Rearranges' = Rearranges /\ Edited(<<>>)' = Edited(<<>>)
    BY <1>1 DEF Editing, Rearranges, Edited, NewRow
  <2>6. Destroys' = Destroys
    BY <1>1 DEF Destroys, Edited, NewRow, Registered, Shown
  <2>7. /\ pc' = pc /\ undo' = undo /\ list' = list /\ order' = order
        /\ listKeys' = listKeys
    BY <1>1
  <2> QED BY <2>1, <2>2, <2>3, <2>4, <2>5, <2>6, <2>7 DEF IInv
<1>2. ASSUME NEW id \in Ids, Act(id) PROVE IInv'
  BY <1>2, ActKeeps
<1>3. ASSUME NEW id \in Ids, Destroy(id) PROVE IInv'
  BY <1>3, DestroyKeeps
<1>4. ASSUME NEW i \in DOMAIN order, RemoveRow(i) PROVE IInv'
  BY <1>4, RemoveRowKeeps
<1>5. CASE Update
  BY <1>5, UpdateKeeps
<1>6. CASE Render \/ Plan
  BY <1>6, RenderKeeps, PlanKeeps
<1>7. CASE EditRow \/ Rearrange \/ InsertRows
  BY <1>7, EditRowKeeps, RearrangeKeeps, InsertRowsKeeps
<1>8. CASE Bind \/ Finish
  BY <1>8, BindKeeps, FinishKeeps
<1>9. CASE Fail \/ UndoEdit \/ Restore
  BY <1>9, FailKeeps, UndoEditKeeps, RestoreKeeps
<1> QED BY <1>1, <1>2, <1>3, <1>4, <1>5, <1>6, <1>7, <1>8, <1>9 DEF Next

---------------------------------------------------------------------------
(* The theorems. *)

\* What a patch of a keyed region holds at each of its steps, edits and
\* inverses, snapshot and candidate (patchComponentForRegion), holds in every
\* behaviour.
THEOREM Inductive == ASSUME Apart PROVE Spec => []IInv
<1>1. IInv /\ [Next]_vars => IInv'
  BY StepKeeps
<1> QED BY InitIInv, <1>1, PTL DEF Spec

LEMMA AtRest == IInv => RegistryMatchesDocument
<1> SUFFICES ASSUME IInv, pc = "idle"
             PROVE  /\ Registered = Shown
                    /\ {id \in Ids : scopes[id] # None} = Shown
                    /\ \A id \in Shown : scopes[id].param = inside[id[2]].text
                    /\ listKeys = order
  BY DEF RegistryMatchesDocument
<1>1. Consistent(order, inside, registry, scopes, listKeys)
  BY DEF IInv
<1>2. Shown \subseteq Ids
  BY ShownAreIds DEF IInv, RegionTypes, Shown
<1> QED BY <1>1, <1>2 DEF Consistent, Registered, Shown

\* Between patches, done or rolled back, the registry, the scopes and the keys
\* are those of the document, whatever threw in the middle of a patch.
THEOREM RegistryHonest == ASSUME Apart PROVE Spec => []RegistryMatchesDocument
  BY Inductive, AtRest, PTL

---------------------------------------------------------------------------
(* A patch is one step of the contract or none. *)

SeenVars == <<SeenOrder, SeenInside, SeenInst, SeenUsed>>

LEMMA InitSeen == ASSUME Init, IInv PROVE Contract!Init
<1>0. pc = "idle" /\ Distinct(list) /\ order = list /\ Committed
  BY DEF Init, Committed
<1>1. SeenOrder = order /\ SeenUsed = gens
      /\ SeenInst = Instances(Shown, registry, scopes)
  BY <1>0 DEF SeenOrder, SeenUsed, SeenInst
<1>2. \A id \in Ids : (registry[id] # None) = (id \in Shown)
  BY <1>0 DEF IInv, Consistent, Shown
<1>3. ASSUME NEW id \in Ids
      PROVE  /\ gens[id] = IF registry[id] = None THEN 0 ELSE 1
             /\ registry[id] # None => registry[id].gen = 1 /\ scopes[id].count = 0
  <2>1. /\ gens[id] = IF id \in IdsOf(list, open) THEN 1 ELSE 0
        /\ registry[id] = IF id \in IdsOf(list, open)
                          THEN [gen |-> 1, param |-> value] ELSE None
        /\ scopes[id] = IF id \in IdsOf(list, open)
                        THEN [param |-> value, count |-> 0] ELSE None
    BY DEF Init, Fresh
  <2>2. [gen |-> 1, param |-> value] # None
    BY Records DEF Init
  <2> QED BY <2>1, <2>2
<1>4. ASSUME NEW id \in Ids
      PROVE  /\ registry[id] # None => SeenInst[id] = [gen |-> 1, count |-> 0]
             /\ registry[id] = None => SeenInst[id] = None
             /\ [gen |-> 1, count |-> 0] # None
  <2>1. [gen |-> 1, count |-> 0] # None
    BY KeyedAssumption
  <2> QED BY <1>1, <1>2, <1>3, <2>1 DEF Instances
<1>5. Distinct(SeenOrder)
  BY <1>0, <1>1
<1> QED BY <1>1, <1>3, <1>4, <1>5 DEF Contract!Init, Contract!Distinct, Distinct

\* A component's action.
LEMMA ActSeen ==
  ASSUME IInv, NEW id \in Ids, Act(id) PROVE Contract!Act(id)
<1>0. /\ pc = "idle" /\ pc' = "idle" /\ id \in Shown /\ registry[id] # None
      /\ scopes' = [scopes EXCEPT ![id].count = @ + 1]
      /\ UNCHANGED <<order, inside, registry, gens>>
  BY DEF Act
<1>1. /\ SeenOrder = order /\ SeenUsed = gens
      /\ SeenOrder' = order' /\ SeenUsed' = gens'
      /\ SeenInst = Instances(Shown, registry, scopes)
      /\ SeenInst' = Instances(Shown, registry, scopes')
      /\ SeenInside' = SeenInside
  BY <1>0 DEF SeenOrder, SeenInside, SeenUsed, SeenInst, Committed, Shown
<1>2. scopes \in [Ids -> Scopes] /\ scopes[id] # None /\ registry \in [Ids -> Entries]
  BY <1>0 DEF IInv, Paired, RegionTypes
<1>3. scopes[id] \in [param : Values, count : Nat]
      /\ registry[id] \in [gen : Nat, param : Values]
  BY <1>0, <1>2 DEF Scopes, Entries
<1>4. /\ \A i \in Ids : i # id => scopes'[i] = scopes[i]
      /\ scopes'[id].count = scopes[id].count + 1
  <2>1. \A i \in Ids : i # id => scopes'[i] = scopes[i]
    BY <1>0, <1>2
  <2>2. scopes'[id] = [scopes[id] EXCEPT !.count = @ + 1]
    BY <1>0, <1>2
  <2>3. scopes'[id].count = scopes[id].count + 1
    BY <1>3, <2>2
  <2> QED BY <2>1, <2>3
<1> DEFINE a == SeenInst
           b == SeenInst'
<1>5. /\ a[id] = [gen |-> registry[id].gen, count |-> scopes[id].count]
      /\ b[id] = [gen |-> registry[id].gen, count |-> scopes[id].count + 1]
      /\ \A i \in Ids : i # id => b[i] = a[i]
      /\ a = [i \in Ids |-> a[i]] /\ b = [i \in Ids |-> b[i]]
  BY <1>0, <1>1, <1>4 DEF Instances
<1>6. a[id] # None
  <2>1. a[id] \in [gen : Nat, count : Nat]
    BY <1>3, <1>5
  <2> QED BY <2>1, KeyedAssumption
<1>7. b = [a EXCEPT ![id].count = @ + 1]
  <2> HIDE DEF a, b
  <2>1. b[id] = [a[id] EXCEPT !.count = @ + 1]
    BY <1>5
  <2> QED BY <1>5, <2>1
<1> QED BY <1>0, <1>1, <1>6, <1>7 DEF Contract!Act

\* The patch is seen when it is committed.
LEMMA BindSeen == ASSUME IInv, Bind PROVE Contract!Replace
<1>0. /\ pc = "bind" /\ pc' = "destroy"
      /\ UNCHANGED <<board, document, runtime, saved, todo, updates>>
  BY DEF Bind
<1>1. /\ IInv /\ TypeOK /\ Sound /\ Refreshed /\ Paired /\ Distinct(list)
      /\ order = list /\ Edited(<<>>)
  BY <1>0 DEF IInv
<1>2. /\ SeenOrder' = list /\ SeenUsed = saved.gens /\ SeenUsed' = gens
      /\ SeenInside' = [k \in KeysOf(list) |-> inside[k]]
      /\ SeenInst = Instances(IdsShown(saved.order, saved.inside),
                              saved.registry, saved.scopes)
      /\ SeenInst' = Instances(Shown, registry, scopes)
  BY <1>0, <1>1
  DEF SeenOrder, SeenInside, SeenUsed, SeenInst, Committed, Shown
<1>3. /\ Shown = IdsOf(list, open) /\ \A k \in KeysOf(list) : inside[k] = NewRow
      /\ value \in Values /\ open \in BOOLEAN
  BY <1>1, NewRows DEF RegionTypes
<1>4. \A i \in DOMAIN list : SeenInside'[list[i]] = [text |-> value, cell |-> open]
  BY <1>2, <1>3 DEF KeysOf, NewRow
<1>5. ASSUME NEW id \in Ids
      PROVE  CASE id \notin IdsOf(SeenOrder', open) ->
                    SeenInst'[id] = None /\ SeenUsed'[id] = SeenUsed[id]
               [] id \in IdsOf(SeenOrder', open) /\ SeenInst[id] # None ->
                    SeenInst'[id] = SeenInst[id] /\ SeenUsed'[id] = SeenUsed[id]
               [] OTHER -> /\ SeenInst'[id] = [gen |-> SeenUsed'[id], count |-> 0]
                           /\ SeenUsed'[id] > SeenUsed[id]
  <2>0. /\ SeenUsed'[id] = gens[id] /\ SeenUsed[id] = saved.gens[id]
        /\ IdsOf(SeenOrder', open) = IdsOf(list, open)
    BY <1>2
  <2>1. /\ SeenInst[id] = IF /\ id \in IdsShown(saved.order, saved.inside)
                             /\ saved.registry[id] # None
                          THEN [gen |-> saved.registry[id].gen,
                                count |-> saved.scopes[id].count]
                          ELSE None
        /\ SeenInst'[id] = IF id \in Shown /\ registry[id] # None
                           THEN [gen |-> registry[id].gen,
                                 count |-> scopes[id].count]
                           ELSE None
    BY <1>2 DEF Instances
  <2>2. /\ saved.registry[id] # None =>
             /\ registry[id] # None /\ gens[id] = saved.gens[id]
             /\ registry[id].gen = saved.registry[id].gen
             /\ scopes[id].count = saved.scopes[id].count
        /\ saved.registry[id] = None =>
             IF registry[id] = None THEN gens[id] = saved.gens[id]
             ELSE gens[id] = saved.gens[id] + 1 /\ scopes[id].count = 0
    BY <1>1 DEF Refreshed
  <2>3. /\ (saved.registry[id] # None) = (id \in IdsShown(saved.order, saved.inside))
        /\ registry[id] # None => registry[id].gen = gens[id]
        /\ saved.gens[id] \in Nat
    BY <1>0, <1>1 DEF Sound, Consistent, Paired, PatchTypes, Snapshots
  <2>4. id \in Shown => registry[id] # None
    BY <1>0, <1>1, Committing
  <2>5. registry[id] # None => id \in Shown \/ saved.registry[id] # None
    BY <1>0, <1>1, <2>3, Committing
  <2>6. CASE id \notin IdsOf(list, open)
    BY <1>3, <2>0, <2>1, <2>2, <2>5, <2>6
  <2>7. CASE id \in IdsOf(list, open) /\ saved.registry[id] # None
    <3>1. /\ SeenInst[id] = [gen |-> saved.registry[id].gen,
                              count |-> saved.scopes[id].count]
          /\ SeenInst'[id] = [gen |-> registry[id].gen, count |-> scopes[id].count]
      BY <1>3, <2>1, <2>3, <2>4, <2>7
    <3>2. SeenInst'[id] = SeenInst[id] /\ SeenUsed'[id] = SeenUsed[id]
      BY <2>0, <2>2, <2>7, <3>1
    <3>3. saved.registry[id].gen \in Nat /\ saved.scopes[id].count \in Nat
      <4>1. saved.registry \in [Ids -> Entries] /\ saved.scopes \in [Ids -> Scopes]
        BY <1>0, <1>1 DEF PatchTypes, Snapshots
      <4>2. saved.registry[id] # None /\ saved.scopes[id] # None
        BY <1>1, <2>7 DEF Sound, Consistent
      <4>3. /\ saved.registry[id] \in [gen : Nat, param : Values]
            /\ saved.scopes[id] \in [param : Values, count : Nat]
        BY <4>1, <4>2 DEF Entries, Scopes
      <4> QED BY <4>3
    <3>4. SeenInst[id] # None
      BY <3>1, <3>3, KeyedAssumption
    <3> QED BY <2>0, <2>7, <3>2, <3>4
  <2>8. CASE id \in IdsOf(list, open) /\ saved.registry[id] = None
    <3>1. /\ SeenInst[id] = None /\ SeenInst'[id] = [gen |-> gens[id], count |-> 0]
          /\ gens[id] > saved.gens[id]
      BY <1>3, <2>1, <2>2, <2>3, <2>4, <2>8
    <3> QED BY <2>0, <2>8, <3>1
  <2> QED BY <2>6, <2>7, <2>8
<1>6. Distinct(SeenOrder')
  BY <1>1, <1>2
<1>7. \A i \in DOMAIN SeenOrder' :
        SeenInside'[SeenOrder'[i]] = [text |-> value, cell |-> open]
  BY <1>2, <1>4
<1>8. Contract!Distinct(SeenOrder')
  BY <1>6 DEF Contract!Distinct, Distinct
<1> QED BY <1>3, <1>5, <1>7, <1>8, Zenon DEF Contract!Replace

\* Nothing is seen of the other steps.
LEMMA RestSeen ==
  ASSUME Apart, IInv, [Next]_vars, ~Bind, \A id \in Ids : ~Act(id)
  PROVE  UNCHANGED SeenVars
<1> USE DEF SeenVars, SeenOrder, SeenInside, SeenUsed, SeenInst, Committed
<1>1. CASE UNCHANGED vars
  BY <1>1 DEF Shown
<1>2. CASE Update
  BY <1>2 DEF Update, Shown
<1>3. ASSUME pc \notin {"idle", "destroy"}, pc' \notin {"idle", "destroy"},
             UNCHANGED saved
      PROVE  UNCHANGED SeenVars
  BY <1>3
<1>4. CASE Render \/ Plan \/ EditRow \/ Rearrange \/ InsertRows
  BY <1>3, <1>4 DEF Render, Plan, EditRow, Rearrange, InsertRows
<1>5. CASE Fail \/ UndoEdit
  BY <1>3, <1>5 DEF Fail, UndoEdit
<1>6. ASSUME NEW i \in DOMAIN order, RemoveRow(i) PROVE UNCHANGED SeenVars
  BY <1>3, <1>6 DEF RemoveRow
<1>7. CASE Restore
  <2>0. /\ pc = "undo" /\ undo = <<>> /\ pc' = "idle"
        /\ registry' = saved.registry /\ scopes' = saved.scopes
        /\ gens' = saved.gens /\ UNCHANGED document
    BY <1>7 DEF Restore, SavedScopes
  <2>1. /\ order = saved.order
        /\ \A k \in KeysOf(order) : inside[k] = saved.inside[k]
        /\ Shown = IdsShown(saved.order, saved.inside)
    BY <2>0, Undone
  <2>2. SeenOrder' = SeenOrder /\ SeenUsed' = SeenUsed
    BY <2>0, <2>1
  <2>3. SeenInside' = SeenInside
    <3>1. /\ SeenInside = [k \in KeysOf(order) |-> saved.inside[k]]
          /\ SeenInside' = [k \in KeysOf(order) |-> inside[k]]
      BY <2>0, <2>1
    <3> QED BY <2>1, <3>1
  <2>4. SeenInst' = SeenInst
    BY <2>0, <2>1 DEF Shown
  <2> QED BY <2>2, <2>3, <2>4
<1>8. ASSUME NEW id \in Ids, Destroy(id) PROVE UNCHANGED SeenVars
  <2>0. /\ pc = "destroy" /\ pc' = "destroy" /\ id \in gone
        /\ IF registry[id] = None THEN UNCHANGED <<registry, scopes>>
           ELSE UnregisterAll({id} \cup Children(id))
        /\ UNCHANGED <<document, gens>>
    BY <1>8 DEF Destroy
  <2>1. SeenOrder' = SeenOrder /\ SeenUsed' = SeenUsed /\ SeenInside' = SeenInside
    BY <2>0
  <2>2. \A i \in Shown : registry'[i] = registry[i] /\ scopes'[i] = scopes[i]
    BY <2>0, <1>8, DestroyKeepsShown
  <2>3. /\ SeenInst = Instances(Shown, registry, scopes)
        /\ SeenInst' = Instances(Shown, registry', scopes')
    BY <2>0 DEF Shown
  <2>4. SeenInst' = SeenInst
    <3>1. \A i \in Ids : Instances(Shown, registry', scopes')[i]
                          = Instances(Shown, registry, scopes)[i]
      BY <2>2 DEF Instances
    <3> QED BY <2>3, <3>1 DEF Instances
  <2> QED BY <2>1, <2>4
<1>9. CASE Finish
  BY <1>9 DEF Finish, Shown
<1> QED BY <1>1, <1>2, <1>4, <1>5, <1>6, <1>7, <1>8, <1>9 DEF Next

\* A patch replaces the rows in one step or not at all, and a component that
\* stays keeps its generation and its state (KeyedContract), though its edits
\* are made one by one and any of them may throw.
THEOREM Refines == ASSUME Apart PROVE Spec => ImplementsContract
<1>1. Init /\ IInv => Contract!Init
  BY InitSeen
<1>2. IInv /\ [Next]_vars =>
        [Contract!Replace \/ \E id \in Ids : Contract!Act(id)]_(Contract!vars)
  BY ActSeen, BindSeen, RestSeen DEF SeenVars, Contract!vars
<1> QED BY Inductive, <1>1, <1>2, InitIInv, PTL
        DEF Spec, ImplementsContract, Contract!Spec
=============================================================================
