----------------------------- MODULE KeyedRegion -----------------------------
(***************************************************************************)
(* A keyed `for` region of a browser component and the registry of its     *)
(* component instances (src/src/browser_runtime_assets.cpp:504-673 and     *)
(* 1600-1925).                                                             *)
(*                                                                         *)
(* A board shows one row component per key and, while it is open, a cell   *)
(* component inside every row.  An action of the board writes its state    *)
(* and the region is patched: the rows are rendered into a candidate,      *)
(* which registers components and refreshes scopes; the edits are planned; *)
(* they are committed one by one with an inverse of each; and only then    *)
(* are the components left out destroyed.  An exception rolls back.  The   *)
(* patch runs without giving way; its steps are apart here because each    *)
(* may throw.                                                              *)
(*                                                                         *)
(* An instance's id is its parent's, its place and its key.  Two ids matter *)
(* to each other only when one begins with the other and `__`: Extends.    *)
(***************************************************************************)
EXTENDS Naturals, Sequences, FiniteSets, SequencesExt

CONSTANTS
  Keys,        \* keys of rows, as they appear in ids
  Extends,     \* [Keys -> SUBSET Keys]: keys that begin with it and `__`
  Values,      \* what the board passes to its rows
  Lists,       \* sequences of keys the board may hold
  None,
  MaxUpdates, MaxCount  \* bounds

Ids == {"row", "cell"} \X Keys
Row(k)  == <<"row", k>>
Cell(k) == <<"cell", k>>

ASSUME KeyedAssumption ==
  /\ Extends \in [Keys -> SUBSET Keys]
  /\ Lists \subseteq Seq(Keys)
  /\ None \notin [gen : Nat, param : Values] \cup [param : Values, count : Nat]
                   \cup [gen : Nat, count : Nat]
  /\ MaxUpdates \in Nat /\ MaxCount \in Nat

VARIABLES
  list, open, value, \* the board's state
  order, inside,     \* the document: rows in order, what each contains
  registry,          \* dynamicComponentInstances: generation and parameters
  scopes,            \* componentScopes: parameter and local state
  gens,              \* dynamicComponentInstanceGenerations
  listKeys,          \* instance.directListKeys of the region
  pc,
  saved,             \* the snapshot of a patch
  undo,              \* inverses of the edits made, latest last
  todo,              \* rows that are left of this step
  gone,              \* components to destroy
  updates

board    == <<list, open, value>>
document == <<order, inside>>
runtime  == <<registry, scopes, gens, listKeys>>
vars == <<board, document, runtime, pc, saved, undo, todo, gone, updates>>

KeysOf(rows) == {rows[i] : i \in DOMAIN rows}
IdsOf(rows, cells) ==
  {Row(k) : k \in KeysOf(rows)} \cup
    (IF cells THEN {Cell(k) : k \in KeysOf(rows)} ELSE {})

Distinct(rows) == \A i, j \in DOMAIN rows : rows[i] = rows[j] => i = j

\* keyedComponentIds of the region.
IdsShown(rows, content) ==
  {Row(k) : k \in KeysOf(rows)} \cup
    {Cell(k) : k \in {j \in KeysOf(rows) : content[j].cell}}
Shown == IdsShown(order, inside)

Registered == {id \in Ids : registry[id] # None}

Fresh(g) == [gen |-> g, param |-> value]

Init ==
  /\ list \in {l \in Lists : Distinct(l)} /\ open \in BOOLEAN
  /\ value \in Values
  /\ order = list
  /\ inside = [k \in Keys |-> [text |-> value, cell |-> open]]
  /\ gens = [id \in Ids |-> IF id \in IdsOf(list, open) THEN 1 ELSE 0]
  /\ registry = [id \in Ids |->
                  IF id \in IdsOf(list, open) THEN Fresh(1) ELSE None]
  /\ scopes = [id \in Ids |-> IF id \in IdsOf(list, open)
                              THEN [param |-> value, count |-> 0] ELSE None]
  /\ listKeys = list
  /\ pc = "idle" /\ saved = <<>> /\ undo = <<>> /\ todo = <<>>
  /\ gone = {} /\ updates = 0

---------------------------------------------------------------------------
(* The registry. *)

\* registerDynamicComponentInstance, then componentScopeFor.
RegisterAll(ids) ==
  /\ gens' = [id \in Ids |-> IF id \in ids /\ registry[id] = None
                             THEN gens[id] + 1 ELSE gens[id]]
  /\ registry' = [id \in Ids |-> IF id \in ids THEN Fresh(IF registry[id] = None
                                                          THEN gens[id] + 1
                                                          ELSE registry[id].gen)
                                 ELSE registry[id]]
  /\ scopes' = [id \in Ids |->
                 IF id \notin ids THEN scopes[id]
                 ELSE [param |-> value,
                       count |-> IF scopes[id] = None THEN 0
                                 ELSE scopes[id].count]]

\* MUTANT: the scope is left for the next component of this name.
UnregisterEntries(ids) ==
  /\ registry' = [id \in Ids |-> IF id \in ids THEN None ELSE registry[id]]
  /\ UNCHANGED scopes

\* unregisterComponentInstance.
UnregisterAll(ids) ==
  /\ registry' = [id \in Ids |-> IF id \in ids THEN None ELSE registry[id]]
  /\ scopes' = [id \in Ids |-> IF id \in ids THEN None ELSE scopes[id]]

\* destroyDirectComponentChildren: those whose id begins with this one's and
\* `__`, or whose parent it is.
Children(id) ==
  IF id[1] = "cell" THEN {}
  ELSE {Cell(id[2])} \cup {Row(k) : k \in Extends[id[2]]}
                     \cup {Cell(k) : k \in Extends[id[2]]}

---------------------------------------------------------------------------
(* Actions of the page. *)

\* runDirectComponentAction of a component in the document.
Act(id) ==
  /\ pc = "idle" /\ id \in Shown
  /\ registry[id] # None
  /\ scopes[id].count < MaxCount
  /\ scopes' = [scopes EXCEPT ![id].count = @ + 1]
  /\ UNCHANGED <<board, document, registry, gens, listKeys, pc, saved, undo,
                 todo, gone, updates>>

\* An action of the board writes its state; what it wrote stays whatever
\* happens to the patch, which begins with the snapshot and the keys.
Update ==
  /\ pc = "idle" /\ updates < MaxUpdates
  /\ list' \in Lists /\ open' \in BOOLEAN /\ value' \in Values
  /\ updates' = updates + 1
  /\ saved' = [registry |-> registry, scopes |-> scopes, gens |-> gens,
               listKeys |-> listKeys, order |-> order, inside |-> inside]
  /\ listKeys' = list'
  /\ todo' = list'
  /\ pc' = "render"
  /\ UNCHANGED <<document, registry, scopes, gens, undo, gone>>

---------------------------------------------------------------------------
(* The patch: patchComponentForRegion. *)

\* The candidate of one row: its component, and its cell inside.
Render ==
  /\ pc = "render" /\ todo # <<>>
  /\ RegisterAll(IdsOf(<<Head(todo)>>, open))
  /\ todo' = Tail(todo)
  /\ UNCHANGED <<board, document, listKeys, pc, saved, undo, gone, updates>>

\* Ambiguous keys are refused.
Plan ==
  /\ pc = "render" /\ todo = <<>>
  /\ Distinct(list) /\ Distinct(order)
  /\ todo' = list
  /\ pc' = "edit"
  /\ UNCHANGED <<board, document, runtime, saved, undo, gone, updates>>

\* MUTANT: the inverse is recorded after its edit.
InverseLate(k) == [of |-> "row", key |-> k, was |-> [text |-> value, cell |-> open]]

\* The inverse of a row's edit, recorded before it.
InverseOf(k) == [of |-> "row", key |-> k, was |-> inside[k]]

\* A row that stays: its text, and its cell put in or taken out.
EditRow ==
  /\ pc = "edit" /\ todo # <<>>
  /\ LET k == Head(todo) IN
       IF k \in KeysOf(order)
       THEN /\ undo' = Append(undo, InverseOf(k))
            /\ inside' = [inside EXCEPT ![k] = [text |-> value, cell |-> open]]
       ELSE UNCHANGED <<undo, inside>>
  /\ todo' = Tail(todo)
  /\ UNCHANGED <<board, order, runtime, pc, saved, gone, updates>>

\* The last edit is of the rows themselves: commitKeyedChildren takes out
\* those that go ...
Rearrange ==
  /\ pc = "edit" /\ todo = <<>>
  /\ undo' = Append(undo, [of |-> "order", was |-> order])
  /\ pc' = "rearrange"
  /\ UNCHANGED <<board, document, runtime, saved, todo, gone, updates>>

RemoveRow(i) ==
  /\ pc = "rearrange" /\ order[i] \notin KeysOf(list)
  /\ order' = RemoveAt(order, i)
  /\ UNCHANGED <<board, inside, runtime, pc, saved, undo, todo, gone, updates>>

\* ... and puts the others in order.
InsertRows ==
  /\ pc = "rearrange" /\ KeysOf(order) \subseteq KeysOf(list)
  /\ order' = list
  /\ inside' = [k \in Keys |-> IF k \in KeysOf(list) \ KeysOf(order)
                               THEN [text |-> value, cell |-> open]
                               ELSE inside[k]]
  /\ pc' = "bind"
  /\ UNCHANGED <<board, runtime, saved, undo, todo, gone, updates>>

\* bindComponentElements is the last thing that may throw.  Components that
\* were shown and no longer are will be destroyed.
Bind ==
  /\ pc = "bind"
  /\ \A id \in Shown : registry[id] # None
  /\ gone' = IdsShown(saved.order, saved.inside) \ Shown
  /\ undo' = <<>>
  /\ pc' = "destroy"
  /\ UNCHANGED <<board, document, runtime, saved, todo, updates>>

\* Any of the steps above throws (ambiguous keys do): the edits are undone,
\* the latest first ...
Patching == {"render", "edit", "rearrange", "bind"}

Fail ==
  /\ pc \in Patching
  /\ pc' = "undo" /\ todo' = <<>>
  /\ UNCHANGED <<board, document, runtime, saved, undo, gone, updates>>

UndoEdit ==
  /\ pc = "undo" /\ undo # <<>>
  /\ LET edit == Last(undo) IN
       \/ /\ edit.of = "row"
          /\ inside' = [inside EXCEPT ![edit.key] = edit.was]
          /\ UNCHANGED order
       \/ /\ edit.of = "order"
          /\ order' = edit.was
          /\ UNCHANGED inside
  /\ undo' = Front(undo)
  /\ UNCHANGED <<board, runtime, pc, saved, todo, gone, updates>>

\* MUTANT: the snapshot holds the scopes themselves.
SharedScopes ==
  [id \in Ids |-> IF saved.scopes[id] = None THEN None ELSE scopes[id]]

\* The copies of the snapshot.
SavedScopes == saved.scopes

\* ... and the registry, scopes, generations and keys become the snapshot's.
Restore ==
  /\ pc = "undo" /\ undo = <<>>
  /\ registry' = saved.registry
  /\ scopes' = SavedScopes
  /\ gens' = saved.gens
  /\ listKeys' = saved.listKeys
  /\ saved' = <<>>
  /\ pc' = "idle"
  /\ UNCHANGED <<board, document, undo, todo, gone, updates>>

\* destroyRuntimeComponentInstance of what was left out, longest id first; a
\* component that is gone with its parent already is skipped.
Destroy(id) ==
  /\ pc = "destroy" /\ id \in gone
  /\ \A other \in gone : other[1] = "cell" => id[1] = "cell"
  /\ IF registry[id] = None THEN UNCHANGED <<registry, scopes>>
     ELSE UnregisterAll({id} \cup Children(id))
  /\ gone' = gone \ {id}
  /\ UNCHANGED <<board, document, gens, listKeys, pc, saved, undo, todo,
                 updates>>

Finish ==
  /\ pc = "destroy" /\ gone = {}
  /\ pc' = "idle" /\ saved' = <<>>
  /\ UNCHANGED <<board, document, runtime, undo, todo, gone, updates>>

Next ==
  \/ \E id \in Ids : Act(id) \/ Destroy(id)
  \/ \E i \in DOMAIN order : RemoveRow(i)
  \/ Update \/ Render \/ Plan \/ EditRow \/ Rearrange \/ InsertRows
  \/ Bind \/ Fail \/ UndoEdit \/ Restore \/ Finish

Spec == Init /\ [][Next]_vars

---------------------------------------------------------------------------
(* Properties. *)

Rows == [text : Values, cell : BOOLEAN]
Entries == [gen : Nat, param : Values] \cup {None}
Scopes == [param : Values, count : Nat] \cup {None}
Snapshots == [registry : [Ids -> Entries], scopes : [Ids -> Scopes],
              gens : [Ids -> Nat], listKeys : Seq(Keys), order : Seq(Keys),
              inside : [Keys -> Rows]]
Edits == [of : {"row"}, key : Keys, was : Rows]
           \cup [of : {"order"}, was : Seq(Keys)]

RegionTypes ==
  /\ list \in Lists /\ open \in BOOLEAN /\ value \in Values
  /\ order \in Seq(Keys) /\ inside \in [Keys -> Rows]
  /\ registry \in [Ids -> Entries] /\ scopes \in [Ids -> Scopes]
  /\ gens \in [Ids -> Nat]
  /\ listKeys \in Seq(Keys)
  /\ updates \in 0..MaxUpdates

PatchTypes ==
  /\ pc \in Patching \cup {"idle", "undo", "destroy"}
  /\ pc # "idle" => saved \in Snapshots
  /\ undo \in Seq(Edits) /\ todo \in Seq(Keys) /\ gone \subseteq Ids

TypeOK == RegionTypes /\ PatchTypes

\* Between patches, whether the last one was done or rolled back, exactly the
\* components in the document are registered and have a scope, each with the
\* parameter its row shows, and the keys remembered are those of the rows
\* (tests/browser/keyed_lifecycle.cjs: every live component is registered,
\* every registered component is live).
RegistryMatchesDocument ==
  pc = "idle" =>
    /\ Registered = Shown
    /\ {id \in Ids : scopes[id] # None} = Shown
    /\ \A id \in Shown : scopes[id].param = inside[id[2]].text
    /\ listKeys = order

\* While a patch runs its caller still sees the document before it.
Committed == pc \in {"idle", "destroy"}
SeenOrder == IF Committed THEN order ELSE saved.order
SeenInside ==
  [k \in KeysOf(SeenOrder) |-> IF Committed THEN inside[k] ELSE saved.inside[k]]
SeenUsed == IF Committed THEN gens ELSE saved.gens
Instances(ids, entries, states) ==
  [id \in Ids |-> IF id \in ids /\ entries[id] # None
                  THEN [gen |-> entries[id].gen, count |-> states[id].count]
                  ELSE None]
SeenInst == IF Committed THEN Instances(Shown, registry, scopes)
            ELSE Instances(IdsShown(saved.order, saved.inside),
                           saved.registry, saved.scopes)

Contract == INSTANCE KeyedContract WITH
  order <- SeenOrder, inside <- SeenInside, inst <- SeenInst, used <- SeenUsed

\* A patch replaces the rows in one step or not at all; what stays keeps its
\* generation and its state.
ImplementsContract == Contract!Spec

---------------------------------------------------------------------------
(* Why: the inductive invariant, for keys that keep their distance. *)

NewRow == [text |-> value, cell |-> open]

\* What RegistryMatchesDocument says, of a document and a registry.
Consistent(rows, content, entries, states, keys) ==
  /\ Distinct(rows) /\ keys = rows
  /\ \A id \in Ids : /\ (entries[id] # None) = (id \in IdsShown(rows, content))
                     /\ (states[id] # None) = (id \in IdsShown(rows, content))
  /\ \A id \in IdsShown(rows, content) :
       states[id].param = content[id[2]].text

\* The snapshot of a patch is one of a region at rest.
Sound ==
  /\ Consistent(saved.order, saved.inside, saved.registry, saved.scopes,
                saved.listKeys)
  /\ \A id \in Ids : saved.registry[id] # None =>
                       saved.registry[id].gen = saved.gens[id]

\* Entries and scopes come and go together.
Paired == \A id \in Ids :
  /\ (registry[id] = None) = (scopes[id] = None)
  /\ registry[id] # None => registry[id].gen = gens[id]

\* Rendering has refreshed what was registered and added what was not.
Refreshed == \A id \in Ids :
  /\ saved.registry[id] # None =>
       /\ registry[id] # None /\ gens[id] = saved.gens[id]
       /\ registry[id].gen = saved.registry[id].gen
       /\ scopes[id].count = saved.scopes[id].count
  /\ saved.registry[id] = None =>
       IF registry[id] = None THEN gens[id] = saved.gens[id]
       ELSE gens[id] = saved.gens[id] + 1 /\ scopes[id].count = 0

\* How far rendering has come.
Rendered(rows) == \A id \in Ids :
  /\ id \in IdsOf(list, open) \ IdsOf(rows, open) =>
       registry[id] # None /\ scopes[id].param = value
  /\ registry[id] # None =>
       saved.registry[id] # None \/ id \in IdsOf(list, open)

\* Undoing what has been recorded gives back the document of the snapshot.
Undoable ==
  /\ \A j \in DOMAIN undo :
       undo[j].was = IF undo[j].of = "row" THEN saved.inside[undo[j].key]
                     ELSE saved.order
  /\ order = saved.order \/ \E j \in DOMAIN undo : undo[j].of = "order"
  /\ \A k \in KeysOf(saved.order) :
       \/ inside[k] = saved.inside[k]
       \/ \E j \in DOMAIN undo : undo[j].of = "row" /\ undo[j].key = k

Edited(rows) ==
  \A k \in (KeysOf(order) \cap KeysOf(list)) \ KeysOf(rows) : inside[k] = NewRow

Renders ==
  /\ undo = <<>> /\ order = saved.order /\ inside = saved.inside
  /\ KeysOf(todo) \subseteq KeysOf(list)
  /\ Rendered(todo)

Editing ==
  /\ order = saved.order
  /\ Distinct(todo) /\ KeysOf(todo) \subseteq KeysOf(list)
  /\ \A j \in DOMAIN undo : undo[j].of = "row" /\ undo[j].key \notin KeysOf(todo)
  /\ Edited(todo)

Rearranges ==
  /\ KeysOf(order) \subseteq KeysOf(saved.order)
  /\ KeysOf(saved.order) \cap KeysOf(list) \subseteq KeysOf(order)
  /\ \E j \in DOMAIN undo : undo[j].of = "order"
  /\ Edited(<<>>)

\* What is left when components are destroyed.
Destroys ==
  /\ order = list /\ Distinct(list) /\ listKeys = list /\ Edited(<<>>)
  /\ undo = <<>>
  /\ gone \cap Shown = {}
  /\ Registered \subseteq Shown \cup gone
  /\ \A id \in Shown : registry[id] # None /\ scopes[id].param = value

IInv ==
  /\ TypeOK /\ Paired
  /\ pc = "idle" => Consistent(order, inside, registry, scopes, listKeys)
                    /\ undo = <<>>
  /\ pc \in Patching \cup {"undo"} => Sound /\ Undoable
  /\ pc \in Patching => listKeys = list /\ Refreshed
  /\ pc \in Patching \ {"render"} => Distinct(list) /\ Rendered(<<>>)
  /\ pc = "render" => Renders
  /\ pc = "edit" => Editing
  /\ pc = "rearrange" => Rearranges
  /\ pc = "bind" => order = list /\ Edited(<<>>)
  /\ pc = "destroy" => Destroys
=============================================================================
