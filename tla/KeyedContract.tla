---------------------------- MODULE KeyedContract ----------------------------
(***************************************************************************)
(* What a keyed `for` region promises (docs/spec/reactive-core-v1.md, R10, *)
(* and docs/architecture/taskboard-core-c01-c03.md): an update replaces    *)
(* the rows in one step or not at all.  A component that stays keeps its   *)
(* generation and its state, one that goes is forgotten, and one that      *)
(* comes, even under a name used before, is a fresh generation with fresh  *)
(* state.                                                                  *)
(***************************************************************************)
EXTENDS Naturals, Sequences

CONSTANTS
  Keys, Ids, Values,
  IdsOf(_, _),   \* the components of some rows, with or without their cells
  None

VARIABLES
  order,  \* keys of the rows shown
  inside, \* what each of these rows shows
  inst,   \* [Ids -> generation and state of the component shown, or None]
  used    \* [Ids -> last generation that was shown]

vars == <<order, inside, inst, used>>

Distinct(s) == \A i, j \in DOMAIN s : s[i] = s[j] => i = j

Init ==
  /\ Distinct(order)
  /\ \A id \in Ids : inst[id] # None => inst[id] = [gen |-> 1, count |-> 0]
  /\ \A id \in Ids : used[id] = IF inst[id] = None THEN 0 ELSE 1

Replace ==
  /\ Distinct(order')
  /\ \E value \in Values, open \in BOOLEAN :
       /\ \A i \in DOMAIN order' :
            inside'[order'[i]] = [text |-> value, cell |-> open]
       /\ \A id \in Ids :
            CASE id \notin IdsOf(order', open) ->
                   inst'[id] = None /\ used'[id] = used[id]
              [] id \in IdsOf(order', open) /\ inst[id] # None ->
                   inst'[id] = inst[id] /\ used'[id] = used[id]
              [] OTHER ->
                   /\ inst'[id] = [gen |-> used'[id], count |-> 0]
                   /\ used'[id] > used[id]

Act(id) ==
  /\ inst[id] # None
  /\ inst' = [inst EXCEPT ![id].count = @ + 1]
  /\ UNCHANGED <<order, inside, used>>

Spec == Init /\ [][Replace \/ \E id \in Ids : Act(id)]_vars
=============================================================================
