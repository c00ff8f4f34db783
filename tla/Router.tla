------------------------------- MODULE Router -------------------------------
(***************************************************************************)
(* The hash router of the browser runtime: routes, guards and redirects    *)
(* (src/src/browser_runtime_assets.cpp:4418-4422, 5280-5416, 5616-5640 and *)
(* 5728-5834).                                                             *)
(*                                                                         *)
(* Every section of the page is a route.  Whoever changes location.hash is *)
(* answered later, by a hashchange event; applyRoutes then reads the hash  *)
(* of that moment, publishes activeRoute, asks the guards and shows one    *)
(* section.  A guard that refuses may set the hash itself, which is again  *)
(* answered later.                                                         *)
(*                                                                         *)
(* Both applyInitial and applyRoutes refresh the display on their way      *)
(* (applyClientState), which may throw: what follows is then not done.     *)
(***************************************************************************)
EXTENDS Naturals, Sequences

CONSTANTS
  Paths, Patterns,
  Matches,   \* pairs of a pattern and a path it matches
  Malformed, \* pairs whose parameter cannot be decoded: matching throws
  Routes,    \* sequence of patterns, one per section of the page
  Guards,    \* sequence of [path, var, redirect]
  Vars,      \* what guards require
  None,
  MaxMoves   \* bound on what the user does

ASSUME RouterAssumption ==
  /\ Matches \subseteq Patterns \X Paths
  /\ Malformed \subseteq (Patterns \X Paths) \ Matches
  /\ Routes \in Seq(Patterns) /\ Routes # <<>>
  /\ Guards \in Seq([path : Patterns, var : Vars, redirect : Paths \cup {None}])
  /\ None \notin Paths \cup Nat /\ MaxMoves \in Nat

VARIABLES
  local,    \* browserLocalRuntime
  ready,    \* __jtml_router_ready: guards and routes are registered
  hash,     \* the path in location.hash
  events,   \* hashchange events not handled
  state,    \* clientState of the guards' variables
  active,   \* clientState.activeRoute and the pattern of activeRouteName
  shown,    \* sections not hidden
  current,  \* __jtml_current_route: path and section, 0 for none
  thrown,   \* history: what was cut short by applyClientState, "boot" or
            \* "render", and has not been done since
  moves

vars == <<local, ready, hash, events, state, active, shown, current, thrown,
          moves>>

Sections == 1..Len(Routes)
Match(pattern)  == <<pattern, hash>> \in Matches
Throws(pattern) == <<pattern, hash>> \in Malformed

Init ==
  /\ local \in BOOLEAN
  /\ ready = FALSE
  /\ hash \in Paths /\ events = 0
  /\ state \in [Vars -> BOOLEAN]
  /\ active = <<None, None>>
  /\ shown = Sections
  /\ current = None
  /\ thrown = {}
  /\ moves = 0

\* MUTANT: the history entry is replaced, which no event reports.
SetHashQuietly(path, left) == hash' = path /\ events' = left

\* MUTANT: a redirect to where the page is already is reported, too.
SetHashAlways(path, left) == hash' = path /\ events' = left + 1

\* An assignment to location.hash, `left` events being unhandled: none is
\* added when nothing changes.
SetHash(path, left) ==
  /\ hash' = path
  /\ events' = IF path = hash THEN left ELSE left + 1

---------------------------------------------------------------------------
(* applyRoutes, after its caller has set state' and ready', with `left`     *)
(* events still unhandled.                                                 *)

\* MUTANT: a guard is for the path it names, parameters or not.
StopsExactly(guard) == ready' /\ guard.path = hash /\ ~state'[guard.var]

\* Whether a guard stops this path; those of an unready page are not known.
Stops(guard) ==
  ready' /\ \/ Throws(guard.path)
            \/ Match(guard.path) /\ ~state'[guard.var]

\* checkGuards: the first one that stops decides; nothing else is touched.
Refuse(left) ==
  /\ \E i \in DOMAIN Guards :
       /\ Stops(Guards[i]) /\ \A j \in 1..(i - 1) : ~Stops(Guards[j])
       /\ IF Guards[i].redirect = None \/ Throws(Guards[i].path)
          THEN hash' = hash /\ events' = left
          ELSE SetHash(Guards[i].redirect, left)
  /\ active' = <<hash, active[2]>>
  /\ thrown' = thrown \ {"boot"}
  /\ UNCHANGED <<shown, current>>

\* Sections before the first whose pattern matches, or throws.
Passed(sections) ==
  \A i \in sections : ~Match(Routes[i]) /\ ~Throws(Routes[i])

\* MUTANT: the section that was visible stays so.
ShowToo(i) == shown' = shown \cup {i}

ShowOnly(i) == shown' = {i}

ShowMatch(i) ==
  /\ Passed(1..(i - 1)) /\ Match(Routes[i])
  /\ ShowOnly(i)
  /\ active' = <<hash, Routes[i]>>
  /\ current' = <<hash, i>>
  /\ thrown' = {}

\* The loads and applyClientState come as soon as the match is visible.  When
\* they throw, the sections after it stay as they were, and the current route
\* is not set.
RenderThrows(i) ==
  /\ Passed(1..(i - 1)) /\ Match(Routes[i])
  /\ shown' = {i} \cup (shown \ 1..i)
  /\ active' = <<hash, Routes[i]>>
  /\ thrown' = {"render"}
  /\ UNCHANGED current

\* The sections before it are hidden by then.
MatchThrows(i) ==
  /\ Passed(1..(i - 1)) /\ Throws(Routes[i])
  /\ shown' = shown \ 1..(i - 1)
  /\ active' = <<hash, active[2]>>
  /\ thrown' = thrown \ {"boot"}
  /\ UNCHANGED current

ShowFirst ==
  /\ Passed(Sections)
  /\ ShowOnly(1)
  /\ active' = <<hash, None>>
  /\ current' = <<hash, 0>>
  /\ thrown' = {}

ApplyRoutes(left) ==
  \/ Refuse(left)
  \/ /\ \A i \in DOMAIN Guards : ~Stops(Guards[i])
     /\ hash' = hash /\ events' = left
     /\ \/ \E i \in Sections : ShowMatch(i) \/ RenderThrows(i) \/ MatchThrows(i)
        \/ ShowFirst

---------------------------------------------------------------------------
(* What the browser and the page do. *)

\* applyInitial.
Boot ==
  /\ ~ready /\ ready' = TRUE
  /\ UNCHANGED <<local, state, moves>>
  /\ ApplyRoutes(events)

\* Its own applyClientState throws, before any route is applied.
BootThrows ==
  /\ ~ready /\ ready' = TRUE
  /\ thrown' = thrown \cup {"boot"}
  /\ UNCHANGED <<local, hash, events, state, active, shown, current, moves>>

\* The listener is there from the start.
HashChange ==
  /\ events > 0
  /\ UNCHANGED <<local, ready, state, moves>>
  /\ ApplyRoutes(events - 1)

\* The address bar, back and forward.
Move(path) ==
  /\ moves < MaxMoves /\ moves' = moves + 1
  /\ path # hash
  /\ SetHash(path, events)
  /\ UNCHANGED <<local, ready, state, active, shown, current, thrown>>

\* A click on a link, or window.jtml.navigate: routes are applied at once when
\* the hash is there already.
Follow(path) ==
  /\ ready
  /\ moves < MaxMoves /\ moves' = moves + 1
  /\ UNCHANGED <<local, ready, state>>
  /\ IF path = hash THEN ApplyRoutes(events)
     ELSE /\ SetHash(path, events)
          /\ UNCHANGED <<active, shown, current, thrown>>

\* An action of a browser-local page: executeClientAction writes the state and
\* then requests its redirect, if it has one and the display is refreshed
\* without an exception.
Act(var, value, redirect) ==
  /\ local /\ ready
  /\ moves < MaxMoves /\ moves' = moves + 1
  /\ state' = [state EXCEPT ![var] = value]
  /\ IF redirect = None THEN UNCHANGED <<hash, events>>
     ELSE SetHash(redirect, events)
  /\ UNCHANGED <<local, ready, active, shown, current, thrown>>

\* State from the server: applyBindings routes again.
Bindings(var, value) ==
  /\ ~local /\ ready
  /\ moves < MaxMoves /\ moves' = moves + 1
  /\ state' = [state EXCEPT ![var] = value]
  /\ UNCHANGED <<local, ready>>
  /\ ApplyRoutes(events)

Next ==
  \/ Boot \/ BootThrows \/ HashChange
  \/ \E path \in Paths : Move(path) \/ Follow(path)
  \/ \E var \in Vars, value \in BOOLEAN :
       \/ Bindings(var, value)
       \/ \E redirect \in Paths \cup {None} : Act(var, value, redirect)

Spec == Init /\ [][Next]_vars

\* The browser finishes loading and delivers its events.
FairSpec == Spec /\ WF_vars(Boot \/ BootThrows) /\ WF_vars(HashChange)

---------------------------------------------------------------------------
(* Properties. *)

TypeOK ==
  /\ local \in BOOLEAN /\ ready \in BOOLEAN
  /\ hash \in Paths /\ events \in Nat
  /\ state \in [Vars -> BOOLEAN]
  /\ active \in (Paths \cup {None}) \X (Patterns \cup {None})
  /\ shown \subseteq Sections
  /\ current \in {None} \cup (Paths \X (Sections \cup {0}))
  /\ thrown \subseteq {"boot", "render"}
  /\ moves \in 0..MaxMoves

\* Once a route has been applied, no section but the current route's (or the
\* first one, for a path that matches none) is visible, however guards,
\* redirects, state and malformed paths follow each other.  The exception is a
\* page whose applyClientState has thrown after a match was made visible, until
\* routes are next applied to the end.
OneRouteVisible ==
  current # None /\ "render" \notin thrown
    => shown \subseteq {IF current[2] = 0 THEN 1 ELSE current[2]}

\* docs/reference/language-reference.md:294: activeRoute always holds the
\* current path, as soon as the browser has said all it has to say; on a page
\* whose applyInitial has thrown, as soon as routes are first applied.
ActiveIsHash ==
  ready /\ events = 0 /\ "boot" \notin thrown => active[1] = hash

\* On a page that is ready a section guarded by a variable does not appear
\* while the variable is false, unless it is the first one, which is also
\* shown for want of any other.
GuardOk(section) ==
  \A i \in DOMAIN Guards :
    Guards[i].path = Routes[section] => state'[Guards[i].var]
GuardsBlock ==
  [][ready => \A i \in shown' \ shown : i # 1 => GuardOk(i)]_vars

\* When redirects do not go round in circles, the page comes to rest: every
\* chain of refusals ends.
RouteSettles == []<>(ready /\ events = 0)
=============================================================================
