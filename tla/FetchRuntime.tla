---------------------------- MODULE FetchRuntime ----------------------------
(***************************************************************************)
(* Fetch bindings of the browser runtime: executeFetch with its dedupe,    *)
(* stale policy, timeout and retries; route loads, refresh actions, timed  *)
(* revalidation, and the invalidations that follow an event                *)
(* (src/src/browser_runtime_assets.cpp).                                   *)
(*                                                                         *)
(* The page is one JavaScript thread: what runs between two awaits is one  *)
(* atomic step, and any request in flight may be the next to continue.     *)
(* A target stands for the URL and the cache key a binding resolves to; a  *)
(* payload is the target it was read from and the version of the backend's *)
(* data it shows.  Status codes, attempt counts and the update time of a   *)
(* binding are left out.                                                   *)
(*                                                                         *)
(* Histories, not in the code: since, lastOk, overlapped, completed, at.   *)
(***************************************************************************)
EXTENDS Integers, Sequences, FiniteSets

CONSTANTS
  Names,        \* fetch bindings
  Eager,        \* those not declared lazy
  Keep,         \* those with `stale keep`
  Dedupe,       \* those with `dedupe`
  Timed,        \* those with a timeout
  Forced,       \* those with a refresh action or a revalidation interval
  RouteLoads,   \* those the route loads
  ByRoute,      \* those whose URL holds the route parameter
  Params,       \* values of the route parameter
  Home,         \* its first value, and the target of all other bindings
  Retries,      \* retryCount
  Events,       \* events the page may have under way at a time
  Invalidates,  \* names an event invalidates, in the order of the Set
  NoData, Free, NoWait,
  MaxFlight,    \* bound: requests of one binding in flight
  MaxVersion    \* bound: changes of the backend's data

ASSUME BindingsAssumption ==
  /\ Eager \subseteq Names /\ Keep \subseteq Names /\ Dedupe \subseteq Names
  /\ Timed \subseteq Names /\ RouteLoads \subseteq Names
  /\ ByRoute \subseteq Names /\ Forced \subseteq Names
  /\ Home \in Params
  /\ Invalidates \in Seq(Names)

ASSUME NumbersAssumption ==
  Retries \in Nat /\ MaxFlight \in Nat \ {0} /\ MaxVersion \in Nat

Versions == 0..MaxVersion
Payload == [target : Params, version : Versions]

VARIABLES
  param,       \* the route parameter in clientState
  state,       \* clientState[name] of every binding
  flight,      \* the requests of every binding, by slot
  version,     \* the backend's data
  event,       \* the sendEvent calls under way
  lastOk,      \* the payload that arrived last, per binding
  overlapped,  \* whether a binding ever had two requests at a time
  completed    \* latest version at the start of a completed request

histVars == <<lastOk, overlapped, completed>>
vars == <<param, state, flight, version, event, histVars>>

Slots == 1..MaxFlight

Binding == [loading : BOOLEAN, data : Payload \cup {NoData},
            error : {"", "timeout", "failed"}, stale : BOOLEAN,
            hasData : BOOLEAN, ok : BOOLEAN, target : Params \cup {NoData}]

\* One executeFetch call: what it captured before its first await.
Request == [target : Params, data : Payload \cup {NoData}, hasData : BOOLEAN,
            attempt : 0..Retries, step : {"headers", "body"},
            since : Versions]

ASSUME SentinelsAssumption ==
  NoData \notin Payload \cup Params /\ Free \notin Request
  /\ NoWait \notin Names \X Slots

\* One sendEvent call: what it still has to invalidate, and whose answer it
\* awaits.
Event == [step : {"idle", "posted", "ran", "refreshing", "done"},
          todo : 0..Len(Invalidates),
          waits : (Names \X Slots) \cup {NoWait}, at : Versions]

-----------------------------------------------------------------------------
(* executeFetch up to its first await.  p is the route parameter.          *)

Target(n, p) == IF n \in ByRoute THEN p ELSE Home

\* An unforced run of a binding that looks loaded does nothing.
DedupeSkips(n, p) ==
  n \in Dedupe /\ state[n].hasData /\ state[n].target = Target(n, p)

\* What a binding goes on showing until, or unless, an answer succeeds.
KeptData(n, data) == IF n \in Keep THEN data ELSE NoData
KeptFlag(n, hasData) == n \in Keep /\ hasData

Loading(n, p) ==
  [loading |-> TRUE, data |-> KeptData(n, state[n].data), error |-> "",
   stale |-> KeptFlag(n, state[n].hasData),
   hasData |-> KeptFlag(n, state[n].hasData),
   ok |-> FALSE, target |-> Target(n, p)]

NewRequest(n, p) ==
  [target |-> Target(n, p), data |-> state[n].data,
   hasData |-> state[n].hasData,
   attempt |-> 0, step |-> "headers", since |-> version]

FreeSlots(n) == {i \in Slots : flight[n][i] = Free}
InFlight(n) == FreeSlots(n) # Slots
SlotFor(n) == CHOOSE i \in FreeSlots(n) : TRUE

\* The bindings in ns start a request each, in one task of the page.
Start(ns, p) ==
  /\ \A n \in ns : FreeSlots(n) # {}
  /\ state' = [n \in Names |-> IF n \in ns THEN Loading(n, p) ELSE state[n]]
  /\ flight' = [n \in Names |->
       IF n \in ns THEN [flight[n] EXCEPT ![SlotFor(n)] = NewRequest(n, p)]
                   ELSE flight[n]]
  /\ overlapped' =
       [n \in Names |-> overlapped[n] \/ (n \in ns /\ InFlight(n))]

-----------------------------------------------------------------------------
(* What starts requests.                                                   *)

\* No invalidation is ready to go on: its continuation is a microtask, and
\* runs before the page takes the next click, tick or route change.
PageFree ==
  \A e \in Events : event[e].step = "refreshing" => event[e].waits # NoWait

\* The initial run of the bindings that are not lazy.
Init ==
  /\ param = Home
  /\ version = 0
  /\ state = [n \in Names |->
       [loading |-> n \in Eager, data |-> NoData, error |-> "",
        stale |-> FALSE, hasData |-> FALSE, ok |-> FALSE,
        target |-> IF n \in Eager THEN Home ELSE NoData]]
  /\ flight = [n \in Names |-> [i \in Slots |->
       IF n \in Eager /\ i = 1
       THEN [target |-> Home, data |-> NoData, hasData |-> FALSE,
             attempt |-> 0, step |-> "headers", since |-> 0]
       ELSE Free]]
  /\ event = [e \in Events |->
       [step |-> "idle", todo |-> 0, waits |-> NoWait, at |-> 0]]
  /\ lastOk = [n \in Names |-> NoData]
  /\ overlapped = [n \in Names |-> FALSE]
  /\ completed = [n \in Names |-> 0]

\* A refresh action, or a tick of the revalidation interval.
Refresh(n) ==
  /\ PageFree
  /\ n \in Forced
  /\ Start({n}, param)
  /\ UNCHANGED <<param, version, event, lastOk, completed>>

\* A route change: the parameter is set and the route's fetches run unforced.
Navigate(p) ==
  /\ PageFree
  /\ param' = p
  /\ Start({n \in RouteLoads : ~DedupeSkips(n, p)}, p)
  /\ UNCHANGED <<version, event, lastOk, completed>>

\* The backend's data changes by other hands.
BackendChanges ==
  /\ version < MaxVersion
  /\ version' = version + 1
  /\ UNCHANGED <<param, state, flight, event, histVars>>

-----------------------------------------------------------------------------
(* executeFetch after an await.                                            *)

\* MUTANT: the timer is armed for the first attempt only.
TimerArmedOnce(n, r) == n \in Timed /\ r.step = "headers" /\ r.attempt = 0

\* Whether the abort timer of an attempt is armed.
TimerArmed(n, r) == n \in Timed /\ r.step = "headers"

MayRetry(r) == r.attempt < Retries

\* MUTANT: the promise of a request is never settled.
NeverResume(n, i) == event

\* The events that await the request in slot i of n go on.
Resume(n, i) ==
  [e \in Events |-> IF event[e].waits = <<n, i>>
                    THEN [event[e] EXCEPT !.waits = NoWait] ELSE event[e]]

\* Headers are here: the timer is cleared, the body still has to come.
Headers(n, i) ==
  /\ flight[n][i] # Free /\ flight[n][i].step = "headers"
  /\ flight' = [flight EXCEPT ![n][i].step = "body"]
  /\ UNCHANGED <<param, state, version, event, histVars>>

\* The executeFetch call in slot i ends with the binding in state s.
Finish(n, i, s) ==
  /\ state' = [state EXCEPT ![n] = s]
  /\ flight' = [flight EXCEPT ![n][i] = Free]
  /\ event' = Resume(n, i)
  /\ completed' = [completed EXCEPT ![n] =
       IF flight[n][i].since > @ THEN flight[n][i].since ELSE @]

Succeeded(r, payload) ==
  [loading |-> FALSE, data |-> payload, error |-> "", stale |-> FALSE,
   hasData |-> TRUE, ok |-> TRUE, target |-> r.target]

\* The body is here and the status is good.  It shows the backend at some
\* moment since the request was made.
Success(n, i) ==
  LET r == flight[n][i] IN
  /\ r # Free /\ r.step = "body"
  /\ \E v \in r.since..version :
       LET payload == [target |-> r.target, version |-> v] IN
       /\ Finish(n, i, Succeeded(r, payload))
       /\ lastOk' = [lastOk EXCEPT ![n] = payload]
  /\ UNCHANGED <<param, version, overlapped>>

\* MUTANT: preserved data is not marked stale after an error.
FailedUnmarked(n, r, why) ==
  [loading |-> FALSE, data |-> KeptData(n, r.data), error |-> why,
   stale |-> FALSE, hasData |-> KeptFlag(n, r.hasData),
   ok |-> FALSE, target |-> r.target]

\* MUTANT: an error clears the data of every binding.
FailedCleared(n, r, why) ==
  [loading |-> FALSE, data |-> NoData, error |-> why, stale |-> FALSE,
   hasData |-> FALSE, ok |-> FALSE, target |-> r.target]

\* The state after the last attempt failed: what the request captured when it
\* started, not what the binding shows now.
Failed(n, r, why) ==
  [loading |-> FALSE, data |-> KeptData(n, r.data), error |-> why,
   stale |-> KeptFlag(n, r.hasData), hasData |-> KeptFlag(n, r.hasData),
   ok |-> FALSE, target |-> r.target]

\* An attempt throws: the next one, or the end.
Throw(n, i, why) ==
  LET r == flight[n][i] IN
  \/ /\ MayRetry(r)
     /\ flight' = [flight EXCEPT
          ![n][i].attempt = @ + 1, ![n][i].step = "headers"]
     /\ UNCHANGED <<param, state, version, event, histVars>>
  \/ /\ ~MayRetry(r)
     /\ Finish(n, i, Failed(n, r, why))
     /\ UNCHANGED <<param, version, lastOk, overlapped>>

\* The timer aborts an attempt whose headers have not come.
Timeout(n, i) ==
  /\ flight[n][i] # Free /\ TimerArmed(n, flight[n][i])
  /\ Throw(n, i, "timeout")

\* The network fails, the body cannot be read, or the status is bad.
NetworkError(n, i) ==
  /\ flight[n][i] # Free
  /\ Throw(n, i, "failed")

-----------------------------------------------------------------------------
(* sendEvent and runInvalidations.                                         *)

\* The event is posted to the server.
SendEvent(e) ==
  /\ PageFree
  /\ event[e].step \in {"idle", "done"}
  /\ event' = [event EXCEPT ![e].step = "posted"]
  /\ UNCHANGED <<param, state, flight, version, histVars>>

\* The server runs the action, which changes the backend's data.
ServerRuns(e) ==
  /\ event[e].step = "posted"
  /\ version < MaxVersion
  /\ version' = version + 1
  /\ event' = [event EXCEPT ![e].step = "ran", ![e].at = version + 1]
  /\ UNCHANGED <<param, state, flight, histVars>>

\* The answer is here, and the invalidations of the action begin.
EventAnswered(e) ==
  /\ event[e].step = "ran"
  /\ event' = [event EXCEPT ![e].step = "refreshing",
                            ![e].todo = Len(Invalidates)]
  /\ UNCHANGED <<param, state, flight, version, histVars>>

\* The post fails, before or after the server ran the action: the invalidations
\* are skipped.
EventLost(e) ==
  /\ event[e].step \in {"posted", "ran"}
  /\ event' = [event EXCEPT ![e].step = "idle"]
  /\ UNCHANGED <<param, state, flight, version, histVars>>

\* A browser-local action: no server, its invalidations follow at once.
RunLocally(e) ==
  /\ PageFree
  /\ event[e].step \in {"idle", "done"}
  /\ event' = [event EXCEPT ![e].step = "refreshing", ![e].at = version,
                            ![e].todo = Len(Invalidates)]
  /\ UNCHANGED <<param, state, flight, version, histVars>>

\* MUTANT: invalidations run unforced and are deduplicated.
InvalidationMayRun(n) == ~DedupeSkips(n, param)

\* Whether an invalidation passes `force`, and so whether it runs.
InvalidationRuns(n) == TRUE

\* The next name is run, and awaited before the one after it.
InvalidateNext(e) ==
  /\ event[e].step = "refreshing" /\ event[e].waits = NoWait
  /\ event[e].todo > 0
  /\ LET n == Invalidates[Len(Invalidates) - event[e].todo + 1] IN
     \/ /\ InvalidationRuns(n)
        /\ Start({n}, param)
        /\ event' = [event EXCEPT ![e].todo = @ - 1,
                                  ![e].waits = <<n, SlotFor(n)>>]
     \/ /\ ~InvalidationRuns(n)
        /\ event' = [event EXCEPT ![e].todo = @ - 1]
        /\ UNCHANGED <<state, flight, overlapped>>
  /\ UNCHANGED <<param, version, lastOk, completed>>

InvalidationsDone(e) ==
  /\ event[e].step = "refreshing" /\ event[e].waits = NoWait
  /\ event[e].todo = 0
  /\ event' = [event EXCEPT ![e].step = "done"]
  /\ UNCHANGED <<param, state, flight, version, histVars>>

-----------------------------------------------------------------------------
Next ==
  \/ \E n \in Names : Refresh(n)
  \/ \E p \in Params : Navigate(p)
  \/ BackendChanges
  \/ \E n \in Names, i \in Slots :
       \/ Headers(n, i)
       \/ Success(n, i)
       \/ Timeout(n, i)
       \/ NetworkError(n, i)
  \/ \E e \in Events :
       \/ SendEvent(e)
       \/ ServerRuns(e)
       \/ EventAnswered(e)
       \/ EventLost(e)
       \/ RunLocally(e)
       \/ InvalidateNext(e)
       \/ InvalidationsDone(e)

Spec == Init /\ [][Next]_vars

\* Timers fire, a body that has begun ends one way or the other, and the page
\* goes on with an event whose request has ended.  Nothing is asked of headers.
Fairness ==
  /\ \A n \in Names, i \in Slots :
       /\ WF_vars(Timeout(n, i))
       /\ WF_vars(flight[n][i] # Free /\ flight[n][i].step = "body"
                  /\ (Success(n, i) \/ NetworkError(n, i)))
  /\ \A e \in Events : WF_vars(InvalidateNext(e) \/ InvalidationsDone(e))

FairSpec == Spec /\ Fairness

-----------------------------------------------------------------------------
(* Safety.                                                                 *)

\* Types; a request never makes more attempts than its retries allow.
TypeOK ==
  /\ param \in Params
  /\ state \in [Names -> Binding]
  /\ flight \in [Names -> [Slots -> Request \cup {Free}]]
  /\ version \in Versions
  /\ event \in [Events -> Event]
  /\ lastOk \in [Names -> Payload \cup {NoData}]
  /\ overlapped \in [Names -> BOOLEAN]
  /\ completed \in [Names -> Versions]

\* Data shown as fresh was read from the target the binding names, and data
\* that was preserved across a start or an error is always marked stale.
FreshDataIsCurrent ==
  \A n \in Names :
    /\ state[n].hasData <=> state[n].data # NoData
    /\ state[n].hasData /\ ~state[n].stale =>
         state[n].ok /\ state[n].data.target = state[n].target
    /\ state[n].stale => state[n].hasData /\ ~state[n].ok

\* A binding that says it is loading has a request in flight: no order of
\* answers, errors and refreshes leaves the loading state behind.
LoadingIsInFlight == \A n \in Names : state[n].loading => InFlight(n)

\* As long as the requests of a `stale keep` binding never overlap, it shows
\* the payload that arrived last, through refreshes and errors.
LatestSuccessKept ==
  \A n \in Keep :
    ~overlapped[n] /\ lastOk[n] # NoData =>
      state[n].hasData /\ state[n].data = lastOk[n]

\* When the invalidations of an event are done, each of its names has ended a
\* request made after the action ran, whatever dedupe and failures there were.
InvalidationRefreshes ==
  \A e \in Events : event[e].step = "done" =>
    \A i \in 1..Len(Invalidates) : completed[Invalidates[i]] >= event[e].at

\* Then a binding whose requests never overlapped, and that shows a success,
\* shows what the action wrote.
ReadsItsWrites ==
  \A e \in Events : event[e].step = "done" =>
    \A i \in 1..Len(Invalidates) :
      LET n == Invalidates[i] IN
      state[n].ok /\ ~overlapped[n] => state[n].data.version >= event[e].at

\* What a request captured is consistent, and without overlap it is also what
\* arrived last: nothing has been written since the request started.
CaptureInv ==
  \A n \in Names, i \in Slots : flight[n][i] # Free =>
    /\ flight[n][i].hasData <=> flight[n][i].data # NoData
    /\ flight[n][i].since <= version
    /\ lastOk[n] = NoData => flight[n][i].data = NoData
    /\ ~overlapped[n] =>
         /\ \A j \in Slots : flight[n][j] # Free => i = j
         /\ n \in Keep => flight[n][i].data = lastOk[n]
         /\ flight[n][i].since >= completed[n]

\* Nothing is shown before a first success, and a success that is shown is no
\* older than any request that has ended.
VersionInv ==
  \A n \in Names :
    /\ completed[n] <= version
    /\ lastOk[n] = NoData => state[n].data = NoData
    /\ state[n].ok => state[n].hasData
    /\ state[n].ok /\ ~overlapped[n] => state[n].data.version >= completed[n]

\* The names an event has dealt with have ended a request made since its
\* action ran, and the one it awaits is making such a request.
InvalidationInv ==
  \A e \in Events : LET ev == event[e] IN
    /\ ev.step # "refreshing" => ev.waits = NoWait
    /\ ev.step \in {"refreshing", "done"} =>
      /\ ev.step = "done" => ev.todo = 0
      /\ \A i \in 1..(Len(Invalidates) - ev.todo) :
           \/ completed[Invalidates[i]] >= ev.at
           \/ /\ ev.waits # NoWait
              /\ i = Len(Invalidates) - ev.todo
      /\ ev.waits # NoWait =>
           LET r == flight[ev.waits[1]][ev.waits[2]] IN
           /\ ev.todo < Len(Invalidates)
           /\ ev.waits[1] = Invalidates[Len(Invalidates) - ev.todo]
           /\ r # Free /\ r.since >= ev.at

\* What an event's action wrote is in the backend's data.
WrittenInv == \A e \in Events : event[e].at <= version

\* The inductive invariant.
IInv ==
  /\ TypeOK
  /\ FreshDataIsCurrent
  /\ LoadingIsInFlight
  /\ LatestSuccessKept
  /\ CaptureInv
  /\ VersionInv
  /\ InvalidationInv
  /\ WrittenInv

-----------------------------------------------------------------------------
(* What the language reference promises and overlapping requests break.    *)

\* "`stale keep` preserves the previous successful `data` value during
\* refresh/loading and after an error": also when requests overlap.
StaleKeepPreserves ==
  \A n \in Keep : lastOk[n] # NoData => state[n].hasData

-----------------------------------------------------------------------------
(* Liveness.                                                               *)

\* A binding with a timeout does not stay in the loading state for ever, even
\* if the server never answers: every attempt has its own timer.
LoadingEnds == \A n \in Timed : state[n].loading ~> ~state[n].loading

\* The invalidations of an event end, when its names have timeouts.
InvalidationsEnd ==
  \A e \in Events : event[e].step = "refreshing" ~> event[e].step = "done"

=============================================================================
