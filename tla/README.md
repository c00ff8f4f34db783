# Formal model of the JTML runtime

JTML is a compiler and reactive runtime, in C++17 with an embedded JavaScript runtime,
for a small UI language. The modules here model the parts whose correctness depends on
the *order* of things: the interpreter's threads, its reactive graph, the server that
reloads programs under connected pages, and in the browser the requests, routes,
effects and keyed components. TLC checks small instances; TLAPS proves the core for
every program, every number of threads, pages, bindings, routes, rows and effects.
Paths are relative to the repository.

## 1. Inventory

### The system

A `.jtml` program is lexed, parsed (`src/lexer.cpp`, `src/parser.cpp`; the indented
"friendly" syntax is lowered by `src/friendly.cpp`), analysed and transpiled to HTML.
It then runs in one of two ways.

* **Live**: an `Interpreter` evaluates the program in the server process. The page is a
  thin client: events go to the interpreter (`POST /api/event`, or a WebSocket), and the
  interpreter broadcasts what changed. State lives in `Environment`s, a reactive graph.
* **Clean browser build**: the program is compiled to *plans* (JSON) which the browser
  runtime (`src/browser_runtime_assets.cpp`) executes without a server.

| Part | State it keeps | Operations | Who it talks to |
| --- | --- | --- | --- |
| Interpreter threads (`interpreter.cpp` 430–631, `local_server_security.h`) | execution lock, call frames, async queue, generation | public calls, async calls, reset, reload, wait, destroy | clients, the WebSocket event loop, its worker |
| Reactive environment (`legacy_runtime/environment.cpp`, `interpreter.cpp` 5246–5513) | values, formulas, adjacency, dirty marks, subscribers | assign, derive, redefine, unbind, subscribe, recalculate | callbacks that run inside its own loops |
| Fetch bindings (`browser_runtime_assets.cpp` 4200–4420, 5261–5283, 5685–5726) | `clientState[name]`, requests in flight, invalidations | start, answer, retry, abort, refresh, route load, invalidate | router, `/api/event`, the backend |
| Root effects, getters, actions (`runtime_plan.cpp` 70–273, `browser_build_policy.cpp` 230–511, `browser_runtime_assets.cpp` 3835–4013) | the plan; `clientState`, `clientWrites` | plan, dispatch, publish, flush | fetch and media, which store values |
| Components and keyed regions (`browser_runtime_assets.cpp` 504–685, 1410–1920) | registry, scopes, generations, the document, keys of each region | render, plan, commit, roll back, destroy, act | the effects' turn, which patches the document |
| Router (`browser_runtime_assets.cpp` 5280–5416, 5616–5640, 5728–5834) | hash, active route, guards, visible section | apply routes, guard, redirect, navigate | fetch bindings (loads), actions, answers of the server |
| Live transport (`websocket_server.h`, 5640–5726 of the runtime, `interpreter.cpp` 596–631, 2465–2490) | connections, messages on their way | open, close, broadcast, dispatch, answer | the interpreter, under its lock |
| Serve and watch (`cli/cmd_serve.cpp`) | served page, file times | build, load, tell, store, poll | interpreter, transpiler, the live transport |
| C API (`c_api.cpp`) | a context's interpreter and transpiler | load, render, dispatch | an embedder |
| Modules and build (`module_graph.cpp`, `module_loader.cpp`, `browser_build*.cpp`) | none between calls | resolve, order, certify, emit | file system |
| Front end, analysis, tools (`friendly.cpp`, `semantic.cpp`, formatter, linter, LSP, Studio, packages) | none between calls | text to tree to text | files, editors |

### What is hard, and what must be true

* *Threads.* A task is admitted by one program and popped when another has replaced it; a
  destructor drains work that admits more work while an event loop still delivers; a
  condition variable must wake whoever waits. Must hold: frames belong to the lock's
  holder, no stale task runs, order and completeness, exact error delivery, everything ends.
* *Re-entrancy without threads.* Recalculation calls subscribers, which assign, mark,
  derive and read in the middle of it. Must hold: marks are closed under dependence,
  reads are current, notifications carry the last value, it comes to rest.
* *Overlap of asynchronous requests.* What a request captured before its first `await` is
  written back after others have ended. Must hold: fresh data is the binding's, loading
  means in flight, an invalidation is answered by a request made after the action.
* *One pass instead of a fixpoint.* Effects run once per turn in an order computed at
  compile time; getters too. Must hold: every effect ends up told the final value, once.
* *Partial failure.* Exceptions in the middle of actions, callbacks, regions and rebuilds.
  Must hold: a region's patch happens or has never been; a rebuild that failed leaves
  something a later save repairs, and what is published is either the old program or the new.
* *Answers that come later.* The hash changes now and its event comes later, by when a guard
  may have changed it again; a page obeys a reload while the rebuild that sent it still runs.
  Must hold: one route visible, guarded sections stay hidden, pages end with the new program.

The list of hazards with their lines is in `PROJECT.json`, next to the properties that
cover each, or the reason why none does.

## 2. Modules

| Module | Models |
| --- | --- |
| `AsyncWorker` | lock, frames, worker, wait and destruction of one `Interpreter` |
| `AsyncContract` | what async functions promise: no locks, no threads |
| `AsyncRefinement` | the mapping from the former to the latter |
| `FetchRuntime` | fetch bindings, route loads, invalidations |
| `ReactiveEnv` | the global `Environment` and its recalculation |
| `RootEffects` | planner and browser turns of root effects and getters |
| `KeyedRegion` | a keyed `for` region, its components and their registry |
| `KeyedContract` | what a keyed region promises: an update happens in one step or not at all |
| `Router` | hash, routes, guards and redirects |
| `LiveServer` | `serve --watch`: rebuilds, reloads, connections and pages |
| `MC…` | the instances for TLC |
| `…Proofs` | theorems about the module of that name |

### AsyncWorker, AsyncContract, AsyncRefinement

Threads are clients (public API), handlers (the WebSocket event loop) and the worker; `pc`
says where each is. Critical sections of `asyncMutex` and `functionCallMutex` take no
other lock and are one step; what happens under `executionMutex` is several, since
`asyncMutex` is taken and released in between. `asyncCondition` is the set `sleepers`: a thread
that found its predicate false sleeps until a `notify_all`. `EnterFrame`/`LeaveFrame` are
`FunctionCallFrame`, `Admit` is `enqueueAsync`, `Worker*` are the lines of `runAsyncTasks`,
`StartWait`…`WaitReturn` are `waitForAsync`, `BeginDestroy`…`JoinEventLoop` the destructor.
`RaiseFunctionCallError` unwinds every frame, because the interpreter's handlers in between rethrow;
`notifySubscribers` (`environment.cpp:386-391`) swallows the error of a subscriber instead, which
leaves only the frames above it and is a sequence of `LeaveFrame` here.
`AsyncContract` keeps a queue of pending tasks, the active one and what is settled; a popped
task counts as pending until it enters user code, and as settled when the worker has
released the lock.

### FetchRuntime

The page is one JavaScript thread: what runs between two `await`s is one action. `state` is
`clientState[name]`; `flight` holds, per `executeFetch` call, what it captured before its
first `await` (`previous`, the URL, the attempt). `Headers`, `Success`, `Timeout`,
`NetworkError` are its continuations, in any order among requests. `SendEvent` …
`InvalidationsDone` are `sendEvent` and the loop of `runInvalidations`, which awaits one
fetch after another; microtasks run before the next click (`PageFree`). The server and the
backend are external: they may answer, fail, or never answer, and data changes by `version`.
A payload is its URL and that version, so that "what is shown" can be compared.

### ReactiveEnv

One thread runs, but callbacks run inside evaluations, so the C++ stack is explicit: the
head of `stack` is the innermost call (`updateVariable`, `deriveVariable`'s evaluator,
`executeFunction`, a notification, `recalcDirty`, or the wait for it) and an engine action is one step
of it. Choices that a reader should know:

* `adj` is a set of dependents; `adjacency` is a list with one entry per read, and
  `Repeats` gives the multiplicity where the code iterates the list (notifications).
* Names are first defined by leading `define`s; a formula is its reads in evaluation order
  and an opaque `Apply`; an evaluation that throws yields no member of `Values`.
* Kahn's order in `recalcDirty` is any linear extension: the queue starts from an
  unordered container. `reverseAdjacency` is written but never read, and left out.
* The depth computation of `markDirty` does not end on a cyclic graph: mode `cyclic` stops.
* An error in a statement of an action is caught by `interpretNode`, which goes on
  with the next statement (`SetFails`).
* Left out: constants, inner scopes, bindings and the renderer, the recursion limit (in
  `AsyncWorker`), arrays and dictionaries.

### RootEffects

First the compiler: `Declare` is the loop over subscriptions of `planRootSubscriptions`,
`Place` one step of `orderRootSubscriptions` (Kahn, first ready in source order),
`VisitRoot`/`VisitRead`/`AppendGetter` the depth-first search of `planBrowserDerivedOrder`,
with its stack as `path`. A program that is refused stops there. Then the page: `Dispatch` and `Arrive` start
turns, `If` and `Set` are `runClientStatements`, `BodyDone` restores the slots that
parameters shadowed, `Publish` is one getter of `applyClientDerived`, `SkipEffect` and
`RunEffect` the loop of `flushRootSubscriptions`; `ActionThrows` and `FlushThrows` are the
exceptions. `Root` and `Read` are `actionReadScope`: inside an action getters are evaluated
anew from the roots, not from the shadowing parameters. Choices:

* The compiler collects every reason for refusal; the model stops at the first phase that
  has one. The roots of the getter search come in any order, which covers the code's order.
* A body is a flat sequence where an `if` says how many statements it guards.
* `seen`, `ran` and `outcome` are histories. After an exception in the flush the remaining
  effects are dropped; the history then starts afresh (see the observations).
* The document patching that ends a turn is left out, as are captures of components.

### KeyedRegion, KeyedContract

A board shows one row component per key and, while it is open, a cell component inside each.
`Update` is an action of the board: it writes the state and takes the snapshot of
`patchComponentForRegion`. `Render` is the candidate of one row, which registers components
and refreshes scopes (`RegisterAll`) in the live registry; `Plan` refuses ambiguous keys;
`EditRow` and `Rearrange` record an inverse (`undo`) before each edit; `RemoveRow`
and `InsertRows` are `commitKeyedChildren`; `Bind` is the last thing that may throw;
`Destroy` takes out what was left, longest ids first, children included. `Fail` stands for
an exception at any point before that, `UndoEdit` and `Restore` for the rollback. JavaScript
runs all of this without giving way: the steps are apart because each may throw, and
the contract is stated of what others can see (`Seen…`), the document between patches.

* Ids are pairs of a place and a key. Two ids matter to each other only when one begins
  with the other and `__` (`destroyDirectComponentChildren` compares prefixes); `Extends` says
  which keys do.
* What the board wrote before the patch failed stays written, as in the code.
* Left out: `if` and slot regions, the first render, patches compiled ahead of time, focus.

### Router

Each section of the page is a route. Whoever changes `location.hash` (`Move` the user, `Follow`
a link, `Act` an action's redirect, `Refuse` a guard) is answered later, by one `HashChange` event per
change, and `ApplyRoutes` reads the hash of that moment: it publishes `activeRoute`, asks the
guards and shows one section. A parameter that cannot be decoded throws half way
(`MatchThrows`); nothing matching shows the first section (`ShowFirst`). `Boot` is
`applyInitial`; `Bindings` are guard variables set by the server.

`applyClientState` runs effects, derives captures and updates components on the way, and any of
them may throw (`browser_runtime_assets.cpp:669,3873,3890`). In `applyRoutes` it is called inside
the loop over the sections (`:5816`), when the match is visible: `RenderThrows` is that exit, which
leaves the sections after the match as they were and `__jtml_current_route` unset. In
`applyInitial` it comes just before the first `applyRoutes` (`:5639`): `BootThrows`. In an
action it comes before the redirect, which is then not requested (`Act` without one). The
history variable `thrown` says which of the first two happened and has not been made up for, and
`OneRouteVisible` and `ActiveIsHash` name it as their exception: a second section stays visible
until the routes are next applied to the end, and `activeRoute` stays unset until they are
first applied. `GuardsBlock` needs no exception.

Left out: values of parameters, how links are displayed, and what a route loads, which is
`FetchRuntime`'s; an exception of `applyInitial` before the guards are registered, and one
of `applyBindings` before it comes to the routes. A render of server components
(`:4544`) applies the routes as `Bindings` that change nothing do.

### LiveServer

One thread builds, loads, tells and stores, then polls: `pc` follows it through `rebuild`, with
`Locked` the part under the local server's execution lock. WebSocket callbacks wait for that
lock (`opening`, `OnOpen`, `OnClose`), requests too (`Act`), but `GET /` only for the lock of the
stored page (`Visit`). A broadcast is `Tell` per connection, and a send that throws ends
it. A connection is a page and the number of its document; messages travel in `queue` and
answers of `/api/event` in `answers`, unordered to each other. A source is good, or fails
where the loader reads, the parser builds or the interpreter runs. The author, the
network and the user are external actions. `now` counts changes of bindings and names programs by the
change that loaded them. Left out: `stop()` against `run()` of the server, other
endpoints and serve modes, several files.

## 3. Runs

Each passing run explores its whole state space; the last column counts distinct states.

| Run | Asks | States |
| --- | --- | --- |
| `async` | the worker protocol in every interleaving of two clients, the event loop and the worker: safety, the contract, no lost wake-up, no deadlock | 251,282 |
| `fetch_overlap` | one binding with two overlapping requests, retry, timeout, route change; loading and invalidations end although the server need not answer | 323,626 |
| `fetch_invalidate` | two events that invalidate two bindings, with failures and dedupe | 1,454,311 |
| `reactive` | every program of up to five statements and events over a diamond, with redefinition, unbinding, failing statements and callbacks that write what formulas read; rest | 565,369 |
| `root_effects` | every program of up to four effects, cyclic ones too, over three definitions of two getters, and three turns of its page | 101,142 |
| `keyed` | two updates of a board of rows and cells, any step of which may throw, between actions of its components | 177,148 |
| `router` | three sections, two guards, a malformed path, four moves of the user in any order with unhandled hash changes, and exceptions of `applyClientState` | 32,884 |
| `live` | one more save in any state of repair, while one page acts and reloads and another listens | 954,021 |
| `fetch_stale_keep`, `reactive_lost_write`, `keyed_nested`, `live_reload` | what a document, comment or test promises and the code breaks | counterexample |

**Bounds.** *Async*: two tasks let one be queued while the other runs, and let a
draining task admit a descendant; one reset makes a stale task, two frames reach the
recursion limit (128 in the code, 2 here), three calls let both clients and the loop be
inside at once. The proofs remove all of these bounds. *Fetch*: two requests of a binding in
flight are the first overlap, one retry the first re-arming of the timer, two values
of the route parameter the first change of URL, two invalidated names the first await
between names. *Reactive*: a diamond is the smallest graph with two paths (and the one on
which depth, order and cycle detection differ); five statements build it and leave one, in any
order, for what should go wrong. Values are taken modulo 4 and compared exactly (`Shown` is the
identity), so values that only look alike are met by the theorem `DerivedAgree` alone; subscribers
write what other formulas read but never feed back, so `RestsAgain` says nothing of the
unbounded recursion at `environment.cpp:588`. *Effects*: a cycle of three, a fork and a repeated
declaration need four effects; `MaxEffects` is 3 so that the limit (64) is met; three turns
let an exception in one be felt in the next. *Keyed*: two keys give every way rows come, go,
swap and repeat; the second update meets what the first has left, and what an
action counted tells state that was kept from state that is new. *Router*: a guard that
redirects to a guarded page, whose guard redirects to that same page, is the shortest chain of
refusals (a circle of guards never rests, as the code has it, and is not in the run); four moves leave several events
unhandled. *Live*: the first build and one more save meet a page in every state of
connection; an acting page of two documents can miss what happens between them. `CHECK_DEADLOCK FALSE` stands where a bounded
program or page has nothing left to do, and in the liveness run of the worker.

**Fairness.** *Async*: weak fairness of every thread's next step, which is what an operating
system scheduler gives; client calls need not happen, and user code ends because the graph
of tasks and the frames of a lock hold are finite (an assumption on programs). *Fetch*: timers fire; a
body whose headers have come ends or fails; the page continues an event whose
request has ended. Nothing is asked of headers: they may never come, and `LoadingEnds` is
claimed only for bindings with a timeout. *Reactive*: the engine is synchronous
code, so what has begun goes on. *Live*: the watcher's thread goes on; saves, pages and network
need not. *Router*: `applyInitial` runs, to its end or to its exception, and hash changes are handled; the user need
not stop, but what is claimed is claimed of guards without a cycle of redirects.
*Effects* and *Keyed*: no liveness is claimed.

Every property has a mutant in `PROJECT.json`: a plausible bug in a definition that makes
TLC find it violated.

## 4. Proofs

The theorems hold for every value of the constants that satisfies the named assumptions.
Those assumptions say only that sentinels are not values, that formulas read variables and give
values, that bodies are well formed, and that bounds are numbers; and, in
`KeyedRegionProofs` alone, that no key extends another by `__` (`Apart`).

* **AsyncWorkerProofs.** `IInv` adds to types, generation safety and FIFO two facts: the
  lock's holder is where the program counters say (`LockInv`), without which a reset could
  slip under a running task; and what the worker's place says of queue and destructor
  (`WorkerInv`), without which an admission could follow its exit. `QuietInv` adds where
  clients and the event loop may be while the destructor runs, so that nobody is inside when
  it ends (`TeardownQuiet`). `ReportInv` adds that what was handed out, followed by what is
  kept, lists the errors in the order of their tasks, and that a skipped task is among them
  from the moment it is given up; with an accounting of errors, `ErrorsDelivered` follows: each is handed out once, in order, for any
  number of waiters. `WaitBoundary` is an action property. `TypeCorrect`, `FrameExclusion`,
  `GenerationSafety`, `AdmissionOrder`, `DrainSafety` follow.
* **AsyncRefinementProofs.** `Refinement`: `Spec => Contract!Spec`, step by step from `IInv`
  and the fact that a task that has run is in its own generation (`RanInv`); each step maps
  to one contract step or a stutter.
* **FetchRuntimeProofs.** `IInv` adds what a request captured (`CaptureInv`: without overlap it is
  what arrived last), how old what is shown is (`VersionInv`), and which names an event
  has dealt with (`InvalidationInv`: each has ended a request made since the action, or the
  awaited one is such). All five safety properties follow.
* **ReactiveEnvProofs.** `IInv`: types, closed marks, edges that lead only to readers, a
  derivation in progress is the outermost call with no edges into its variable, and a
  serving page's outermost call is a recalculation. Proved: `TypeCorrect`, `MarksClosed`,
  `EdgesHonest`, `NothingLeftToRecalculate`. The argument for the marks is that
  `MarkDirty` adds everything reachable and only redefinition and unbinding change edges
  (`MarkingComplete`: stopping at a marked variable loses nothing).

  Five theorems need a hypothesis about steps, because without it the code breaks the
  property; each names the step that may break it. `RedefinitionFails`: the evaluator of a new definition throws
  after the old edges were erased (`environment.cpp:151,174`). `LostWrite`: a callback that
  `updateVariable` calls writes what a formula reads, and line 579 erases the mark
  (finding 1; in the run `reactive` such a write does no harm, as the callback is called again
  by the announcement and repeats it). `LostNotice`: it writes a variable that has subscribers, for whom the list of
  changes was fixed before. `StaleRead`: an evaluation has read a name and waits for the refresh
  of the next one; `updateVariable` calls a subscriber of that one, and it writes what the waiting
  evaluation, or a formula, reads, so that the evaluation goes on with values of two moments
  (`interpreter.cpp:4878,5505`). Other callbacks may write anything.
  * `EdgesExact`: until a redefinition fails, `EdgesMatch`. The calls are read from the
    outermost in (`Chain`): a derivation, recalculation or settling can only be the first
    (`Layout`), what is pending fits the graph (`FramesFit`), and edges are complete but for
    the variable being redefined (`EdgesComplete`).
  * `DerivedAgree`: until, besides, a write is lost, `DerivedCurrent`, whatever `Shown`
    identifies. Unmarked variables agree with their formulas (`CleanAgree`); within a
    recalculation so do those it has done, what it has still to do leads to none of them,
    and an update under way has read current values (`RecalcInv`). The order of Kahn's
    algorithm and the refresh on reading meet in this invariant: a refresh inside the loop
    may change only variables that are not done yet.
  * `SubscribersInformed`: until a write or its notice is lost, `SubscribersCurrent`, from an
    account of who has heard what and who is pending in the announcement (`HeardInv`).
  * `StaysFounded`: until a redefinition fails or the depth computation would not end, no formula
    leads back to its variable, though `dfsCycleCheck` looks at the graph before the edges exist:
    what closes a cycle is what `ClosesCycle` meets.
  * `ReadsFresh`: until a redefinition fails, a write is lost or a read goes stale,
    `ReadsAreFresh`, even where callbacks feed back; for formulas that fail always or never
    (`AlwaysOrNever`) and values that differ when displayed (`Exact`), since a formula that fails
    later, or a difference that is not shown, leaves the old value by design. The property compares
    with a recursive definition (`Meaning`). Induction over the depth of formulas is replaced by
    minimality: in a set of variables there is one that reads no other of the set (`Founded`), so
    two solutions of the formulas have no first variable to differ at (`SolutionsAgree`), a largest
    partial solution is total (`SolutionExists`), and `Meaning` is that solution (`MeaningSolves`).
    Unmarked variables have their meanings (`UnmarkedMeans`), and every call in progress has read
    meanings and waits for one (`FreshCalls`).
  * Conditions on the program alone that make the hypotheses true (`ProgramInv`: nothing is
    defined, subscribed to or called but what it declares; only handlers and subscribers run).
    `Total`: its definitions always have a value, so no redefinition fails. `Tame`: its
    subscribers assign nothing that a definition derives or reads, so no write is lost. `Silent`:
    nor what has subscribers. `Aside`: nor what an action reads, so no read goes stale. Hence
    `TameAgree`, `SilentInformed` and `AsideFresh`, the three properties without a hypothesis
    about steps: a team can read off a program's text that it is safe.
* **RootEffectsProofs.** All seven properties, from one invariant. The planner: what is
  placed depends on nothing that is not (`PlacedInv`), and what was passed over had a writer
  to wait for (`StableInv`). The getters: each reads only what stands before it
  (`GettersInv`). The page: an effect the pass has come to, or whose dependency is not among
  the writes, was told the present value of the root, seen through the parameters that
  shadow it (`HeardInv`). A callback cannot break this, since it writes only what later
  effects watch; so one pass is enough.

* **KeyedRegionProofs.** `IInv` follows a patch: the snapshot is of a region at rest (`Sound`);
  undoing what is recorded gives back its document (`Undoable`); what was registered keeps its
  generation and state, what was not is fresh (`Refreshed`); how far rendering, editing and
  rearranging have come (`Rendered`, `Edited`, `Rearranges`). Then `RegistryHonest`, and `Refines`:
  `Bind` is the contract's `Replace`, an action of a component its `Act`, every other step a stutter, the
  rollback included. `Apart` is needed, as `keyed_nested` shows.
* **RouterProofs.** One visible route (but for an exception in the middle of `applyRoutes`, up to
  the next application that ends), `activeRoute` is the hash when no event is left (but for
  an exception of `applyInitial`), and a guarded section is not revealed while its guard is false (`OneVisible`, `ActiveFollows`,
  `GuardedStaysHidden`), for all routes, guards and paths.
* **LiveServerProofs.** `IInv` relates what the watcher has built, stored and told to what each
  connection has been sent; `ReloadReaches` and `ListenersFollow` come from it, for any number of
  pages, saves and documents.

Only model-checked: liveness under fairness (out of the prover's reach). Every invariant and
every action property that a run checks is also the conclusion of a theorem.

## 5. Findings

Violations found by runs, each of a sentence of the repository:

1. `reactive_lost_write`: `recalcDirty` erases marks that subscribers made during its
   updates, and a variable depending on their write stays stale; `environment.cpp:576-578`
   says these marks are kept.
2. `fetch_stale_keep`: a request that was overtaken and then fails drops the newer data
   of a `stale keep` binding; `docs/reference/language-reference.md:180,182`.
3. `keyed_nested`: with row keys `a` and `a__b`, removing row `a` destroys the component of row
   `a__b`, which is still shown (`browser_runtime_assets.cpp:562`);
   `tests/browser/keyed_lifecycle.cjs` requires that every live component is registered.
4. `live_reload`: the reload is broadcast before the new page is stored
   (`cli/cmd_serve.cpp:847,852`), so a quick page is served the old program and stays
   with it; `README.md:360`, `interpreter.cpp:625`.

Observations without a run:

* Subscribers of a dependent are called with its old value before it is updated, where
  `environment.cpp:491-492` says they see consistent state (`SubscribersCurrent` is about rest).
* Deriving the top of a diamond again is refused as cyclic, where `environment.cpp:147-149` says
  redefinition is idempotent (`DeriveRefused`).
* A redefinition can close a cycle which the check misses, since it runs against the old
  graph (`environment.cpp:140-141`): `markDirty` then recurses without end. The model
  stops there.
* Unbinding and subscribing again loses the subscription (`environment.cpp:210`);
  unbinding leaves the edges to its dependents (`:231-234`).
* Values are compared as text with six digits (`interpreter.cpp:5499`); a smaller change is not
  propagated (`language-reference.md:972`).
* A redefinition that fails leaves the variable detached (`environment.cpp:151`); this is
  the step `RedefinitionFails` of the theorems.
* Dedupe counts a failed load of a `stale keep` binding as loaded
  (`browser_runtime_assets.cpp:4251`, `language-reference.md:193`).
* An action that throws leaves its writes recorded, and a later, unrelated turn runs
  their effects, where the root-effects document says that unrelated writes trigger none.
  The values told are the current ones, and `EffectsHeard` counts on it.
* An exception in the flush drops the effects after it, and nothing calls them later.
* A page first loaded at a path whose guard refuses leaves every section visible; the section
  shown when nothing matches is shown although it is guarded; guards that redirect in a circle
  keep the page busy; a hash change before `applyInitial` is handled without guards; a path that
  cannot be decoded throws after `activeRoute` has changed (`browser_runtime_assets.cpp:5787-5832`).
* An exception of an effect, a capture or a component update while a route is applied leaves two
  sections visible: the new one and the one shown before, if that stands after it in the page;
  `getCurrentRoute()` still answers the old route (`browser_runtime_assets.cpp:5816`, called between
  `:5800` and `:5827`). `tests/browser/route_precedence.cjs` counts one visible section, on a page
  without exceptions. After an exception in `applyInitial` (`:5639`) every section is
  visible and `activeRoute` unset until something applies the routes.
* A page that connects after a rebuild is not told of it, and one served after a failed first build
  has no script to be told by. An answer of `/api/event` may overwrite newer bindings that came
  by WebSocket. If listening fails while the watcher runs, its thread is never joined
  (`cli/cmd_serve.cpp:904`).

## 6. Plan

Done, in this order: `AsyncWorker` with its contract, `FetchRuntime`, `ReactiveEnv`,
`RootEffects`, `Router`, `LiveServer`, `KeyedRegion` with its contract.

What would come next:

1. `stop()` against `run()` of the WebSocket server, composed with the join of the event loop
   in `AsyncWorker` (a stop during start must not leave the join waiting).
2. `if` and slot regions of components in `KeyedRegion`; the patch that ends a turn of `RootEffects`.
3. Selections, private parts and cycles in the module loader; the order of module
   initialisation (`planBrowserStateOrder`) and capture certification.
4. The C API's replacement of interpreter and transpiler, as an instance of `AsyncContract` per
   generation: no work runs against a destroyed transpiler.

Theorem to add: that a program that is `Tame` and `Silent` recalculates at most twice after an
event (`RestsAgain` itself stays with TLC).

## 7. Not modelled

Lexing, parsing, lowering, semantic analysis, formatting, linting, refactoring, plan
serialisation and HTML emission are functions of text without state between calls; their
results enter the models as programs. The LSP, Studio, tutorial and package manager wrap
those functions in I/O. Value arithmetic, arrays and dictionaries are opaque `Apply`s. Vendored
libraries (WebSocket, HTTP, JSON) are outside. `docs/spec` drafts of a reactive core describe a
target, not this code, and were used for no definition of a component; `KeyedContract` takes
its wording from one of them.
