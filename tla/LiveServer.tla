----------------------------- MODULE LiveServer -----------------------------
(***************************************************************************)
(* `jtml serve --watch`: the thread that polls the source and rebuilds     *)
(* (src/cli/cmd_serve.cpp), the interpreter it reloads, the WebSocket      *)
(* server that tells the pages (src/include/jtml/websocket_server.h) and   *)
(* the pages themselves (src/src/browser_runtime_assets.cpp).              *)
(*                                                                         *)
(* A rebuild holds the local server's execution lock; WebSocket callbacks  *)
(* and runtime requests wait for it and are steps of their own here.       *)
(* `GET /` needs only the lock of the stored page.  What a source says and *)
(* what bindings hold is abstracted to numbers: `disk` counts the saves,   *)
(* `now` the changes of the interpreter's bindings, and `epoch` is the     *)
(* change that loaded the program, by which the program is identified.     *)
(*                                                                         *)
(* A connection is <<page, n>>, the WebSocket of the page's n-th document. *)
(*                                                                         *)
(* Histories, not in the code: attempted, firstScan, since, acted, missed. *)
(***************************************************************************)
EXTENDS Naturals, Sequences, FiniteSets, Functions

CONSTANTS
  Pages,     \* browser pages
  Actors,    \* those whose user acts
  Kinds,     \* what a saved source is like, a subset of AllKinds
  MaxSaves,  \* bound: saves after the start
  MaxLoads,  \* bound: documents each page loads
  MaxNow     \* bound: changes after which no page acts any more

AllKinds == {
  "good",
  "unread",   \* the module loader throws
  "unbuilt",  \* the loader accepts it, the parser or the transpiler throws
  "unloaded"  \* built, but interpreting it throws
}

ASSUME LiveServerAssumption ==
  /\ Actors \subseteq Pages
  /\ Kinds \subseteq AllKinds
  /\ MaxSaves \in Nat /\ MaxNow \in Nat
  /\ MaxLoads \in [Pages -> Nat]

Connections == UNION {{p} \X (1..MaxLoads[p]) : p \in Pages}
Messages == [type : {"reload", "bindings"}, at : Nat]

Bindings(n) == [type |-> "bindings", at |-> n]
Reload(n)   == [type |-> "reload", at |-> n]

VARIABLES
  disk,        \* number of the last save
  kind,        \* its kind
  pc,          \* of the main thread until the watcher runs, then of the watcher
  started,     \* has the first build been tried?
  seen,        \* lastWrites: the save the watcher has noticed, 0 when empty
  todo,        \* connections the reload broadcast has not reached
  now, epoch,  \* the interpreter's bindings and its program
  html,        \* program of currentHtml, with the bindings it began with
  torn,        \* did the last rebuild that touched the interpreter fail?
  opening,     \* connections whose open handler waits for the lock
  conns,       \* WebSocketServer::connections
  closing,     \* those of conns a send to which throws
  loads,       \* documents the page has loaded
  linked,      \* is the WebSocket of the page's document alive?
  doc,         \* program of the page's document, 0 for an empty one
  shown,       \* the bindings the page shows
  queue,       \* messages on the way to the page
  answers,     \* answers of /api/event on the way to the page
  attempted, firstScan, since, acted, missed

source  == <<disk, kind>>
watcher == <<pc, started, seen, todo, attempted, firstScan>>
program == <<now, epoch, torn>>
server  == <<opening, conns, closing>>
page    == <<loads, linked, doc, shown, acted>>
wire    == <<queue, answers, since, missed>>
vars == <<source, watcher, program, html, server, page, wire>>

Locked == pc \in {"load", "misload", "tell"}
Current(p) == <<p, loads[p]>>
Live(h) == linked[h[1]] /\ h = Current(h[1])
Connected(p) == linked[p] /\ Current(p) \in conns

Init ==
  /\ disk = 1 /\ kind \in Kinds
  /\ pc = "build" /\ started = FALSE /\ seen = 0 /\ todo = {}
  /\ now = 0 /\ epoch = 0 /\ torn = FALSE
  /\ html = 0
  /\ opening = {} /\ conns = {} /\ closing = {}
  /\ loads = [p \in Pages |-> 0]
  /\ linked = [p \in Pages |-> FALSE]
  /\ doc = [p \in Pages |-> 0]
  /\ shown = [p \in Pages |-> 0]
  /\ queue = [p \in Pages |-> <<>>]
  /\ answers = [p \in Pages |-> {}]
  /\ attempted = 0 /\ firstScan = 0
  /\ since = [p \in Pages |-> 0]
  /\ acted = [p \in Pages |-> FALSE]
  /\ missed = [p \in Pages |-> FALSE]

---------------------------------------------------------------------------
(* The source file and the thread that watches it. *)

Save ==
  /\ disk <= MaxSaves
  /\ disk' = disk + 1
  /\ kind' \in Kinds
  /\ UNCHANGED <<watcher, program, html, server, page, wire>>

\* A rebuild ends and its lock is free.  After the first, HTTP is served and
\* the watcher starts.
Rest ==
  /\ pc' = IF started THEN "poll" ELSE "scan"
  /\ started' = TRUE

\* The rebuild takes the lock, reads the source again, parses and transpiles.
Build ==
  /\ pc = "build"
  /\ attempted' = disk
  /\ CASE kind = "good"     -> pc' = "load" /\ UNCHANGED started
       [] kind = "unloaded" -> pc' = "misload" /\ UNCHANGED started
       [] OTHER             -> Rest
  /\ UNCHANGED <<source, seen, todo, firstScan, program, html, server, page,
                 wire>>

\* MUTANT: the broadcast was left in the old program.
LoadUntold ==
  /\ pc \in {"load", "misload"}
  /\ now' = now + 1 /\ epoch' = now + 1
  /\ torn' = TRUE
  /\ IF pc = "load" THEN todo' = {} /\ pc' = "tell" /\ UNCHANGED started
     ELSE Rest /\ UNCHANGED todo
  /\ UNCHANGED <<source, seen, attempted, firstScan, html, server, page, wire>>

\* Interpreter::interpret at first, Interpreter::reload from then on, which
\* resets whatever follows and broadcasts to the connections of the moment.
Load ==
  /\ pc \in {"load", "misload"}
  /\ now' = now + 1 /\ epoch' = now + 1
  /\ torn' = TRUE  \* until the page is stored
  /\ IF pc = "load"
     THEN /\ todo' = IF started THEN conns ELSE {}
          /\ pc' = "tell" /\ UNCHANGED started
     ELSE Rest /\ UNCHANGED todo
  /\ UNCHANGED <<source, seen, attempted, firstScan, html, server, page, wire>>

\* MUTANT: the exception is swallowed, and the page stored.
TellSome(h) ==
  /\ pc = "tell" /\ h \in todo
  /\ todo' = IF h \in closing THEN {} ELSE todo \ {h}
  /\ queue' = [p \in Pages |-> IF Live(h) /\ p = h[1] /\ h \notin closing
                              THEN Append(queue[p], Reload(epoch))
                              ELSE queue[p]]
  /\ UNCHANGED <<source, pc, started, seen, attempted, firstScan, program,
                 html, server, page, answers, since, missed>>

\* broadcastMessage walks the connections in no particular order.  A send to
\* one that is closing throws: the broadcast and the rebuild end there.
Tell(h) ==
  /\ pc = "tell" /\ h \in todo
  /\ IF h \in closing
     THEN Rest /\ todo' = {} /\ UNCHANGED queue
     ELSE /\ todo' = todo \ {h}
          /\ queue' = [p \in Pages |-> IF Live(h) /\ p = h[1]
                                      THEN Append(queue[p], Reload(epoch))
                                      ELSE queue[p]]
          /\ UNCHANGED <<pc, started>>
  /\ UNCHANGED <<source, seen, attempted, firstScan, program, html, server,
                 page, answers, since, missed>>

Store ==
  /\ pc = "tell" /\ todo = {}
  /\ html' = epoch
  /\ torn' = FALSE
  /\ Rest
  /\ UNCHANGED <<source, seen, todo, attempted, firstScan, now, epoch, server,
                 page, wire>>

\* The first look at the files, after the first build; nothing if it throws.
Scan ==
  /\ pc = "scan"
  /\ seen' = IF kind = "unread" THEN 0 ELSE disk
  /\ firstScan' = seen'
  /\ pc' = "poll"
  /\ UNCHANGED <<source, started, todo, attempted, program, html, server, page, wire>>

\* MUTANT: files that could not be listed before are not taken for changed.
PollWarm ==
  /\ pc = "poll"
  /\ kind # "unread"
  /\ seen # disk
  /\ seen' = disk
  /\ pc' = IF seen = 0 THEN "poll" ELSE "build"
  /\ UNCHANGED <<source, started, todo, attempted, firstScan, program, html,
                 server, page, wire>>

Poll ==
  /\ pc = "poll"
  /\ kind # "unread"
  /\ seen # disk
  /\ seen' = disk
  /\ pc' = "build"
  /\ UNCHANGED <<source, started, todo, attempted, firstScan, program, html,
                 server, page, wire>>

---------------------------------------------------------------------------
(* The WebSocket server and its one thread. *)

\* MUTANT: bindings are not sent to a connection that opens.
OnOpenSilently(h) ==
  /\ ~Locked /\ h \in opening
  /\ opening' = opening \ {h}
  /\ conns' = conns \cup {h}
  /\ since' = IF Live(h) THEN [since EXCEPT ![h[1]] = epoch] ELSE since
  /\ UNCHANGED <<source, watcher, program, html, closing, page, queue, answers,
                 missed>>

\* onOpen and populateBindings.
OnOpen(h) ==
  /\ ~Locked /\ h \in opening
  /\ opening' = opening \ {h}
  /\ conns' = conns \cup {h}
  /\ IF Live(h)
     THEN /\ queue' = [queue EXCEPT ![h[1]] = Append(@, Bindings(now))]
          /\ since' = [since EXCEPT ![h[1]] = epoch]
     ELSE UNCHANGED <<queue, since>>
  /\ UNCHANGED <<source, watcher, program, html, closing, page, answers,
                 missed>>

\* The transport learns that the other side is gone, before onClose runs.
Closes(h) ==
  /\ h \in conns \ closing /\ ~Live(h)
  /\ closing' = closing \cup {h}
  /\ UNCHANGED <<source, watcher, program, html, opening, conns, page, wire>>

OnClose(h) ==
  /\ ~Locked /\ h \in closing
  /\ conns' = conns \ {h}
  /\ closing' = closing \ {h}
  /\ UNCHANGED <<source, watcher, program, html, opening, page, wire>>

---------------------------------------------------------------------------
(* The pages. *)

\* A page asks for `/` and runs what it is given: an empty document, when no
\* build has succeeded yet, has no script.  What was under way is dropped;
\* an open handler that already waits for the lock still runs.
Visit(p) ==
  /\ started /\ loads[p] < MaxLoads[p]
  /\ loads' = [loads EXCEPT ![p] = @ + 1]
  /\ doc' = [doc EXCEPT ![p] = html]
  /\ shown' = [shown EXCEPT ![p] = html]
  /\ linked' = [linked EXCEPT ![p] = html # 0]
  /\ \E kept \in {opening, opening \ {Current(p)}} :
       opening' = IF html # 0 THEN kept \cup {<<p, loads[p] + 1>>}
                                    ELSE kept
  /\ queue' = [queue EXCEPT ![p] = <<>>]
  /\ answers' = [answers EXCEPT ![p] = {}]
  /\ since' = [since EXCEPT ![p] = 0]
  /\ acted' = [acted EXCEPT ![p] = FALSE]
  /\ missed' = [missed EXCEPT ![p] = FALSE]
  /\ UNCHANGED <<source, watcher, program, html, conns, closing>>

\* The connection breaks; the page never opens another one by itself.
Break(p) ==
  /\ linked[p]
  /\ linked' = [linked EXCEPT ![p] = FALSE]
  /\ queue' = [queue EXCEPT ![p] = <<>>]
  /\ UNCHANGED <<source, watcher, program, html, server, loads, doc, shown,
                 acted, answers, since, missed>>

\* The user opens the page or loads it again.
Open(p) == Visit(p)

\* onmessage: the message of type reload reloads the document.
Obey(p) ==
  /\ queue[p] # <<>> /\ Head(queue[p]).type = "reload"
  /\ Visit(p)

Receive(p) ==
  /\ queue[p] # <<>> /\ Head(queue[p]).type = "bindings"
  /\ shown' = [shown EXCEPT ![p] = Head(queue[p]).at]
  /\ queue' = [queue EXCEPT ![p] = Tail(@)]
  /\ UNCHANGED <<source, watcher, program, html, server, loads, linked, doc,
                 acted, answers, since, missed>>

\* POST /api/event: the action changes a binding, which is broadcast; a send
\* that throws ends the broadcast, the recalculation swallows the exception
\* and the answer carries the bindings all the same.
Act(p) ==
  /\ ~Locked /\ p \in Actors /\ doc[p] # 0 /\ now < MaxNow
  /\ now' = now + 1
  /\ \E reached \in SUBSET (conns \ closing) :
       /\ closing \cap conns = {} => reached = conns
       /\ queue' = [q \in Pages |->
                     IF linked[q] /\ Current(q) \in reached
                     THEN Append(queue[q], Bindings(now + 1)) ELSE queue[q]]
       /\ missed' = [q \in Pages |->
                      missed[q] \/ (Connected(q) /\ Current(q) \notin reached)]
  /\ answers' = [answers EXCEPT ![p] = @ \cup {now + 1}]
  /\ acted' = [acted EXCEPT ![p] = TRUE]
  /\ UNCHANGED <<source, watcher, epoch, torn, html, server, loads, linked,
                 doc, shown, since>>

\* Answers travel on connections of their own and arrive in any order.
Answer(p, n) ==
  /\ n \in answers[p]
  /\ shown' = [shown EXCEPT ![p] = n]
  /\ answers' = [answers EXCEPT ![p] = @ \ {n}]
  /\ UNCHANGED <<source, watcher, program, html, server, loads, linked, doc,
                 acted, queue, since, missed>>

Watch == Build \/ Load \/ (\E h \in todo : Tell(h)) \/ Store \/ Scan \/ Poll
Sockets == \E h \in opening \cup conns : OnOpen(h) \/ Closes(h) \/ OnClose(h)
Page(p) ==
  \/ Open(p) \/ Break(p) \/ Obey(p) \/ Receive(p) \/ Act(p)
  \/ \E n \in answers[p] : Answer(p, n)

Next == Save \/ Watch \/ Sockets \/ \E p \in Pages : Page(p)

Spec == Init /\ [][Next]_vars

\* The watcher thread keeps running.  Nothing is assumed of the author, the
\* pages or the network.
FairSpec == Spec /\ WF_vars(Watch)

---------------------------------------------------------------------------
ServerTypes ==
  /\ disk \in 1..(MaxSaves + 1) /\ kind \in Kinds
  /\ pc \in {"build", "load", "misload", "tell", "scan", "poll"}
  /\ started \in BOOLEAN /\ torn \in BOOLEAN
  /\ seen \in Nat /\ attempted \in Nat /\ firstScan \in Nat
  /\ now \in Nat /\ epoch \in Nat /\ html \in Nat
  /\ todo \subseteq conns /\ conns \subseteq Connections
  /\ opening \subseteq Connections /\ closing \subseteq conns

PageTypes ==
  /\ loads \in [Pages -> Nat]
  /\ \A p \in Pages : loads[p] <= MaxLoads[p]
  /\ linked \in [Pages -> BOOLEAN]
  /\ acted \in [Pages -> BOOLEAN] /\ missed \in [Pages -> BOOLEAN]
  /\ doc \in [Pages -> Nat] /\ shown \in [Pages -> Nat]
  /\ since \in [Pages -> Nat]
  /\ answers \in [Pages -> SUBSET Nat]
  /\ queue \in [Pages -> Seq(Messages)]

TypeOK == ServerTypes /\ PageTypes

\* A connection that was open before the current program was loaded has been
\* sent its reload, unless the rebuild was cut short or is still telling.
\* Depends on todo being the connections at the moment of the reload, under
\* the same lock as onOpen and onClose (websocket_server.h:127).
ReloadQueued == \A p \in Pages :
  Connected(p) /\ since[p] # epoch /\ ~torn =>
    Reload(epoch) \in Range(queue[p])

\* A page that only listens ends with the interpreter's bindings: the last
\* message on its way, or what it shows, is the current state, unless it was
\* opened under another program or a send that threw cut it off.
Latest(p) == IF queue[p] = <<>> THEN shown[p] ELSE queue[p][Len(queue[p])].at

ListenersCurrent == \A p \in Pages :
  Connected(p) /\ since[p] = epoch /\ ~acted[p] /\ ~missed[p] =>
    Latest(p) = now

\* Why: the inductive invariant.
IInv ==
  /\ TypeOK /\ ReloadQueued /\ ListenersCurrent
  /\ epoch <= now
  /\ \A h \in conns \cup opening : h[2] <= loads[h[1]]
  /\ ~started => conns \cup opening = {}
  /\ \A p \in Pages :
       /\ since[p] <= epoch
       /\ answers[p] # {} => acted[p]
  /\ pc # "tell" => todo = {}
  /\ pc = "tell" =>
       /\ torn
       /\ \A p \in Pages : Connected(p) /\ since[p] # epoch =>
            Current(p) \in todo \/ Reload(epoch) \in Range(queue[p])
       /\ \A h \in todo : Live(h) => since[h[1]] # epoch

\* A good save is built, or followed by another one.  Only a save between
\* the first build and the first look at the files is taken for old
\* (cmd_serve.cpp:859 and 871).
SavesAreBuilt == \A n \in 1..(MaxSaves + 1) :
  (disk = n /\ kind = "good") ~>
    (disk # n \/ firstScan = n \/ (attempted = n /\ ~Locked))

\* "any saved change re-transpiles, hot-swaps the interpreter, and broadcasts
\* a reload to every connected browser" (README.md:360): a page that obeys
\* shows the program it was told of.
ReloadShowsNewProgram == [][\A p \in Pages :
  Obey(p) => doc'[p] >= Head(queue[p]).at]_vars
=============================================================================
