-------------------------- MODULE LiveServerProofs --------------------------
(***************************************************************************)
(* Proofs about LiveServer, for any number of pages, documents and saves.  *)
(* One lemma per action shows that it preserves IInv.  What carries the    *)
(* argument is that a rebuild tells the connections of the moment under    *)
(* the lock that onOpen and onClose wait for: while it tells, a connection *)
(* of an older program is either still in todo or has its reload queued.   *)
(***************************************************************************)
EXTENDS LiveServer, SequenceTheorems, TLAPS

USE DEF vars, source, watcher, program, server, page, wire, TypeOK

---------------------------------------------------------------------------
(* Queues. *)

\* A message appended comes last and drops no other.
LEMMA AppendKeeps ==
  ASSUME NEW q \in Seq(Messages), NEW m \in Messages
  PROVE  /\ Append(q, m) \in Seq(Messages) /\ Append(q, m) # <<>>
         /\ Append(q, m)[Len(Append(q, m))] = m
         /\ m \in Range(Append(q, m))
         /\ \A x \in Range(q) : x \in Range(Append(q, m))
  BY DEF Range

\* Taking the first message keeps the others, and the last one if any is left.
LEMMA TailKeeps ==
  ASSUME NEW q \in Seq(Messages), q # <<>>
  PROVE  /\ Head(q) \in Messages /\ Tail(q) \in Seq(Messages)
         /\ \A x \in Range(q) : x # Head(q) => x \in Range(Tail(q))
         /\ IF Tail(q) = <<>> THEN q[Len(q)] = Head(q)
            ELSE Tail(q)[Len(Tail(q))] = q[Len(q)]
<1>1. /\ Head(q) \in Messages /\ Tail(q) \in Seq(Messages)
      /\ Head(q) = q[1] /\ Len(Tail(q)) = Len(q) - 1 /\ Len(q) \in Nat \ {0}
      /\ \A i \in 1..(Len(q) - 1) : Tail(q)[i] = q[i + 1]
  OBVIOUS
<1>2. ASSUME NEW x \in Range(q), x # Head(q) PROVE x \in Range(Tail(q))
  <2>1. PICK i \in 1..Len(q) : x = q[i]
    BY DEF Range
  <2>2. i - 1 \in 1..(Len(q) - 1) /\ x = Tail(q)[i - 1]
    BY <1>1, <1>2, <2>1
  <2>3. i - 1 \in DOMAIN Tail(q)
    BY <1>1, <2>2
  <2> QED BY <2>2, <2>3 DEF Range
<1>3. ASSUME Tail(q) = <<>> PROVE Len(q) = 1
  <2>0. Len(<<>>) = 0
    BY EmptySeq
  <2>1. Len(Tail(q)) = 0
    BY <1>3, <2>0, Zenon
  <2>2. 0 = Len(q) - 1 /\ Len(q) \in Nat
    BY <1>1, <2>1, Zenon
  <2> QED BY <2>2
<1>4. Tail(q) # <<>> => Tail(q)[Len(Tail(q))] = q[Len(q)]
  <2>1. Tail(q) # <<>> => Len(Tail(q)) # 0
    BY <1>1
  <2> QED BY <1>1, <2>1
<1> QED BY <1>1, <1>2, <1>3, <1>4

LEMMA MessageFacts ==
  ASSUME NEW n \in Nat
  PROVE  /\ Bindings(n) \in Messages /\ Reload(n) \in Messages
         /\ Bindings(n).at = n /\ Reload(n).at = n
         /\ Bindings(n).type = "bindings" /\ Reload(n).type = "reload"
  BY DEF Bindings, Reload, Messages

---------------------------------------------------------------------------
(* The steps. *)

THEOREM InitIInv == Init => IInv
<1> SUFFICES ASSUME Init PROVE IInv
  OBVIOUS
<1>1. ServerTypes
  <2>1. disk \in 1..(MaxSaves + 1) /\ kind \in Kinds
    BY LiveServerAssumption DEF Init
  <2>2. /\ started \in BOOLEAN /\ torn \in BOOLEAN
       /\ pc \in {"build", "load", "misload", "tell", "scan", "poll"}
    BY LiveServerAssumption DEF Init
  <2>3. /\ seen \in Nat /\ attempted \in Nat /\ firstScan \in Nat
       /\ now \in Nat /\ epoch \in Nat /\ html \in Nat
    BY LiveServerAssumption DEF Init
  <2>4. /\ todo \subseteq conns /\ conns \subseteq Connections
       /\ opening \subseteq Connections /\ closing \subseteq conns
    BY LiveServerAssumption DEF Init
  <2> QED BY <2>1, <2>2, <2>3, <2>4 DEF ServerTypes
<1>2. PageTypes
  BY LiveServerAssumption DEF Init, PageTypes
<1> QED BY <1>1, <1>2 DEF Init, IInv, ReloadQueued, ListenersCurrent, Connected

\* The steps that touch neither the interpreter nor a page.
LEMMA SaveKeeps == ASSUME IInv, Save PROVE IInv'
<1>1. TypeOK'
  BY LiveServerAssumption DEF IInv, ServerTypes, PageTypes, Save
<1> QED BY <1>1 DEF IInv, Save, ReloadQueued, ListenersCurrent, Connected, Current,
             Live, Latest, Reload

LEMMA BuildKeeps == ASSUME IInv, Build PROVE IInv'
<1>0. /\ UNCHANGED <<source, seen, todo, firstScan, program, html, server, page,
                     wire>>
      /\ attempted' = disk
      /\ pc' \in {"load", "misload", "poll", "scan"}
      /\ started' = started \/ started' = TRUE
  BY DEF Build, Rest
<1>1. TypeOK'
  <2>1. ServerTypes'
    <3>1. disk' \in 1..(MaxSaves + 1) /\ kind' \in Kinds
      BY <1>0, LiveServerAssumption DEF IInv, ServerTypes
    <3>2. /\ started' \in BOOLEAN /\ torn' \in BOOLEAN
         /\ pc' \in {"build", "load", "misload", "tell", "scan", "poll"}
      BY <1>0, LiveServerAssumption DEF IInv, ServerTypes
    <3>3. /\ seen' \in Nat /\ attempted' \in Nat /\ firstScan' \in Nat
         /\ now' \in Nat /\ epoch' \in Nat /\ html' \in Nat
      BY <1>0, LiveServerAssumption DEF IInv, ServerTypes
    <3>4. /\ todo' \subseteq conns' /\ conns' \subseteq Connections
         /\ opening' \subseteq Connections /\ closing' \subseteq conns'
      BY <1>0, LiveServerAssumption DEF IInv, ServerTypes
    <3> QED BY <3>1, <3>2, <3>3, <3>4 DEF ServerTypes
  <2>2. PageTypes'
    BY <1>0 DEF IInv, PageTypes
  <2> QED BY <2>1, <2>2
<1>2. pc' # "tell" /\ (started => started')
  BY <1>0
<1> QED BY <1>1, <1>2 DEF IInv, Build, ReloadQueued, ListenersCurrent, Connected, Current,
             Live, Latest, Reload

LEMMA WatchKeeps == ASSUME IInv, Store \/ Scan \/ Poll PROVE IInv'
<1>0. /\ UNCHANGED <<source, todo, attempted, now, epoch, server, page, wire>>
      /\ seen' \in {0, seen, disk} /\ firstScan' \in {firstScan, seen'}
      /\ html' \in {html, epoch} /\ torn' \in {torn, FALSE}
      /\ pc' \in {"poll", "scan", "build"}
      /\ started' = started \/ started' = TRUE
  BY DEF Store, Scan, Poll, Rest
<1>1. TypeOK'
  <2>1. ServerTypes'
    <3>1. disk' \in 1..(MaxSaves + 1) /\ kind' \in Kinds
      BY <1>0, LiveServerAssumption DEF IInv, ServerTypes
    <3>2. /\ started' \in BOOLEAN /\ torn' \in BOOLEAN
         /\ pc' \in {"build", "load", "misload", "tell", "scan", "poll"}
      BY <1>0, LiveServerAssumption DEF IInv, ServerTypes
    <3>3. /\ seen' \in Nat /\ attempted' \in Nat /\ firstScan' \in Nat
         /\ now' \in Nat /\ epoch' \in Nat /\ html' \in Nat
      BY <1>0, LiveServerAssumption DEF IInv, ServerTypes
    <3>4. /\ todo' \subseteq conns' /\ conns' \subseteq Connections
         /\ opening' \subseteq Connections /\ closing' \subseteq conns'
      BY <1>0, LiveServerAssumption DEF IInv, ServerTypes
    <3> QED BY <3>1, <3>2, <3>3, <3>4 DEF ServerTypes
  <2>2. PageTypes'
    BY <1>0 DEF IInv, PageTypes
  <2> QED BY <2>1, <2>2
<1>3. pc' # "tell" /\ (started => started')
  BY <1>0
<1>2. ReloadQueued'
  BY DEF IInv, Store, Scan, Poll, ReloadQueued, Connected, Current, Reload
<1> QED BY <1>1, <1>2, <1>3 DEF IInv, Store, Scan, Poll, ListenersCurrent, Connected,
                 Current, Latest

LEMMA LoadKeeps == ASSUME IInv, Load PROVE IInv'
<1>0. /\ UNCHANGED <<source, seen, attempted, firstScan, html, server, page, wire>>
      /\ now' = now + 1 /\ epoch' = now + 1 /\ torn' = TRUE
      /\ todo' \in {todo, conns, {}}
      /\ pc' \in {"tell", "poll", "scan"}
      /\ started' = started \/ started' = TRUE
  BY DEF Load, Rest
<1>1. TypeOK'
  <2>1. ServerTypes'
    <3>1. disk' \in 1..(MaxSaves + 1) /\ kind' \in Kinds
      BY <1>0 DEF IInv, ServerTypes
    <3>2. /\ started' \in BOOLEAN /\ torn' \in BOOLEAN
         /\ pc' \in {"build", "load", "misload", "tell", "scan", "poll"}
      BY <1>0 DEF IInv, ServerTypes
    <3>3. /\ seen' \in Nat /\ attempted' \in Nat /\ firstScan' \in Nat
         /\ now' \in Nat /\ epoch' \in Nat /\ html' \in Nat
      BY <1>0 DEF IInv, ServerTypes
    <3>4. /\ todo' \subseteq conns' /\ conns' \subseteq Connections
         /\ opening' \subseteq Connections /\ closing' \subseteq conns'
      BY <1>0 DEF IInv, ServerTypes
    <3> QED BY <3>1, <3>2, <3>3, <3>4 DEF ServerTypes
  <2>2. PageTypes'
    BY <1>0 DEF IInv, PageTypes
  <2> QED BY <2>1, <2>2
<1>2. /\ epoch' = now + 1 /\ now' = now + 1 /\ torn'
      /\ UNCHANGED <<server, page, wire>>
  BY DEF Load
<1>3. \A p \in Pages : since[p] # epoch'
  BY <1>2 DEF IInv, ServerTypes, PageTypes
<1>4. ReloadQueued' /\ ListenersCurrent'
  BY <1>2, <1>3 DEF ReloadQueued, ListenersCurrent
<1>5. pc' = "tell" => todo' = IF started THEN conns ELSE {}
  BY DEF Load, Rest
<1>6. ~started' => ~started
  BY DEF IInv, ServerTypes, PageTypes, Load, Rest
<1>7. conns \subseteq {} \/ started
  BY DEF IInv, ServerTypes, PageTypes
<1>8. pc' = "tell" /\ started => \A p \in Pages : Connected(p) => Current(p) \in todo'
  BY <1>5 DEF Connected
<1>9. pc' = "tell" /\ ~started => \A p \in Pages : ~Connected(p)
  BY <1>7 DEF Connected
<1>10. \A h \in todo' : pc' = "tell" => h[1] \in Pages
  BY <1>5, LiveServerAssumption DEF IInv, ServerTypes, Connections
<1>11. /\ epoch' <= now'
       /\ \A p \in Pages : since[p] <= epoch'
  BY <1>2 DEF IInv, ServerTypes, PageTypes
<1>12. pc' = "tell" =>
        /\ \A p \in Pages : Connected(p)' => Current(p)' \in todo'
        /\ \A h \in todo' : since'[h[1]] # epoch'
  BY <1>2, <1>3, <1>8, <1>9, <1>10 DEF Connected, Current
<1>13. pc' # "tell" => todo' = {}
  BY DEF IInv, Load
<1> QED BY <1>1, <1>2, <1>4, <1>6, <1>11, <1>12, <1>13 DEF IInv

LEMMA TellKeeps == ASSUME IInv, NEW h \in todo, Tell(h) PROVE IInv'
<1>0. /\ pc = "tell" /\ torn /\ h \in conns /\ h[1] \in Pages
      /\ UNCHANGED <<now, epoch, torn, server, page, answers, since, missed>>
  BY LiveServerAssumption DEF IInv, ServerTypes, PageTypes, Tell, Connections
<1>1. CASE h \in closing
  <2>1. TypeOK' /\ pc' # "tell" /\ started' /\ queue' = queue /\ todo' = {}
    BY <1>1 DEF IInv, ServerTypes, PageTypes, Tell, Rest
  <2> QED BY <1>0, <2>1 DEF IInv, ReloadQueued, ListenersCurrent, Connected, Current,
                   Latest
<1>2. CASE h \notin closing
  <2>0. /\ todo' = todo \ {h} /\ pc' = pc /\ started' = started
        /\ queue' = [p \in Pages |-> IF Live(h) /\ p = h[1]
                                    THEN Append(queue[p], Reload(epoch))
                                    ELSE queue[p]]
    BY <1>2 DEF Tell
  <2>1. \A p \in Pages : queue[p] \in Seq(Messages) /\ Reload(epoch) \in Messages
    BY MessageFacts DEF IInv, ServerTypes, PageTypes
  <2>2. \A p \in Pages : /\ queue'[p] \in Seq(Messages)
                         /\ \A x \in Range(queue[p]) : x \in Range(queue'[p])
                         /\ Live(h) /\ p = h[1] => Reload(epoch) \in Range(queue'[p])
    BY <2>0, <2>1, AppendKeeps
  <2>3. TypeOK'
    BY <1>0, <2>0, <2>2 DEF IInv, ServerTypes, PageTypes, Tell
  <2>4. ListenersCurrent'
    <3>1. \A p \in Pages : Live(h) /\ p = h[1] => since[p] # epoch
      BY <1>0 DEF IInv
    <3> QED BY <1>0, <2>0, <3>1 DEF IInv, ListenersCurrent, Connected, Current, Latest
  <2>5. \A p \in Pages : Connected(p)' /\ since'[p] # epoch' =>
            Current(p)' \in todo' \/ Reload(epoch)' \in Range(queue'[p])
    <3> SUFFICES ASSUME NEW p \in Pages, Connected(p), since[p] # epoch
                 PROVE  Current(p) \in todo' \/ Reload(epoch) \in Range(queue'[p])
      BY <1>0 DEF Connected, Current, Reload
    <3>1. CASE Current(p) = h
      BY <2>2, <3>1 DEF Live, Connected, Current
    <3>2. CASE Current(p) # h
      BY <1>0, <2>0, <2>2, <3>2 DEF IInv
    <3> QED BY <3>1, <3>2
  <2> QED BY <1>0, <2>0, <2>3, <2>4, <2>5 DEF IInv, ReloadQueued, Live, Current
<1> QED BY <1>1, <1>2

LEMMA OnOpenKeeps == ASSUME IInv, NEW h \in opening, OnOpen(h) PROVE IInv'
<1>0. /\ pc # "tell" /\ h[1] \in Pages /\ conns' = conns \cup {h}
      /\ opening' = opening \ {h}
      /\ UNCHANGED <<source, watcher, program, html, closing, page, answers, missed>>
  BY LiveServerAssumption DEF IInv, ServerTypes, PageTypes, OnOpen, Locked, Connections
<1>1. \A p \in Pages : Live(h) /\ p = h[1] =>
         /\ queue'[p] = Append(queue[p], Bindings(now)) /\ since'[p] = epoch
  BY DEF IInv, ServerTypes, PageTypes, OnOpen
<1>2. \A p \in Pages : ~(Live(h) /\ p = h[1]) =>
         /\ queue'[p] = queue[p] /\ since'[p] = since[p]
         /\ Connected(p)' => Connected(p)
  <2> SUFFICES ASSUME NEW p \in Pages, ~(Live(h) /\ p = h[1])
               PROVE  /\ queue'[p] = queue[p] /\ since'[p] = since[p]
                      /\ Connected(p)' => Connected(p)
    OBVIOUS
  <2>1. queue'[p] = queue[p] /\ since'[p] = since[p]
    BY DEF IInv, PageTypes, OnOpen
  <2>2. linked[p] => Current(p) # h
    BY DEF Live, Current
  <2> QED BY <1>0, <2>1, <2>2 DEF Connected, Current
<1>3. \A p \in Pages : queue[p] \in Seq(Messages) /\ Bindings(now) \in Messages
  BY MessageFacts DEF IInv, ServerTypes, PageTypes
<1>4. TypeOK'
  <2>1. ServerTypes'
    BY <1>0 DEF IInv, ServerTypes
  <2>2. since' \in [Pages -> Nat]
    BY DEF IInv, ServerTypes, PageTypes, OnOpen
  <2>3. queue' \in [Pages -> Seq(Messages)]
    <3>1. CASE Live(h)
      <4>1. queue' = [queue EXCEPT ![h[1]] = Append(@, Bindings(now))]
        BY <3>1 DEF OnOpen
      <4>2. Append(queue[h[1]], Bindings(now)) \in Seq(Messages)
        BY <1>0, <1>3
      <4> QED BY <4>1, <4>2 DEF IInv, PageTypes
    <3>2. CASE ~Live(h)
      BY <3>2 DEF IInv, PageTypes, OnOpen
    <3> QED BY <3>1, <3>2
  <2>4. PageTypes'
    BY <1>0, <2>2, <2>3 DEF IInv, PageTypes
  <2> QED BY <2>1, <2>4
<1>7. \A p \in Pages : since'[p] <= epoch
  BY <1>1, <1>2 DEF IInv, ServerTypes
<1>5. ReloadQueued'
  BY <1>0, <1>1, <1>2 DEF IInv, ReloadQueued, Reload
<1>6. ListenersCurrent'
  <2> SUFFICES ASSUME NEW p \in Pages, Connected(p)', since'[p] = epoch,
                      ~acted[p], ~missed[p]
               PROVE  Latest(p)' = now
    BY <1>0 DEF ListenersCurrent
  <2>1. CASE Live(h) /\ p = h[1]
    BY <1>0, <1>1, <1>3, <2>1, AppendKeeps, MessageFacts DEF Latest, IInv, ServerTypes, PageTypes
  <2>2. CASE ~(Live(h) /\ p = h[1])
    BY <1>0, <1>2, <2>2 DEF Latest, IInv, ListenersCurrent
  <2> QED BY <2>1, <2>2
<1> QED BY <1>0, <1>4, <1>5, <1>6, <1>7 DEF IInv

LEMMA CloseKeeps ==
  ASSUME IInv, NEW h \in conns, Closes(h) \/ OnClose(h) PROVE IInv'
<1>0. /\ conns' \subseteq conns /\ opening' = opening
      /\ UNCHANGED <<source, watcher, program, html, page, wire>>
  BY DEF Closes, OnClose
<1>1. TypeOK'
  <2>1. ServerTypes'
    <3>1. disk' \in 1..(MaxSaves + 1) /\ kind' \in Kinds
      BY <1>0 DEF IInv, ServerTypes
    <3>2. /\ started' \in BOOLEAN /\ torn' \in BOOLEAN
         /\ pc' \in {"build", "load", "misload", "tell", "scan", "poll"}
      BY <1>0 DEF IInv, ServerTypes
    <3>3. /\ seen' \in Nat /\ attempted' \in Nat /\ firstScan' \in Nat
         /\ now' \in Nat /\ epoch' \in Nat /\ html' \in Nat
      BY <1>0 DEF IInv, ServerTypes
    <3>4. /\ todo' \subseteq conns' /\ conns' \subseteq Connections
         /\ opening' \subseteq Connections
      <4>1. CASE Closes(h)
        BY <1>0, <4>1 DEF IInv, ServerTypes, Closes
      <4>2. CASE OnClose(h)
        BY <1>0, <4>2 DEF IInv, ServerTypes, OnClose, Locked
      <4> QED BY <4>1, <4>2
    <3>5. closing' \subseteq conns'
      BY DEF IInv, ServerTypes, Closes, OnClose
    <3> QED BY <3>1, <3>2, <3>3, <3>4, <3>5 DEF ServerTypes
  <2>2. PageTypes'
    BY <1>0 DEF IInv, PageTypes
  <2> QED BY <2>1, <2>2
<1>2. \A p \in Pages : Connected(p)' => Connected(p)
  BY <1>0 DEF Connected, Current
<1> QED BY <1>0, <1>1, <1>2 DEF IInv, ReloadQueued, ListenersCurrent, Current, Live,
                     Latest, Reload

LEMMA VisitKeeps == ASSUME IInv, NEW p \in Pages, Visit(p) PROVE IInv'
<1>0. /\ started /\ loads[p] < MaxLoads[p]
      /\ loads' = [loads EXCEPT ![p] = @ + 1]
      /\ UNCHANGED <<source, watcher, program, html, conns, closing>>
  BY DEF Visit
<1>1. opening' \subseteq opening \cup {<<p, loads[p] + 1>>}
  BY DEF Visit
<1>2. TypeOK'
  <2>1. <<p, loads[p] + 1>> \in Connections
    <3>1. loads[p] \in Nat /\ MaxLoads[p] \in Nat
      BY LiveServerAssumption DEF IInv, PageTypes
    <3>2. loads[p] + 1 \in 1..MaxLoads[p]
      BY <1>0, <3>1
    <3> QED BY <3>2 DEF Connections
  <2>2. opening' \subseteq Connections
    BY <1>1, <2>1 DEF IInv, ServerTypes, PageTypes
  <2>3. /\ loads' \in [Pages -> Nat] /\ \A q \in Pages : loads'[q] <= MaxLoads[q]
    <3>1. loads \in [Pages -> Nat] /\ MaxLoads \in [Pages -> Nat]
      BY LiveServerAssumption DEF IInv, PageTypes
    <3>2. \A q \in Pages : loads[q] <= MaxLoads[q]
      BY DEF IInv, PageTypes
    <3> QED BY <1>0, <3>1, <3>2
  <2>4. linked' \in [Pages -> BOOLEAN]
    BY DEF IInv, ServerTypes, PageTypes, Visit
  <2>5. /\ acted' \in [Pages -> BOOLEAN] /\ missed' \in [Pages -> BOOLEAN]
        /\ doc' \in [Pages -> Nat] /\ shown' \in [Pages -> Nat]
        /\ since' \in [Pages -> Nat]
    BY DEF IInv, ServerTypes, PageTypes, Visit
  <2>6. queue' \in [Pages -> Seq(Messages)] /\ answers' \in [Pages -> SUBSET Nat]
    BY DEF IInv, ServerTypes, PageTypes, Visit
  <2> QED BY <1>0, <2>2, <2>3, <2>4, <2>5, <2>6 DEF IInv, ServerTypes, PageTypes
<1>3. ~Connected(p)' /\ \A h \in conns : h[1] = p => ~Live(h)'
  <2>1. \A h \in conns : h[1] = p => h # <<p, loads'[p]>>
    BY <1>0 DEF IInv, ServerTypes, PageTypes
  <2>2. <<p, loads'[p]>>[1] = p
    OBVIOUS
  <2> QED BY <1>0, <2>1, <2>2 DEF Connected, Current, Live
<1>4. \A q \in Pages : q # p =>
         /\ loads'[q] = loads[q] /\ linked'[q] = linked[q] /\ shown'[q] = shown[q]
         /\ queue'[q] = queue[q] /\ since'[q] = since[q] /\ acted'[q] = acted[q]
         /\ answers'[q] = answers[q] /\ missed'[q] = missed[q]
  BY DEF IInv, ServerTypes, PageTypes, Visit
<1>5. since'[p] = 0 /\ answers'[p] = {}
  BY DEF IInv, ServerTypes, PageTypes, Visit
<1>6. \A h \in conns' \cup opening' : h[2] <= loads'[h[1]]
  <2>1. \A q \in Pages : loads[q] <= loads'[q]
    BY <1>0 DEF IInv, ServerTypes, PageTypes
  <2>2. <<p, loads[p] + 1>>[2] <= loads'[<<p, loads[p] + 1>>[1]]
    BY <1>0 DEF IInv, ServerTypes, PageTypes
  <2>3. \A h \in conns \cup opening : h[1] \in Pages /\ h[2] \in Nat
    BY LiveServerAssumption DEF IInv, ServerTypes, PageTypes, Connections
  <2>4. \A h \in conns \cup opening : h[2] <= loads'[h[1]]
    <3> SUFFICES ASSUME NEW h \in conns \cup opening PROVE h[2] <= loads'[h[1]]
      OBVIOUS
    <3>1. h[1] \in Pages /\ h[2] \in Nat /\ h[2] <= loads[h[1]]
      BY <2>3 DEF IInv
    <3>2. loads[h[1]] \in Nat /\ loads'[h[1]] \in Nat
      BY <1>2, <3>1 DEF IInv, PageTypes
    <3> QED BY <2>1, <3>1, <3>2
  <2> QED BY <1>0, <1>1, <2>2, <2>4
<1>7. ReloadQueued' /\ ListenersCurrent'
  BY <1>0, <1>3, <1>4 DEF IInv, ReloadQueued, ListenersCurrent, Connected, Current,
                          Latest, Reload
<1>8. pc' = "tell" =>
        /\ \A q \in Pages : Connected(q)' /\ since'[q] # epoch' =>
             Current(q)' \in todo' \/ Reload(epoch)' \in Range(queue'[q])
        /\ \A h \in todo' : Live(h)' => since'[h[1]] # epoch'
  <2>1. \A h \in todo : h \in conns /\ h[1] \in Pages
    BY LiveServerAssumption DEF IInv, ServerTypes, PageTypes, Connections
  <2>2. \A q \in Pages : q # p => /\ Connected(q)' = Connected(q)
                                  /\ Current(q)' = Current(q)
    BY <1>0, <1>4 DEF Connected, Current
  <2>3. \A h \in todo : h[1] # p => Live(h)' = Live(h)
    BY <1>4, <2>1 DEF Live, Current
  <2>4. ASSUME pc' = "tell", NEW q \in Pages, Connected(q)', since'[q] # epoch'
        PROVE  Current(q)' \in todo' \/ Reload(epoch)' \in Range(queue'[q])
    <3>1. q # p
      BY <1>3, <2>4
    <3> QED BY <1>0, <1>4, <2>2, <2>4, <3>1 DEF IInv, Reload
  <2>5. ASSUME pc' = "tell", NEW h \in todo', Live(h)' PROVE since'[h[1]] # epoch'
    <3>1. h \in todo /\ h[1] # p
      BY <1>0, <1>3, <2>1, <2>5
    <3> QED BY <1>0, <1>4, <2>1, <2>3, <2>5, <3>1 DEF IInv
  <2> QED BY <2>4, <2>5
<1>9. \A q \in Pages : since'[q] <= epoch' /\ (answers'[q] # {} => acted'[q])
  <2>1. epoch \in Nat
    BY DEF IInv, ServerTypes
  <2> QED BY <1>0, <1>4, <1>5, <2>1 DEF IInv
<1>10. epoch' <= now' /\ (pc' = "tell" => torn') /\ started'
       /\ (pc' # "tell" => todo' = {})
  BY <1>0 DEF IInv
<1> QED BY <1>2, <1>6, <1>7, <1>8, <1>9, <1>10 DEF IInv

LEMMA BreakKeeps == ASSUME IInv, NEW p \in Pages, Break(p) PROVE IInv'
<1>1. TypeOK'
  BY DEF IInv, ServerTypes, PageTypes, Break
<1>2. \A q \in Pages : /\ Connected(q)' => Connected(q) /\ q # p
                       /\ q # p => queue'[q] = queue[q]
  BY DEF IInv, ServerTypes, PageTypes, Break, Connected, Current
<1>3. \A h \in todo : h[1] \in Pages /\ (Live(h)' => Live(h))
  <2>1. \A h \in todo : h[1] \in Pages
    BY LiveServerAssumption DEF IInv, ServerTypes, Connections
  <2>2. \A q \in Pages : (linked'[q] => linked[q]) /\ loads'[q] = loads[q]
    BY DEF IInv, PageTypes, Break
  <2> QED BY <2>1, <2>2 DEF Live, Current
<1> QED BY <1>1, <1>2, <1>3 DEF IInv, Break, ReloadQueued, ListenersCurrent, Current,
                     Latest, Reload

LEMMA ReceiveKeeps == ASSUME IInv, NEW p \in Pages, Receive(p) PROVE IInv'
<1>0. /\ queue[p] # <<>> /\ Head(queue[p]).type = "bindings"
      /\ UNCHANGED <<source, watcher, program, html, server, loads, linked, doc,
                     acted, answers, since, missed>>
  BY DEF Receive
<1>1. /\ queue[p] \in Seq(Messages) /\ epoch \in Nat
      /\ queue'[p] = Tail(queue[p]) /\ shown'[p] = Head(queue[p]).at
      /\ \A q \in Pages : q # p => queue'[q] = queue[q] /\ shown'[q] = shown[q]
  BY DEF IInv, ServerTypes, PageTypes, Receive
<1>2. Head(queue[p]) \in Messages /\ Tail(queue[p]) \in Seq(Messages)
  BY <1>0, <1>1, TailKeeps
<1>3. TypeOK'
  BY <1>0, <1>2 DEF IInv, ServerTypes, PageTypes, Receive, Messages
<1>4. \A q \in Pages : Reload(epoch) \in Range(queue[q]) => Reload(epoch) \in Range(queue'[q])
  <2>1. Reload(epoch) # Head(queue[p])
    BY <1>0, <1>1, MessageFacts
  <2> QED BY <1>0, <1>1, <2>1, TailKeeps
<1>5. \A q \in Pages : Latest(q)' = Latest(q)
  <2>1. CASE Tail(queue[p]) = <<>>
    BY <1>0, <1>1, <2>1, TailKeeps DEF Latest
  <2>2. CASE Tail(queue[p]) # <<>>
    <3>1. Tail(queue[p])[Len(Tail(queue[p]))] = queue[p][Len(queue[p])]
      BY <1>0, <1>1, <2>2, TailKeeps
    <3> QED BY <1>0, <1>1, <2>2, <3>1 DEF Latest
  <2> QED BY <2>1, <2>2 DEF Latest
<1> QED BY <1>0, <1>3, <1>4, <1>5 DEF IInv, ReloadQueued, ListenersCurrent, Connected,
                          Current, Live, Reload

LEMMA ActKeeps == ASSUME IInv, NEW p \in Pages, Act(p) PROVE IInv'
<1>0. /\ pc # "tell" /\ now' = now + 1
      /\ acted' = [acted EXCEPT ![p] = TRUE]
      /\ answers' = [answers EXCEPT ![p] = @ \cup {now + 1}]
      /\ UNCHANGED <<source, watcher, epoch, torn, html, server, loads, linked,
                     doc, shown, since>>
  BY DEF Act, Locked
<1>1. PICK reached \in SUBSET (conns \ closing) :
       /\ queue' = [q \in Pages |->
                     IF linked[q] /\ Current(q) \in reached
                     THEN Append(queue[q], Bindings(now + 1)) ELSE queue[q]]
       /\ missed' = [q \in Pages |->
                      missed[q] \/ (Connected(q) /\ Current(q) \notin reached)]
  BY DEF Act
<1>2. \A q \in Pages : queue[q] \in Seq(Messages) /\ now + 1 \in Nat
                       /\ Bindings(now + 1) \in Messages
                       /\ Bindings(now + 1).at = now + 1
  BY MessageFacts DEF IInv, ServerTypes, PageTypes
<1>3. \A q \in Pages : /\ queue'[q] \in Seq(Messages)
                       /\ \A x \in Range(queue[q]) : x \in Range(queue'[q])
  BY <1>1, <1>2, AppendKeeps
<1>4. TypeOK'
  <2>1. missed' \in [Pages -> BOOLEAN]
    BY <1>1 DEF IInv, ServerTypes, PageTypes
  <2>2. queue' \in [Pages -> Seq(Messages)]
    BY <1>1, <1>3
  <2>3. acted' \in [Pages -> BOOLEAN] /\ answers' \in [Pages -> SUBSET Nat]
    BY <1>0, <1>2 DEF IInv, ServerTypes, PageTypes
  <2> QED BY <1>0, <1>2, <2>1, <2>2, <2>3 DEF IInv, ServerTypes, PageTypes
<1>5. ReloadQueued'
  BY <1>0, <1>3 DEF IInv, ReloadQueued, Connected, Current, Reload
<1>6. ListenersCurrent'
  <2> SUFFICES ASSUME NEW q \in Pages, Connected(q)', ~missed'[q]
               PROVE  Latest(q)' = now'
    BY DEF ListenersCurrent
  <2>1. Connected(q)
    BY <1>0 DEF Connected, Current
  <2>2. linked[q] /\ Current(q) \in reached
    BY <1>1, <2>1 DEF Connected
  <2>3. queue'[q] = Append(queue[q], Bindings(now + 1))
    BY <1>1, <2>2
  <2> QED BY <1>0, <1>2, <2>3, AppendKeeps DEF Latest
<1>7. \A q \in Pages : answers'[q] # {} => acted'[q]
  BY <1>0 DEF IInv, ServerTypes, PageTypes
<1> QED BY <1>0, <1>4, <1>5, <1>6, <1>7 DEF IInv, ServerTypes, PageTypes

LEMMA AnswerKeeps ==
  ASSUME IInv, NEW p \in Pages, NEW n \in answers[p], Answer(p, n) PROVE IInv'
<1>1. TypeOK' /\ acted[p]
  BY DEF IInv, ServerTypes, PageTypes, Answer
<1>2. \A q \in Pages : q # p => shown'[q] = shown[q] /\ answers'[q] = answers[q]
  BY DEF IInv, ServerTypes, PageTypes, Answer
<1>3. ListenersCurrent'
  BY <1>1, <1>2 DEF IInv, Answer, ListenersCurrent, Connected, Current, Latest
<1> QED BY <1>1, <1>2, <1>3 DEF IInv, Answer, ReloadQueued, Connected, Current, Live,
                     Reload

\* Every step of server, watcher, author or page.
LEMMA StepKeeps == IInv /\ [Next]_vars => IInv'
<1> SUFFICES ASSUME IInv, [Next]_vars PROVE IInv'
  OBVIOUS
<1>1. CASE Save
  BY <1>1, SaveKeeps
<1>2. CASE Watch
  BY <1>2, BuildKeeps, LoadKeeps, TellKeeps, WatchKeeps DEF Watch
<1>3. CASE Sockets
  <2>1. PICK h \in opening \cup conns : OnOpen(h) \/ Closes(h) \/ OnClose(h)
    BY <1>3 DEF Sockets
  <2>2. CASE OnOpen(h)
    BY <2>2, OnOpenKeeps DEF OnOpen
  <2>3. CASE Closes(h) \/ OnClose(h)
    <3>1. h \in conns
      BY <2>3 DEF IInv, ServerTypes, PageTypes, Closes, OnClose
    <3> QED BY <2>3, <3>1, CloseKeeps
  <2> QED BY <2>1, <2>2, <2>3
<1>4. ASSUME NEW p \in Pages, Page(p) PROVE IInv'
  BY <1>4, VisitKeeps, BreakKeeps, ReceiveKeeps, ActKeeps, AnswerKeeps
  DEF Page, Open, Obey
<1>5. CASE UNCHANGED vars
  BY <1>5 DEF IInv, ServerTypes, PageTypes, ReloadQueued, ListenersCurrent, Connected, Current, Live,
              Latest, Reload
<1> QED BY <1>1, <1>2, <1>3, <1>4, <1>5 DEF Next

---------------------------------------------------------------------------
(* The results. *)

\* IInv holds of every state of every server and its pages
\* (src/cli/cmd_serve.cpp:839, src/include/jtml/websocket_server.h:127).
THEOREM Inductive == Spec => []IInv
  BY InitIInv, StepKeeps, PTL DEF Spec

\* Unless its rebuild was cut short, a program's reload is on its way to every
\* connection that was open before it (src/src/interpreter.cpp:629).
THEOREM ReloadReaches == Spec => []ReloadQueued
<1>1. IInv => ReloadQueued
  BY DEF IInv
<1> QED BY <1>1, Inductive, PTL

\* A page that only listens ends with the interpreter's bindings
\* (src/include/jtml/websocket_server.h:143, src/src/interpreter.cpp:2465).
THEOREM ListenersFollow == Spec => []ListenersCurrent
<1>1. IInv => ListenersCurrent
  BY DEF IInv
<1> QED BY <1>1, Inductive, PTL
=============================================================================
