------------------------- MODULE FetchRuntimeProofs -------------------------
(***************************************************************************)
(* Proofs about FetchRuntime, for every set of bindings and events and     *)
(* every number of retries and of requests in flight: the inductive        *)
(* invariant IInv, and from it the honesty of the fetch states, the end of *)
(* the loading state, the promise of `stale keep` without overlap, and     *)
(* what the invalidations of an event achieve.                             *)
(***************************************************************************)
EXTENDS FetchRuntime, TLAPS

-----------------------------------------------------------------------------
(* The two ways a binding changes.                                         *)

LEMMA SlotIsFree ==
  ASSUME NEW n \in Names, FreeSlots(n) # {}
  PROVE  SlotFor(n) \in Slots /\ flight[n][SlotFor(n)] = Free
  <1>1. SlotFor(n) \in FreeSlots(n)
    BY DEF SlotFor
  <1> QED
    BY <1>1 DEF FreeSlots

LEMMA TargetType ==
  ASSUME NEW n \in Names, NEW p \in Params
  PROVE  Target(n, p) \in Params
  BY BindingsAssumption DEF Target

LEMMA StartedTypes ==
  ASSUME TypeOK, NEW n \in Names, NEW p \in Params
  PROVE  Loading(n, p) \in Binding /\ NewRequest(n, p) \in Request
  <1>1. state[n] \in Binding
    BY DEF TypeOK
  <1>2. /\ state[n].data \in Payload \cup {NoData}
        /\ state[n].hasData \in BOOLEAN
    BY <1>1 DEF Binding
  <1>3. Target(n, p) \in Params
    BY TargetType
  <1>4. /\ KeptData(n, state[n].data) \in Payload \cup {NoData}
        /\ KeptFlag(n, state[n].hasData) \in BOOLEAN
    BY <1>2 DEF KeptData, KeptFlag
  <1>5. Loading(n, p) \in Binding
    BY <1>3, <1>4 DEF Loading, Binding
  <1>6. version \in Versions /\ 0 \in 0..Retries
    BY NumbersAssumption DEF TypeOK
  <1>7. NewRequest(n, p) \in Request
    BY <1>2, <1>3, <1>6 DEF NewRequest, Request
  <1> QED
    BY <1>5, <1>7

LEMMA LoadingFields ==
  ASSUME NEW n, NEW p
  PROVE  /\ Loading(n, p).loading = TRUE /\ Loading(n, p).ok = FALSE
         /\ Loading(n, p).data = KeptData(n, state[n].data)
         /\ Loading(n, p).stale = KeptFlag(n, state[n].hasData)
         /\ Loading(n, p).hasData = KeptFlag(n, state[n].hasData)
  BY DEF Loading

\* What Start changes, binding by binding.
LEMMA StartFacts ==
  ASSUME TypeOK, NEW ns \in SUBSET Names, NEW p \in Params, Start(ns, p)
  PROVE  /\ state' \in [Names -> Binding]
         /\ flight' \in [Names -> [Slots -> Request \cup {Free}]]
         /\ overlapped' \in [Names -> BOOLEAN]
         /\ \A n \in Names \ ns :
              /\ state'[n] = state[n] /\ flight'[n] = flight[n]
              /\ overlapped'[n] = overlapped[n]
         /\ \A n \in ns :
              /\ SlotFor(n) \in Slots /\ flight[n][SlotFor(n)] = Free
              /\ state'[n] = Loading(n, p)
              /\ flight'[n] = [flight[n] EXCEPT ![SlotFor(n)] = NewRequest(n, p)]
              /\ flight'[n][SlotFor(n)] = NewRequest(n, p)
              /\ flight'[n][SlotFor(n)] # Free
              /\ overlapped'[n] = (overlapped[n] \/ InFlight(n))
         /\ \A n \in Names, i \in Slots :
              flight[n][i] # Free => flight'[n][i] = flight[n][i]
  <1>1. \A n \in ns : SlotFor(n) \in Slots /\ flight[n][SlotFor(n)] = Free
    BY SlotIsFree DEF Start
  <1>2. \A n \in Names : Loading(n, p) \in Binding /\ NewRequest(n, p) \in Request
    BY StartedTypes
  <1>3. /\ state' = [n \in Names |-> IF n \in ns THEN Loading(n, p) ELSE state[n]]
        /\ flight' = [n \in Names |->
             IF n \in ns THEN [flight[n] EXCEPT ![SlotFor(n)] = NewRequest(n, p)]
                         ELSE flight[n]]
        /\ overlapped' =
             [n \in Names |-> overlapped[n] \/ (n \in ns /\ InFlight(n))]
    BY DEF Start
  <1>4. /\ state \in [Names -> Binding]
        /\ flight \in [Names -> [Slots -> Request \cup {Free}]]
        /\ overlapped \in [Names -> BOOLEAN]
    BY DEF TypeOK
  <1>5. state' \in [Names -> Binding] /\ overlapped' \in [Names -> BOOLEAN]
    BY <1>2, <1>3, <1>4
  <1>6. \A n \in Names : flight'[n] \in [Slots -> Request \cup {Free}]
    BY <1>1, <1>2, <1>3, <1>4
  <1>7. flight' \in [Names -> [Slots -> Request \cup {Free}]]
    BY <1>3, <1>6
  <1>8. \A n \in Names \ ns :
          /\ state'[n] = state[n] /\ flight'[n] = flight[n]
          /\ overlapped'[n] = overlapped[n]
    BY <1>3, <1>4
  <1>9. \A n \in ns :
          /\ state'[n] = Loading(n, p)
          /\ flight'[n] = [flight[n] EXCEPT ![SlotFor(n)] = NewRequest(n, p)]
          /\ overlapped'[n] = (overlapped[n] \/ InFlight(n))
    BY <1>3, <1>4
  <1>10. \A n \in ns : /\ flight'[n][SlotFor(n)] = NewRequest(n, p)
                       /\ flight'[n][SlotFor(n)] # Free
    <2> SUFFICES ASSUME NEW n \in ns
                 PROVE  /\ flight'[n][SlotFor(n)] = NewRequest(n, p)
                        /\ flight'[n][SlotFor(n)] # Free
      OBVIOUS
    <2>1. flight[n] \in [Slots -> Request \cup {Free}] /\ SlotFor(n) \in Slots
      BY <1>1, <1>4
    <2>2. flight'[n] = [flight[n] EXCEPT ![SlotFor(n)] = NewRequest(n, p)]
      BY <1>9
    <2>3. flight'[n][SlotFor(n)] = NewRequest(n, p)
      BY <2>1, <2>2
    <2> QED
      BY <1>2, <2>3, SentinelsAssumption
  <1>11. \A n \in Names, i \in Slots :
           flight[n][i] # Free => flight'[n][i] = flight[n][i]
    <2> SUFFICES ASSUME NEW n \in Names, NEW i \in Slots, flight[n][i] # Free
                 PROVE  flight'[n][i] = flight[n][i]
      OBVIOUS
    <2>1. CASE n \notin ns
      BY <1>8, <2>1
    <2>2. CASE n \in ns
      <3>1. flight[n] \in [Slots -> Request \cup {Free}]
        BY <1>4
      <3>2. flight'[n] = [flight[n] EXCEPT ![SlotFor(n)] = NewRequest(n, p)]
        BY <1>9, <2>2
      <3>3. i # SlotFor(n)
        BY <1>1, <2>2
      <3> QED
        BY <3>1, <3>2, <3>3
    <2> QED
      BY <2>1, <2>2
  <1> QED
    BY <1>1, <1>5, <1>7, <1>8, <1>9, <1>10, <1>11

\* What Finish changes: one binding and one slot.
LEMMA FinishFacts ==
  ASSUME TypeOK, NEW n \in Names, NEW i \in Slots, NEW s \in Binding,
         flight[n][i] # Free, Finish(n, i, s)
  PROVE  /\ state' \in [Names -> Binding]
         /\ flight' \in [Names -> [Slots -> Request \cup {Free}]]
         /\ event' \in [Events -> Event]
         /\ completed' \in [Names -> Versions]
         /\ state'[n] = s /\ flight'[n][i] = Free
         /\ \A m \in Names, j \in Slots :
              <<m, j>> # <<n, i>> => flight'[m][j] = flight[m][j]
         /\ \A m \in Names \ {n} : /\ state'[m] = state[m]
                                   /\ flight'[m] = flight[m]
                                   /\ completed'[m] = completed[m]
         /\ completed'[n] >= completed[n]
         /\ completed'[n] >= flight[n][i].since
         /\ completed'[n] \in {completed[n], flight[n][i].since}
         /\ \A e \in Events :
              event'[e] = IF event[e].waits = <<n, i>>
                          THEN [event[e] EXCEPT !.waits = NoWait] ELSE event[e]
  <1>1. /\ state \in [Names -> Binding]
        /\ flight \in [Names -> [Slots -> Request \cup {Free}]]
        /\ event \in [Events -> Event]
        /\ completed \in [Names -> Versions]
    BY DEF TypeOK
  <1>2. flight[n][i] \in Request /\ flight[n][i].since \in Versions
    BY <1>1 DEF Request
  <1>3. /\ state' = [state EXCEPT ![n] = s]
        /\ flight' = [flight EXCEPT ![n][i] = Free]
        /\ event' = [e \in Events |->
             IF event[e].waits = <<n, i>>
             THEN [event[e] EXCEPT !.waits = NoWait] ELSE event[e]]
        /\ completed' = [completed EXCEPT ![n] =
             IF flight[n][i].since > @ THEN flight[n][i].since ELSE @]
    BY DEF Finish, Resume
  <1>4. \A e \in Events : [event[e] EXCEPT !.waits = NoWait] \in Event
    BY <1>1 DEF Event
  <1>5. event' \in [Events -> Event]
    BY <1>1, <1>3, <1>4
  <1>6. \A m \in Names : completed[m] \in Int
    BY <1>1 DEF Versions
  <1>7. /\ completed' \in [Names -> Versions]
        /\ completed'[n] >= completed[n]
        /\ completed'[n] >= flight[n][i].since
        /\ completed'[n] \in {completed[n], flight[n][i].since}
    BY <1>1, <1>2, <1>3, <1>6 DEF Versions
  <1>8. /\ state' \in [Names -> Binding]
        /\ flight' \in [Names -> [Slots -> Request \cup {Free}]]
        /\ state'[n] = s /\ flight'[n][i] = Free
    BY <1>1, <1>3
  <1>9. \A m \in Names, j \in Slots :
          <<m, j>> # <<n, i>> => flight'[m][j] = flight[m][j]
    BY <1>1, <1>3
  <1>10. \A m \in Names \ {n} : /\ state'[m] = state[m]
                                /\ flight'[m] = flight[m]
                                /\ completed'[m] = completed[m]
    BY <1>1, <1>3
  <1> QED
    BY <1>3, <1>5, <1>7, <1>8, <1>9, <1>10

-----------------------------------------------------------------------------
(* The invariant of the bindings is preserved by the three kinds of steps. *)

BindingsInv ==
  /\ FreshDataIsCurrent /\ LoadingIsInFlight /\ LatestSuccessKept
  /\ CaptureInv /\ VersionInv

\* Steps that start no request and end none.
LEMMA QuietStep ==
  ASSUME BindingsInv, TypeOK, TypeOK', version' >= version,
         UNCHANGED <<state, lastOk, overlapped, completed>>,
         \A n \in Names, i \in Slots :
           /\ flight'[n][i] = Free <=> flight[n][i] = Free
           /\ flight[n][i] # Free =>
                /\ flight'[n][i].hasData = flight[n][i].hasData
                /\ flight'[n][i].data = flight[n][i].data
                /\ flight'[n][i].since = flight[n][i].since
  PROVE  BindingsInv'
  <1>1. FreshDataIsCurrent'
    BY DEF BindingsInv, FreshDataIsCurrent
  <1>2. LoadingIsInFlight'
    BY DEF BindingsInv, LoadingIsInFlight, InFlight, FreeSlots
  <1>3. LatestSuccessKept'
    BY DEF BindingsInv, LatestSuccessKept
  <1>4. \A n \in Names, i \in Slots :
          flight[n][i] # Free => flight[n][i].since \in Nat
    <2>1. flight \in [Names -> [Slots -> Request \cup {Free}]]
      BY DEF TypeOK
    <2> QED
      BY <2>1, NumbersAssumption DEF Request, Versions
  <1>5. version \in Nat /\ version' \in Nat
    BY NumbersAssumption DEF TypeOK, Versions
  <1>6. CaptureInv'
    BY <1>4, <1>5 DEF BindingsInv, CaptureInv
  <1>7. \A n \in Names : completed[n] \in Nat
    BY NumbersAssumption DEF TypeOK, Versions
  <1>8. VersionInv'
    BY <1>5, <1>7 DEF BindingsInv, VersionInv
  <1> QED
    BY <1>1, <1>2, <1>3, <1>6, <1>8 DEF BindingsInv

\* Steps that start requests.
LEMMA StartStep ==
  ASSUME BindingsInv, TypeOK, NEW ns \in SUBSET Names, NEW p \in Params,
         Start(ns, p), version' = version, lastOk' = lastOk, completed' = completed
  PROVE  BindingsInv'
  <1>0. /\ state' \in [Names -> Binding]
        /\ flight' \in [Names -> [Slots -> Request \cup {Free}]]
        /\ overlapped' \in [Names -> BOOLEAN]
        /\ \A n \in Names \ ns :
             /\ state'[n] = state[n] /\ flight'[n] = flight[n]
             /\ overlapped'[n] = overlapped[n]
        /\ \A n \in ns :
             /\ SlotFor(n) \in Slots /\ flight[n][SlotFor(n)] = Free
             /\ state'[n] = Loading(n, p)
             /\ flight'[n] = [flight[n] EXCEPT ![SlotFor(n)] = NewRequest(n, p)]
             /\ flight'[n][SlotFor(n)] = NewRequest(n, p)
             /\ flight'[n][SlotFor(n)] # Free
             /\ overlapped'[n] = (overlapped[n] \/ InFlight(n))
        /\ \A n \in Names, i \in Slots :
             flight[n][i] # Free => flight'[n][i] = flight[n][i]
    BY StartFacts
  <1>1. FreshDataIsCurrent'
    <2> SUFFICES ASSUME NEW n \in Names PROVE
          /\ state'[n].hasData <=> state'[n].data # NoData
          /\ state'[n].hasData /\ ~state'[n].stale =>
               state'[n].ok /\ state'[n].data.target = state'[n].target
          /\ state'[n].stale => state'[n].hasData /\ ~state'[n].ok
      BY DEF FreshDataIsCurrent
    <2>1. state[n].hasData <=> state[n].data # NoData
      BY DEF BindingsInv, FreshDataIsCurrent
    <2>2. CASE n \notin ns
      BY <1>0, <2>2 DEF BindingsInv, FreshDataIsCurrent
    <2>3. CASE n \in ns
      <3>1. state'[n] = Loading(n, p)
        BY <1>0, <2>3
      <3>2. /\ state'[n].data = KeptData(n, state[n].data)
            /\ state'[n].stale = KeptFlag(n, state[n].hasData)
            /\ state'[n].hasData = KeptFlag(n, state[n].hasData)
            /\ state'[n].ok = FALSE
        BY <3>1, LoadingFields
      <3> QED
        BY <2>1, <3>2 DEF KeptData, KeptFlag
    <2> QED
      BY <2>2, <2>3
  <1>2. LoadingIsInFlight'
    <2> SUFFICES ASSUME NEW n \in Names, state'[n].loading
                 PROVE  \E i \in Slots : flight'[n][i] # Free
      BY DEF LoadingIsInFlight, InFlight, FreeSlots
    <2>1. CASE n \notin ns
      BY <1>0, <2>1 DEF BindingsInv, LoadingIsInFlight, InFlight, FreeSlots
    <2>2. CASE n \in ns
      BY <1>0, <2>2
    <2> QED
      BY <2>1, <2>2
  <1>3. LatestSuccessKept'
    <2> SUFFICES ASSUME NEW n \in Keep, ~overlapped'[n], lastOk[n] # NoData
                 PROVE  state'[n].hasData /\ state'[n].data = lastOk[n]
      BY DEF LatestSuccessKept
    <2>1. n \in Names
      BY BindingsAssumption
    <2>2. ~overlapped[n]
      BY <1>0, <2>1
    <2>3. state[n].hasData /\ state[n].data = lastOk[n]
      BY <2>2 DEF BindingsInv, LatestSuccessKept
    <2>4. CASE n \notin ns
      BY <1>0, <2>1, <2>3, <2>4
    <2>5. CASE n \in ns
      <3>1. state'[n] = Loading(n, p)
        BY <1>0, <2>5
      <3>2. /\ state'[n].data = KeptData(n, state[n].data)
            /\ state'[n].hasData = KeptFlag(n, state[n].hasData)
        BY <3>1, LoadingFields
      <3> QED
        BY <2>3, <3>2 DEF KeptData, KeptFlag
    <2> QED
      BY <2>4, <2>5
  <1>4. CaptureInv'
    <2> SUFFICES ASSUME NEW n \in Names, NEW i \in Slots, flight'[n][i] # Free
                 PROVE
          /\ flight'[n][i].hasData <=> flight'[n][i].data # NoData
          /\ flight'[n][i].since <= version
          /\ lastOk[n] = NoData => flight'[n][i].data = NoData
          /\ ~overlapped'[n] =>
               /\ \A j \in Slots : flight'[n][j] # Free => i = j
               /\ n \in Keep => flight'[n][i].data = lastOk[n]
               /\ flight'[n][i].since >= completed[n]
      BY DEF CaptureInv
    <2>1. CASE n \notin ns
      BY <1>0, <2>1 DEF BindingsInv, CaptureInv
    <2>2. CASE n \in ns
      <3>1. flight[n] \in [Slots -> Request \cup {Free}]
        BY DEF TypeOK
      <3>2. /\ SlotFor(n) \in Slots
            /\ flight'[n] = [flight[n] EXCEPT ![SlotFor(n)] = NewRequest(n, p)]
            /\ overlapped'[n] = (overlapped[n] \/ InFlight(n))
        BY <1>0, <2>2
      <3>3. ~overlapped'[n] => \A j \in Slots : flight[n][j] = Free
        BY <3>2 DEF InFlight, FreeSlots
      <3>4. CASE i = SlotFor(n)
        <4>1. flight'[n][i] = NewRequest(n, p)
          BY <1>0, <2>2, <3>4
        <4>2. /\ flight'[n][i].hasData = state[n].hasData
              /\ flight'[n][i].data = state[n].data
              /\ flight'[n][i].since = version
          BY <4>1 DEF NewRequest
        <4>3. state[n].hasData <=> state[n].data # NoData
          BY DEF BindingsInv, FreshDataIsCurrent
        <4>7. lastOk[n] = NoData => state[n].data = NoData
          BY DEF BindingsInv, VersionInv
        <4>4. version \in Int /\ completed[n] \in Int /\ completed[n] <= version
          BY DEF BindingsInv, VersionInv, TypeOK, Versions
        <4>5. ~overlapped'[n] =>
                \A j \in Slots : flight'[n][j] # Free => i = j
          BY <3>1, <3>2, <3>3, <3>4
        <4>6. ~overlapped'[n] /\ n \in Keep => state[n].data = lastOk[n]
          <5> SUFFICES ASSUME ~overlapped'[n], n \in Keep
                       PROVE  state[n].data = lastOk[n]
            OBVIOUS
          <5>1. ~overlapped[n] /\ ~InFlight(n)
            BY <3>2
          <5>2. CASE lastOk[n] # NoData
            BY <5>1, <5>2 DEF BindingsInv, LatestSuccessKept
          <5>3. CASE lastOk[n] = NoData
            BY <5>1, <4>7, <5>3
          <5> QED
            BY <5>2, <5>3
        <4> QED
          BY <4>2, <4>3, <4>4, <4>5, <4>6, <4>7
      <3>5. CASE i # SlotFor(n)
        <4>1. flight'[n][i] = flight[n][i] /\ flight[n][i] # Free
          BY <3>1, <3>2, <3>5
        <4>2. overlapped'[n]
          BY <3>3, <4>1
        <4> QED
          BY <4>1, <4>2 DEF BindingsInv, CaptureInv
      <3> QED
        BY <3>4, <3>5
    <2> QED
      BY <2>1, <2>2
  <1>5. VersionInv'
    <2> SUFFICES ASSUME NEW n \in Names PROVE
          /\ completed[n] <= version
          /\ lastOk[n] = NoData => state'[n].data = NoData
          /\ state'[n].ok => state'[n].hasData
          /\ state'[n].ok /\ ~overlapped'[n] =>
               state'[n].data.version >= completed[n]
      BY DEF VersionInv
    <2>1. CASE n \notin ns
      BY <1>0, <2>1 DEF BindingsInv, VersionInv
    <2>2. CASE n \in ns
      <3>1. state'[n] = Loading(n, p)
        BY <1>0, <2>2
      <3>2. state'[n].ok = FALSE /\ state'[n].data = KeptData(n, state[n].data)
        BY <3>1, LoadingFields
      <3>3. state[n].data = NoData => state'[n].data = NoData
        BY <3>2 DEF KeptData
      <3> QED
        BY <3>2, <3>3 DEF BindingsInv, VersionInv
    <2> QED
      BY <2>1, <2>2
  <1> QED
    BY <1>1, <1>2, <1>3, <1>4, <1>5 DEF BindingsInv

\* Whether s is a state the binding n may show, its last payload being last
\* and done the latest start of a request that has ended.
MayShow(n, s, last, done) ==
  /\ s.hasData <=> s.data # NoData
  /\ s.hasData /\ ~s.stale => s.ok /\ s.data.target = s.target
  /\ s.stale => s.hasData /\ ~s.ok
  /\ s.ok => s.hasData
  /\ last = NoData => s.data = NoData
  /\ ~overlapped[n] =>
       /\ s.ok => s.data.version >= done
       /\ n \in Keep /\ last # NoData => s.hasData /\ s.data = last

\* Steps that end a request.
LEMMA FinishStep ==
  ASSUME BindingsInv, TypeOK, NEW n \in Names, NEW i \in Slots, NEW s \in Binding,
         flight[n][i] # Free, Finish(n, i, s), ~s.loading,
         version' = version, overlapped' = overlapped,
         \A m \in Names \ {n} : lastOk'[m] = lastOk[m],
         lastOk'[n] = NoData => lastOk[n] = NoData,
         MayShow(n, s, lastOk'[n], completed'[n])
  PROVE  BindingsInv'
  <1>0. /\ state' \in [Names -> Binding]
        /\ flight' \in [Names -> [Slots -> Request \cup {Free}]]
        /\ event' \in [Events -> Event]
        /\ completed' \in [Names -> Versions]
        /\ state'[n] = s /\ flight'[n][i] = Free
        /\ \A m \in Names, j \in Slots :
             <<m, j>> # <<n, i>> => flight'[m][j] = flight[m][j]
        /\ \A m \in Names \ {n} : /\ state'[m] = state[m]
                                  /\ flight'[m] = flight[m]
                                  /\ completed'[m] = completed[m]
        /\ completed'[n] >= completed[n]
        /\ completed'[n] >= flight[n][i].since
        /\ completed'[n] \in {completed[n], flight[n][i].since}
        /\ \A e \in Events :
             event'[e] = IF event[e].waits = <<n, i>>
                         THEN [event[e] EXCEPT !.waits = NoWait] ELSE event[e]
    BY FinishFacts
  <1>1. FreshDataIsCurrent'
    <2> SUFFICES ASSUME NEW m \in Names PROVE
          /\ state'[m].hasData <=> state'[m].data # NoData
          /\ state'[m].hasData /\ ~state'[m].stale =>
               state'[m].ok /\ state'[m].data.target = state'[m].target
          /\ state'[m].stale => state'[m].hasData /\ ~state'[m].ok
      BY DEF FreshDataIsCurrent
    <2>1. CASE m = n
      BY <1>0, <2>1 DEF MayShow
    <2>2. CASE m # n
      BY <1>0, <2>2 DEF BindingsInv, FreshDataIsCurrent
    <2> QED
      BY <2>1, <2>2
  <1>2. LoadingIsInFlight'
    <2> SUFFICES ASSUME NEW m \in Names, state'[m].loading
                 PROVE  \E j \in Slots : flight'[m][j] # Free
      BY DEF LoadingIsInFlight, InFlight, FreeSlots
    <2>1. m # n
      BY <1>0
    <2> QED
      BY <1>0, <2>1 DEF BindingsInv, LoadingIsInFlight, InFlight, FreeSlots
  <1>3. LatestSuccessKept'
    <2> SUFFICES ASSUME NEW m \in Keep, ~overlapped[m], lastOk'[m] # NoData
                 PROVE  state'[m].hasData /\ state'[m].data = lastOk'[m]
      BY DEF LatestSuccessKept
    <2>0. m \in Names
      BY BindingsAssumption
    <2>1. CASE m = n
      BY <1>0, <2>1 DEF MayShow
    <2>2. CASE m # n
      BY <1>0, <2>0, <2>2 DEF BindingsInv, LatestSuccessKept
    <2> QED
      BY <2>1, <2>2
  <1>4. CaptureInv'
    <2> SUFFICES ASSUME NEW m \in Names, NEW j \in Slots, flight'[m][j] # Free
                 PROVE
          /\ flight'[m][j].hasData <=> flight'[m][j].data # NoData
          /\ flight'[m][j].since <= version
          /\ lastOk'[m] = NoData => flight'[m][j].data = NoData
          /\ ~overlapped[m] =>
               /\ \A k \in Slots : flight'[m][k] # Free => j = k
               /\ m \in Keep => flight'[m][j].data = lastOk'[m]
               /\ flight'[m][j].since >= completed'[m]
      BY DEF CaptureInv
    <2>1. CASE m # n
      BY <1>0, <2>1 DEF BindingsInv, CaptureInv
    <2>2. CASE m = n
      <3>1. j # i /\ flight'[n][j] = flight[n][j] /\ flight[n][j] # Free
        BY <1>0, <2>2
      <3>2. overlapped[n]
        BY <3>1 DEF BindingsInv, CaptureInv
      <3> QED
        BY <2>2, <3>1, <3>2 DEF BindingsInv, CaptureInv
    <2> QED
      BY <2>1, <2>2
  <1>5. VersionInv'
    <2> SUFFICES ASSUME NEW m \in Names PROVE
          /\ completed'[m] <= version
          /\ lastOk'[m] = NoData => state'[m].data = NoData
          /\ state'[m].ok => state'[m].hasData
          /\ state'[m].ok /\ ~overlapped[m] =>
               state'[m].data.version >= completed'[m]
      BY DEF VersionInv
    <2>1. CASE m # n
      BY <1>0, <2>1 DEF BindingsInv, VersionInv
    <2>2. CASE m = n
      <3>1. completed'[n] <= version
        BY <1>0 DEF BindingsInv, VersionInv, CaptureInv
      <3> QED
        BY <1>0, <2>2, <3>1 DEF MayShow
    <2> QED
      BY <2>1, <2>2
  <1> QED
    BY <1>1, <1>2, <1>3, <1>4, <1>5 DEF BindingsInv

-----------------------------------------------------------------------------
(* The invalidations of events.                                            *)

\* What InvalidationInv says of one event, with the flight and the completed
\* versions it is judged by.
EventInv(ev, fl, done) ==
  /\ ev.step # "refreshing" => ev.waits = NoWait
  /\ ev.step \in {"refreshing", "done"} =>
    /\ ev.step = "done" => ev.todo = 0
    /\ \A i \in 1..(Len(Invalidates) - ev.todo) :
         \/ done[Invalidates[i]] >= ev.at
         \/ ev.waits # NoWait /\ i = Len(Invalidates) - ev.todo
    /\ ev.waits # NoWait =>
         /\ ev.todo < Len(Invalidates)
         /\ ev.waits[1] = Invalidates[Len(Invalidates) - ev.todo]
         /\ fl[ev.waits[1]][ev.waits[2]] # Free
         /\ fl[ev.waits[1]][ev.waits[2]].since >= ev.at

LEMMA EventByEvent ==
  /\ InvalidationInv <=> \A e \in Events : EventInv(event[e], flight, completed)
  /\ InvalidationInv' <=>
       \A e \in Events : EventInv(event'[e], flight', completed')
  BY DEF InvalidationInv, EventInv

LEMMA EventTypes ==
  ASSUME TypeOK, NEW e \in Events
  PROVE  /\ event[e] \in Event
         /\ event[e].waits \in (Names \X Slots) \cup {NoWait}
         /\ event[e].at \in Nat /\ event[e].todo \in Nat
         /\ Len(Invalidates) \in Nat
         /\ \A j \in 1..Len(Invalidates) : Invalidates[j] \in Names
  BY BindingsAssumption, NumbersAssumption DEF TypeOK, Event, Versions

\* Steps of the bindings that leave the events alone and end no request.
LEMMA InvalidationQuiet ==
  ASSUME InvalidationInv, TypeOK, event' = event, completed' = completed,
         \A n \in Names, i \in Slots : flight[n][i] # Free =>
           flight'[n][i] # Free /\ flight'[n][i].since = flight[n][i].since
  PROVE  InvalidationInv'
  <1> SUFFICES ASSUME NEW e \in Events
               PROVE  EventInv(event[e], flight', completed)
    BY EventByEvent
  <1>1. EventInv(event[e], flight, completed)
    BY EventByEvent
  <1> QED
    BY <1>1, EventTypes DEF EventInv

\* Steps that end a request.
LEMMA InvalidationFinish ==
  ASSUME InvalidationInv, TypeOK, NEW n \in Names, NEW i \in Slots,
         NEW s \in Binding, flight[n][i] # Free, Finish(n, i, s)
  PROVE  InvalidationInv'
  <1>0. /\ state' \in [Names -> Binding]
        /\ flight' \in [Names -> [Slots -> Request \cup {Free}]]
        /\ event' \in [Events -> Event]
        /\ completed' \in [Names -> Versions]
        /\ state'[n] = s /\ flight'[n][i] = Free
        /\ \A m \in Names, j \in Slots :
             <<m, j>> # <<n, i>> => flight'[m][j] = flight[m][j]
        /\ \A m \in Names \ {n} : /\ state'[m] = state[m]
                                  /\ flight'[m] = flight[m]
                                  /\ completed'[m] = completed[m]
        /\ completed'[n] >= completed[n]
        /\ completed'[n] >= flight[n][i].since
        /\ completed'[n] \in {completed[n], flight[n][i].since}
        /\ \A e \in Events :
             event'[e] = IF event[e].waits = <<n, i>>
                         THEN [event[e] EXCEPT !.waits = NoWait] ELSE event[e]
    BY FinishFacts
  <1> SUFFICES ASSUME NEW e \in Events
               PROVE  EventInv(event'[e], flight', completed')
    BY EventByEvent
  <1> DEFINE ev == event[e]
  <1>1. /\ ev \in Event /\ ev.waits \in (Names \X Slots) \cup {NoWait}
        /\ ev.at \in Nat /\ ev.todo \in Nat /\ Len(Invalidates) \in Nat
        /\ \A j \in 1..Len(Invalidates) : Invalidates[j] \in Names
    BY EventTypes
  <1>2. /\ event'[e].step = ev.step /\ event'[e].todo = ev.todo
        /\ event'[e].at = ev.at
        /\ event'[e].waits = IF ev.waits = <<n, i>> THEN NoWait ELSE ev.waits
    BY <1>0, <1>1 DEF Event
  <1>3. EventInv(ev, flight, completed)
    BY EventByEvent
  <1> HIDE DEF ev
  <1>4. \A m \in Names : /\ completed[m] \in Nat /\ completed'[m] \in Nat
                         /\ completed'[m] >= completed[m]
    BY <1>0, NumbersAssumption DEF TypeOK, Versions
  <1>5. \A j \in 1..(Len(Invalidates) - ev.todo) :
          completed[Invalidates[j]] >= ev.at =>
            completed'[Invalidates[j]] >= ev.at
    BY <1>1, <1>4
  <1>6. CASE ev.waits = <<n, i>>
    <2>1. /\ ev.waits # NoWait /\ ev.waits[1] = n /\ ev.waits[2] = i
          /\ event'[e].waits = NoWait
      BY <1>2, <1>6, SentinelsAssumption
    <2>2. flight[n][i].since \in Nat
      BY NumbersAssumption DEF TypeOK, Request, Versions
    <2>3. ev.step \in {"refreshing", "done"} =>
            /\ ev.step # "done"
            /\ completed'[Invalidates[Len(Invalidates) - ev.todo]] >= ev.at
      BY <1>0, <1>1, <1>3, <1>4, <2>1, <2>2 DEF EventInv
    <2> QED
      BY <1>2, <1>3, <1>5, <2>1, <2>3 DEF EventInv
  <1>7. CASE ev.waits # <<n, i>>
    <2>1. event'[e].waits = ev.waits
      BY <1>2, <1>7
    <2>2. ev.waits # NoWait =>
            flight'[ev.waits[1]][ev.waits[2]] = flight[ev.waits[1]][ev.waits[2]]
      BY <1>0, <1>1, <1>7
    <2> QED
      BY <1>2, <1>3, <1>5, <2>1, <2>2 DEF EventInv
  <1> QED
    BY <1>6, <1>7

-----------------------------------------------------------------------------
(* The inductive invariant.                                                *)

LEMMA IInvParts ==
  /\ IInv <=> TypeOK /\ BindingsInv /\ InvalidationInv /\ WrittenInv
  /\ IInv' <=> TypeOK' /\ BindingsInv' /\ InvalidationInv' /\ WrittenInv'
  BY DEF IInv, BindingsInv

\* Refresh and Navigate.
LEMMA RunStep ==
  ASSUME IInv, NEW ns \in SUBSET Names, NEW p \in Params, Start(ns, p),
         param' \in Params, version' = version, event' = event,
         lastOk' = lastOk, completed' = completed
  PROVE  IInv'
  <1>1. TypeOK /\ BindingsInv /\ InvalidationInv /\ WrittenInv
    BY IInvParts
  <1>2. TypeOK'
    BY <1>1, StartFacts DEF TypeOK
  <1>3. BindingsInv'
    BY <1>1, StartStep
  <1>4. InvalidationInv'
    BY <1>1, StartFacts, InvalidationQuiet
  <1>5. WrittenInv'
    BY <1>1 DEF WrittenInv
  <1> QED
    BY <1>2, <1>3, <1>4, <1>5, IInvParts

\* Headers and a retry: the request in one slot goes on.
LEMMA RequestStep ==
  ASSUME IInv, NEW n \in Names, NEW i \in Slots, NEW r \in Request,
         flight[n][i] # Free, flight' = [flight EXCEPT ![n][i] = r],
         r.hasData = flight[n][i].hasData, r.data = flight[n][i].data,
         r.since = flight[n][i].since,
         UNCHANGED <<param, state, version, event, histVars>>
  PROVE  IInv'
  <1>1. TypeOK /\ BindingsInv /\ InvalidationInv /\ WrittenInv
    BY IInvParts
  <1>2. flight \in [Names -> [Slots -> Request \cup {Free}]]
    BY <1>1 DEF TypeOK
  <1>3. /\ flight' \in [Names -> [Slots -> Request \cup {Free}]]
        /\ flight'[n][i] = r /\ r # Free
        /\ \A m \in Names, j \in Slots :
             <<m, j>> # <<n, i>> => flight'[m][j] = flight[m][j]
    BY <1>2, SentinelsAssumption
  <1>4. TypeOK'
    BY <1>1, <1>3 DEF TypeOK, histVars
  <1>5. version' >= version
    BY <1>1, NumbersAssumption DEF TypeOK, Versions
  <1>6. \A m \in Names, j \in Slots :
          /\ flight'[m][j] = Free <=> flight[m][j] = Free
          /\ flight[m][j] # Free =>
               /\ flight'[m][j].hasData = flight[m][j].hasData
               /\ flight'[m][j].data = flight[m][j].data
               /\ flight'[m][j].since = flight[m][j].since
    BY <1>3
  <1>7. BindingsInv'
    BY <1>1, <1>4, <1>5, <1>6, QuietStep DEF histVars
  <1>8. InvalidationInv'
    BY <1>1, <1>6, InvalidationQuiet DEF histVars
  <1>9. WrittenInv'
    BY <1>1 DEF WrittenInv
  <1> QED
    BY <1>4, <1>7, <1>8, <1>9, IInvParts

\* Steps of events that start no request.
LEMMA EventStep ==
  ASSUME IInv, event' \in [Events -> Event], version' \in Versions,
         version' >= version, UNCHANGED <<param, state, flight, histVars>>,
         InvalidationInv', WrittenInv'
  PROVE  IInv'
  <1>1. TypeOK /\ BindingsInv
    BY IInvParts
  <1>2. TypeOK'
    BY <1>1 DEF TypeOK, histVars
  <1>3. BindingsInv'
    BY <1>1, <1>2, QuietStep DEF histVars
  <1> QED
    BY <1>2, <1>3, IInvParts

LEMMA FinishKeepsWritten ==
  ASSUME TypeOK, WrittenInv, NEW n \in Names, NEW i \in Slots,
         NEW s \in Binding, flight[n][i] # Free, Finish(n, i, s),
         version' = version
  PROVE  WrittenInv'
  <1>1. \A e \in Events : event'[e].at = event[e].at
    BY FinishFacts, EventTypes DEF Event
  <1> QED
    BY <1>1 DEF WrittenInv

LEMMA SuccessStep ==
  ASSUME IInv, NEW n \in Names, NEW i \in Slots, Success(n, i)
  PROVE  IInv'
  <1> DEFINE r == flight[n][i]
  <1>1. TypeOK /\ BindingsInv /\ InvalidationInv /\ WrittenInv
    BY IInvParts
  <1>2. r # Free /\ r \in Request
    BY <1>1 DEF Success, TypeOK
  <1>3. PICK v \in r.since..version :
          LET payload == [target |-> r.target, version |-> v] IN
          /\ Finish(n, i, Succeeded(r, payload))
          /\ lastOk' = [lastOk EXCEPT ![n] = payload]
    BY DEF Success
  <1> DEFINE payload == [target |-> r.target, version |-> v]
             s == Succeeded(r, payload)
  <1>4. /\ param' = param /\ version' = version /\ overlapped' = overlapped
        /\ lastOk' = [lastOk EXCEPT ![n] = payload] /\ Finish(n, i, s)
    BY <1>3 DEF Success
  <1>5. /\ r.target \in Params /\ r.since \in Nat /\ version \in Versions
        /\ version \in Nat
    BY <1>1, <1>2, NumbersAssumption DEF Request, TypeOK, Versions
  <1>6. v \in Versions /\ v \in Nat /\ v >= r.since
    BY <1>5, NumbersAssumption DEF Versions
  <1>7. payload \in Payload /\ payload # NoData
        /\ payload.target = r.target /\ payload.version = v
    BY <1>5, <1>6, SentinelsAssumption DEF Payload
  <1> HIDE DEF payload
  <1>8. s \in Binding
    BY <1>5, <1>7 DEF Succeeded, Binding
  <1>9. /\ s.loading = FALSE /\ s.hasData = TRUE /\ s.data = payload
        /\ s.stale = FALSE /\ s.ok = TRUE /\ s.target = r.target
    BY DEF Succeeded
  <1> HIDE DEF s
  <1>10. /\ lastOk' \in [Names -> Payload \cup {NoData}]
         /\ lastOk'[n] = payload
         /\ \A m \in Names \ {n} : lastOk'[m] = lastOk[m]
    BY <1>1, <1>4, <1>7 DEF TypeOK
  <1>11. completed'[n] \in {completed[n], r.since}
    BY <1>1, <1>2, <1>4, <1>8, FinishFacts
  <1>12. ~overlapped[n] => v >= completed'[n]
    <2>1. ~overlapped[n] => r.since >= completed[n]
      BY <1>1, <1>2 DEF BindingsInv, CaptureInv
    <2>2. completed[n] \in Nat
      BY <1>1, NumbersAssumption DEF TypeOK, Versions
    <2> QED
      BY <1>5, <1>6, <1>11, <2>1, <2>2
  <1>13. MayShow(n, s, lastOk'[n], completed'[n])
    BY <1>7, <1>9, <1>10, <1>12 DEF MayShow
  <1>14. BindingsInv'
    BY <1>1, <1>2, <1>4, <1>7, <1>8, <1>9, <1>10, <1>13, FinishStep
  <1>15. InvalidationInv'
    BY <1>1, <1>2, <1>4, <1>8, InvalidationFinish
  <1>16. TypeOK'
    BY <1>1, <1>2, <1>4, <1>8, <1>10, FinishFacts DEF TypeOK
  <1>17. WrittenInv'
    BY <1>1, <1>2, <1>4, <1>8, FinishKeepsWritten
  <1> QED
    BY <1>14, <1>15, <1>16, <1>17, IInvParts

LEMMA FailedFields ==
  ASSUME NEW n, NEW r, NEW why
  PROVE  /\ Failed(n, r, why).loading = FALSE
         /\ Failed(n, r, why).ok = FALSE
         /\ Failed(n, r, why).data = KeptData(n, r.data)
         /\ Failed(n, r, why).stale = KeptFlag(n, r.hasData)
         /\ Failed(n, r, why).hasData = KeptFlag(n, r.hasData)
  BY DEF Failed

\* An error or a timeout: a retry, or the end of the request.
LEMMA ThrowStep ==
  ASSUME IInv, NEW n \in Names, NEW i \in Slots, NEW why \in {"timeout", "failed"},
         flight[n][i] # Free, Throw(n, i, why)
  PROVE  IInv'
  <1> DEFINE r == flight[n][i]
             s == Failed(n, r, why)
  <1>1. TypeOK /\ BindingsInv /\ InvalidationInv /\ WrittenInv
    BY IInvParts
  <1>2. /\ r \in Request /\ r.target \in Params /\ r.hasData \in BOOLEAN
        /\ r.data \in Payload \cup {NoData} /\ r.attempt \in 0..Retries
    BY <1>1 DEF TypeOK, Request
  <1>3. CASE MayRetry(r)
    <2> DEFINE again == [r EXCEPT !.attempt = @ + 1, !.step = "headers"]
    <2>1. r.attempt + 1 \in 0..Retries
      BY <1>2, <1>3, NumbersAssumption DEF MayRetry
    <2>2. /\ again \in Request /\ again.hasData = r.hasData
          /\ again.data = r.data /\ again.since = r.since
      BY <1>2, <2>1 DEF Request
    <2>3. /\ flight' = [flight EXCEPT ![n][i] = again]
          /\ UNCHANGED <<param, state, version, event, histVars>>
      <3>1. flight' = [flight EXCEPT
              ![n][i].attempt = @ + 1, ![n][i].step = "headers"]
            /\ UNCHANGED <<param, state, version, event, histVars>>
        BY <1>3 DEF Throw
      <3>2. flight \in [Names -> [Slots -> Request \cup {Free}]]
        BY <1>1 DEF TypeOK
      <3> QED
        BY <3>1, <3>2
    <2> HIDE DEF again
    <2> QED
      BY <2>2, <2>3, RequestStep
  <1>4. CASE ~MayRetry(r)
    <2>1. /\ Finish(n, i, s) /\ param' = param /\ version' = version
          /\ lastOk' = lastOk /\ overlapped' = overlapped
      BY <1>4 DEF Throw
    <2>2. s \in Binding
      BY <1>2 DEF Failed, Binding, KeptData, KeptFlag
    <2>3. /\ s.loading = FALSE /\ s.ok = FALSE
          /\ s.data = KeptData(n, r.data)
          /\ s.stale = KeptFlag(n, r.hasData)
          /\ s.hasData = KeptFlag(n, r.hasData)
      <3> HIDE DEF r
      <3> QED
        BY FailedFields
    <2> HIDE DEF s
    <2>4. /\ r.hasData <=> r.data # NoData
          /\ lastOk[n] = NoData => r.data = NoData
          /\ ~overlapped[n] /\ n \in Keep => r.data = lastOk[n]
      BY <1>1 DEF BindingsInv, CaptureInv
    <2> HIDE DEF r
    <2>5. MayShow(n, s, lastOk[n], completed'[n])
      BY <1>2, <2>3, <2>4 DEF MayShow, KeptData, KeptFlag
    <2> USE DEF r
    <2>6. BindingsInv'
      BY <1>1, <2>1, <2>2, <2>3, <2>5, FinishStep
    <2>7. InvalidationInv'
      BY <1>1, <2>1, <2>2, InvalidationFinish
    <2>8. TypeOK'
      BY <1>1, <2>1, <2>2, FinishFacts DEF TypeOK
    <2>9. WrittenInv'
      BY <1>1, <2>1, <2>2, FinishKeepsWritten
    <2> QED
      BY <2>6, <2>7, <2>8, <2>9, IInvParts
  <1> QED
    BY <1>3, <1>4

\* An event changes to ev, and nothing else of it does.
LEMMA OneEvent ==
  ASSUME TypeOK, InvalidationInv, WrittenInv, NEW e \in Events, NEW ev \in Event,
         event' = [event EXCEPT ![e] = ev], flight' = flight,
         completed' = completed, EventInv(ev, flight, completed),
         version' \in Nat, version' >= version, ev.at <= version'
  PROVE  /\ event' \in [Events -> Event]
         /\ InvalidationInv' /\ WrittenInv'
  <1>1. event \in [Events -> Event] /\ version \in Nat
    BY NumbersAssumption DEF TypeOK, Versions
  <1>2. \A d \in Events : event'[d] = IF d = e THEN ev ELSE event[d]
    BY <1>1
  <1>3. InvalidationInv'
    BY <1>2, EventByEvent
  <1>4. \A d \in Events : event[d].at \in Nat /\ event[d].at <= version
    BY EventTypes DEF WrittenInv
  <1>5. WrittenInv'
    BY <1>1, <1>2, <1>4 DEF WrittenInv
  <1> QED
    BY <1>1, <1>3, <1>5

\* SendEvent, ServerRuns, EventAnswered, EventLost, RunLocally and
\* InvalidationsDone.
LEMMA QuietEventStep ==
  ASSUME IInv, NEW e \in Events,
         \/ SendEvent(e) \/ ServerRuns(e) \/ EventAnswered(e)
         \/ EventLost(e) \/ RunLocally(e) \/ InvalidationsDone(e)
  PROVE  IInv'
  <1>1. TypeOK /\ BindingsInv /\ InvalidationInv /\ WrittenInv
    BY IInvParts
  <1> DEFINE ev == event[e]
  <1>2. /\ ev \in Event /\ ev.at \in Nat /\ Len(Invalidates) \in Nat
        /\ ev.at \in Versions /\ ev.at <= version
        /\ version \in Versions /\ version \in Nat
    BY <1>1, EventTypes, NumbersAssumption
    DEF TypeOK, Event, Versions, WrittenInv
  <1>3. EventInv(ev, flight, completed)
    BY <1>1, EventByEvent
  <1>4. event \in [Events -> Event]
    BY <1>1 DEF TypeOK
  <1>5. ASSUME NEW new \in Event, event' = [event EXCEPT ![e] = new],
               UNCHANGED <<param, state, flight, histVars>>,
               version' \in Versions, version' >= version,
               EventInv(new, flight, completed), new.at <= version'
        PROVE  IInv'
    <2>1. version' \in Nat
      BY <1>5, NumbersAssumption DEF Versions
    <2>2. event' \in [Events -> Event] /\ InvalidationInv' /\ WrittenInv'
      BY <1>1, <1>5, <2>1, OneEvent DEF histVars
    <2> QED
      BY <1>5, <2>2, EventStep
  <1>6. CASE SendEvent(e)
    <2> DEFINE new == [ev EXCEPT !.step = "posted"]
    <2>1. /\ new \in Event /\ new.step = "posted" /\ new.at = ev.at
          /\ new.waits = ev.waits
      BY <1>2 DEF Event
    <2>3. ev.waits = NoWait
      BY <1>3, <1>6 DEF EventInv, SendEvent
    <2>2. event' = [event EXCEPT ![e] = new]
          /\ UNCHANGED <<param, state, flight, version, histVars>>
      BY <1>4, <1>6 DEF SendEvent
    <2> HIDE DEF new
    <2>7. EventInv(new, flight, completed)
      BY <2>1, <2>2, <2>3 DEF EventInv
    <2>8. version' \in Versions /\ version' >= version /\ new.at <= version'
      BY <1>2, <2>1, <2>2, <2>3
    <2> QED
      BY <1>5, <2>1, <2>2, <2>7, <2>8
  <1>7. CASE ServerRuns(e)
    <2> DEFINE new == [ev EXCEPT !.step = "ran", !.at = version + 1]
    <2>1. version + 1 \in Versions
      BY <1>2, <1>7, NumbersAssumption DEF ServerRuns, Versions
    <2>2. /\ new \in Event /\ new.step = "ran" /\ new.at = version + 1
          /\ new.waits = ev.waits
      BY <1>2, <2>1 DEF Event
    <2>3. /\ event' = [event EXCEPT ![e] = new] /\ version' = version + 1
          /\ UNCHANGED <<param, state, flight, histVars>>
      BY <1>4, <1>7 DEF ServerRuns
    <2>4. ev.waits = NoWait
      BY <1>3, <1>7 DEF EventInv, ServerRuns
    <2> HIDE DEF new
    <2>7. EventInv(new, flight, completed)
      BY <2>2, <2>4 DEF EventInv
    <2>8. version' \in Versions /\ version' >= version /\ new.at <= version'
      BY <1>2, <2>1, <2>2, <2>3
    <2> QED
      BY <1>5, <2>2, <2>3, <2>7, <2>8
  <1>8. CASE EventAnswered(e) \/ RunLocally(e)
    <2>1. PICK at \in {ev.at, version} :
            /\ event' = [event EXCEPT ![e] =
                 [ev EXCEPT !.step = "refreshing", !.at = at,
                            !.todo = Len(Invalidates)]]
            /\ UNCHANGED <<param, state, flight, version, histVars>>
            /\ ev.step # "refreshing"
      <3>1. CASE EventAnswered(e)
        <4>1. event' = [event EXCEPT ![e] =
                [ev EXCEPT !.step = "refreshing", !.at = ev.at,
                           !.todo = Len(Invalidates)]]
          BY <1>2, <1>4, <3>1 DEF EventAnswered, Event
        <4> QED
          BY <3>1, <4>1 DEF EventAnswered
      <3>2. CASE RunLocally(e)
        BY <1>4, <3>2 DEF RunLocally
      <3> QED
        BY <1>8, <3>1, <3>2
    <2> DEFINE new == [ev EXCEPT !.step = "refreshing", !.at = at,
                                 !.todo = Len(Invalidates)]
    <2>2. /\ new \in Event /\ new.step = "refreshing" /\ new.at = at
          /\ new.todo = Len(Invalidates) /\ new.waits = ev.waits
      <3>1. at \in Versions /\ Len(Invalidates) \in 0..Len(Invalidates)
        BY <1>2
      <3> HIDE DEF ev
      <3> QED
        BY <1>2, <3>1 DEF Event
    <2>3. event' = [event EXCEPT ![e] = new]
      BY <2>1
    <2>4. ev.waits = NoWait
      BY <1>3, <2>1 DEF EventInv
    <2> HIDE DEF new, ev
    <2>5. EventInv(new, flight, completed)
      BY <1>2, <2>2, <2>4 DEF EventInv
    <2>6. version' \in Versions /\ new.at <= version' /\ version' >= version
      BY <1>2, <2>1, <2>2
    <2> QED
      BY <1>5, <2>1, <2>2, <2>3, <2>5, <2>6
  <1>9. CASE EventLost(e)
    <2> DEFINE new == [ev EXCEPT !.step = "idle"]
    <2>1. /\ new \in Event /\ new.step = "idle" /\ new.at = ev.at
          /\ new.waits = ev.waits
      BY <1>2 DEF Event
    <2>3. ev.waits = NoWait
      BY <1>3, <1>9 DEF EventInv, EventLost
    <2>2. event' = [event EXCEPT ![e] = new]
          /\ UNCHANGED <<param, state, flight, version, histVars>>
      BY <1>4, <1>9 DEF EventLost
    <2> HIDE DEF new
    <2>7. EventInv(new, flight, completed)
      BY <2>1, <2>2, <2>3 DEF EventInv
    <2>8. version' \in Versions /\ version' >= version /\ new.at <= version'
      BY <1>2, <2>1, <2>2, <2>3
    <2> QED
      BY <1>5, <2>1, <2>2, <2>7, <2>8
  <1>10. CASE InvalidationsDone(e)
    <2> DEFINE new == [ev EXCEPT !.step = "done"]
    <2>1. /\ new \in Event /\ new.step = "done" /\ new.at = ev.at
          /\ new.todo = ev.todo /\ new.waits = ev.waits
      BY <1>2 DEF Event
    <2>2. /\ event' = [event EXCEPT ![e] = new]
          /\ UNCHANGED <<param, state, flight, version, histVars>>
          /\ ev.step = "refreshing" /\ ev.waits = NoWait /\ ev.todo = 0
      BY <1>4, <1>10 DEF InvalidationsDone
    <2> HIDE DEF new, ev
    <2>3. EventInv(new, flight, completed)
      BY <1>3, <2>1, <2>2 DEF EventInv
    <2>8. version' \in Versions /\ version' >= version /\ new.at <= version'
      BY <1>2, <2>1, <2>2
    <2> QED
      BY <1>5, <2>1, <2>2, <2>3, <2>8
  <1> QED
    BY <1>6, <1>7, <1>8, <1>9, <1>10

LEMMA InvalidateNextStep ==
  ASSUME IInv, NEW e \in Events, InvalidateNext(e)
  PROVE  IInv'
  <1> DEFINE ev == event[e]
             k == Len(Invalidates) - ev.todo + 1
             n == Invalidates[k]
             new == [ev EXCEPT !.todo = @ - 1, !.waits = <<n, SlotFor(n)>>]
  <1>1. TypeOK /\ BindingsInv /\ InvalidationInv /\ WrittenInv
    BY IInvParts
  <1>2. /\ ev \in Event /\ ev.at \in Nat /\ ev.at <= version
        /\ ev.todo \in 0..Len(Invalidates) /\ Len(Invalidates) \in Nat
        /\ event \in [Events -> Event] /\ param \in Params /\ version \in Nat
    BY <1>1, EventTypes, NumbersAssumption
    DEF TypeOK, Event, WrittenInv, Versions
  <1>3. /\ ev.step = "refreshing" /\ ev.waits = NoWait /\ ev.todo > 0
        /\ Start({n}, param)
        /\ event' = [event EXCEPT ![e].todo = @ - 1,
                                  ![e].waits = <<n, SlotFor(n)>>]
        /\ UNCHANGED <<param, version, lastOk, completed>>
    BY DEF InvalidateNext, InvalidationRuns
  <1>4. event' = [event EXCEPT ![e] = new]
    BY <1>2, <1>3
  <1>5. k \in 1..Len(Invalidates) /\ n \in Names
    BY <1>2, <1>3, BindingsAssumption
  <1>6. {n} \in SUBSET Names
    BY <1>5
  <1>7. /\ SlotFor(n) \in Slots
        /\ flight'[n][SlotFor(n)] = NewRequest(n, param)
        /\ flight'[n][SlotFor(n)] # Free
        /\ \A m \in Names, i \in Slots :
             flight[m][i] # Free => flight'[m][i] = flight[m][i]
    BY <1>1, <1>2, <1>3, <1>6, StartFacts
  <1>8. flight'[n][SlotFor(n)].since = version
    BY <1>7 DEF NewRequest
  <1> HIDE DEF n
  <1>9. /\ new \in Event /\ new.step = "refreshing" /\ new.at = ev.at
        /\ new.todo = ev.todo - 1 /\ new.waits = <<n, SlotFor(n)>>
    <2>1. /\ ev.todo - 1 \in 0..Len(Invalidates)
          /\ <<n, SlotFor(n)>> \in (Names \X Slots) \cup {NoWait}
      BY <1>2, <1>3, <1>5, <1>7
    <2> HIDE DEF ev
    <2> QED
      BY <1>2, <1>3, <2>1 DEF Event
  <1>10. event' \in [Events -> Event]
         /\ \A d \in Events : event'[d] = IF d = e THEN new ELSE event[d]
    BY <1>2, <1>4, <1>9
  <1> HIDE DEF new
  <1>11. TypeOK'
    BY <1>1, <1>2, <1>3, <1>6, <1>10, StartFacts DEF TypeOK
  <1>12. BindingsInv'
    BY <1>1, <1>2, <1>3, <1>6, StartStep
  <1>13. WrittenInv'
    BY <1>1, <1>3, <1>9, <1>10 DEF WrittenInv
  <1>14. EventInv(new, flight', completed')
    <2>1. EventInv(ev, flight, completed)
      BY <1>1, EventByEvent
    <2>2. /\ Len(Invalidates) - new.todo = k
          /\ k = Len(Invalidates) - ev.todo + 1
          /\ new.todo < Len(Invalidates)
      BY <1>2, <1>3, <1>9
    <2>3. /\ new.waits # NoWait /\ new.waits[1] = n
          /\ new.waits[2] = SlotFor(n)
      BY <1>5, <1>7, <1>9, SentinelsAssumption
    <2>4. n = Invalidates[k]
      BY DEF n
    <2> HIDE DEF ev, k
    <2>5. \A i \in 1..k : i = k \/ completed[Invalidates[i]] >= ev.at
      BY <1>2, <1>3, <2>1, <2>2 DEF EventInv
    <2> QED
      BY <1>2, <1>3, <1>7, <1>8, <1>9, <2>2, <2>3, <2>4, <2>5 DEF EventInv
  <1>15. \A d \in Events : d # e => EventInv(event[d], flight', completed')
    <2> SUFFICES ASSUME NEW d \in Events
                 PROVE  EventInv(event[d], flight', completed)
      BY <1>3
    <2>1. EventInv(event[d], flight, completed)
      BY <1>1, EventByEvent
    <2> QED
      BY <1>1, <1>7, <2>1, EventTypes DEF EventInv
  <1>16. InvalidationInv'
    BY <1>10, <1>14, <1>15, EventByEvent
  <1> QED
    BY <1>11, <1>12, <1>13, <1>16, IInvParts

LEMMA InitInv == Init => IInv
  <1> SUFFICES ASSUME Init PROVE IInv
    OBVIOUS
  <1> DEFINE first == [target |-> Home, data |-> NoData, hasData |-> FALSE,
                       attempt |-> 0, step |-> "headers", since |-> 0]
             idle == [step |-> "idle", todo |-> 0, waits |-> NoWait, at |-> 0]
             initial(n) == [loading |-> n \in Eager, data |-> NoData,
                            error |-> "", stale |-> FALSE, hasData |-> FALSE,
                            ok |-> FALSE,
                            target |-> IF n \in Eager THEN Home ELSE NoData]
  <1>1. 0 \in Versions /\ 0 \in 0..Retries /\ Len(Invalidates) \in Nat
    BY NumbersAssumption, BindingsAssumption DEF Versions
  <1>2. /\ first \in Request /\ first # Free
        /\ first.data = NoData /\ first.hasData = FALSE /\ first.since = 0
    <2>1. first \in Request
      BY <1>1, BindingsAssumption DEF Request
    <2>2. first.data = NoData /\ first.hasData = FALSE /\ first.since = 0
      OBVIOUS
    <2> QED
      BY <2>1, <2>2, SentinelsAssumption
  <1>3. /\ idle \in Event /\ idle.step = "idle" /\ idle.waits = NoWait
        /\ idle.at = 0
    BY <1>1 DEF Event
  <1>4. \A n \in Names : initial(n) \in Binding
    <2> SUFFICES ASSUME NEW n \in Names PROVE initial(n) \in Binding
      OBVIOUS
    <2>1. (n \in Eager) \in BOOLEAN
          /\ (IF n \in Eager THEN Home ELSE NoData) \in Params \cup {NoData}
      BY BindingsAssumption
    <2> QED
      BY <2>1 DEF Binding
  <1>5. \A n : /\ initial(n).data = NoData /\ initial(n).hasData = FALSE
               /\ initial(n).stale = FALSE /\ initial(n).ok = FALSE
    <2> SUFFICES ASSUME NEW n
                 PROVE  /\ initial(n).data = NoData
                        /\ initial(n).hasData = FALSE
                        /\ initial(n).stale = FALSE /\ initial(n).ok = FALSE
      OBVIOUS
    <2> QED
      OBVIOUS
  <1>6. \A n : initial(n).loading <=> n \in Eager
    <2> SUFFICES ASSUME NEW n PROVE initial(n).loading <=> n \in Eager
      OBVIOUS
    <2>1. initial(n).loading = (n \in Eager)
      BY Zenon
    <2> QED
      BY <2>1
  <1>7. /\ param = Home /\ version = 0
        /\ state = [n \in Names |-> initial(n)]
        /\ flight = [n \in Names |-> [i \in Slots |->
             IF n \in Eager /\ i = 1 THEN first ELSE Free]]
        /\ event = [e \in Events |-> idle]
        /\ lastOk = [n \in Names |-> NoData]
        /\ overlapped = [n \in Names |-> FALSE]
        /\ completed = [n \in Names |-> 0]
    BY DEF Init
  <1> HIDE DEF first, idle, initial
  <1>8. TypeOK
    <2>1. state \in [Names -> Binding] /\ event \in [Events -> Event]
      BY <1>3, <1>4, <1>7
    <2>2. flight \in [Names -> [Slots -> Request \cup {Free}]]
      BY <1>2, <1>7
    <2> QED
      BY <1>1, <1>7, <2>1, <2>2, BindingsAssumption DEF TypeOK
  <1>9. \A n \in Names, i \in Slots :
          /\ flight[n][i] # Free => i = 1 /\ flight[n][i] = first
          /\ n \in Eager => flight[n][1] = first
    BY <1>7, NumbersAssumption DEF Slots
  <1>10. FreshDataIsCurrent
    BY <1>5, <1>7 DEF FreshDataIsCurrent
  <1>11. LoadingIsInFlight
    <2> SUFFICES ASSUME NEW n \in Names, state[n].loading
                 PROVE  \E i \in Slots : flight[n][i] # Free
      BY DEF LoadingIsInFlight, InFlight, FreeSlots
    <2>1. n \in Eager /\ 1 \in Slots
      BY <1>6, <1>7, NumbersAssumption DEF Slots
    <2> QED
      BY <1>2, <1>9, <2>1
  <1>12. LatestSuccessKept
    BY <1>7, BindingsAssumption DEF LatestSuccessKept
  <1>13. CaptureInv
    BY <1>2, <1>7, <1>9 DEF CaptureInv
  <1>14. VersionInv
    BY <1>5, <1>7 DEF VersionInv
  <1>15. InvalidationInv
    BY <1>3, <1>7 DEF InvalidationInv
  <1>16. WrittenInv
    BY <1>3, <1>7 DEF WrittenInv
  <1> QED
    BY <1>8, <1>10, <1>11, <1>12, <1>13, <1>14, <1>15, <1>16 DEF IInv

LEMMA NextInv == IInv /\ [Next]_vars => IInv'
  <1> SUFFICES ASSUME IInv, [Next]_vars PROVE IInv'
    OBVIOUS
  <1>0. TypeOK /\ BindingsInv /\ InvalidationInv /\ WrittenInv
    BY IInvParts
  <1>1. ASSUME NEW n \in Names, Refresh(n) PROVE IInv'
    <2>1. /\ Start({n}, param) /\ param' \in Params /\ param \in Params
          /\ {n} \in SUBSET Names
          /\ UNCHANGED <<version, event, lastOk, completed>>
      BY <1>0, <1>1 DEF Refresh, TypeOK
    <2> QED
      BY <2>1, RunStep
  <1>2. ASSUME NEW p \in Params, Navigate(p) PROVE IInv'
    <2> DEFINE ns == {n \in RouteLoads : ~DedupeSkips(n, p)}
    <2>1. /\ Start(ns, p) /\ param' \in Params /\ ns \in SUBSET Names
          /\ UNCHANGED <<version, event, lastOk, completed>>
      BY <1>2, BindingsAssumption DEF Navigate
    <2> QED
      BY <2>1, RunStep
  <1>3. CASE BackendChanges
    <2>1. /\ version' \in Versions /\ version' >= version
          /\ version \in Nat /\ version' \in Nat
      BY <1>0, <1>3, NumbersAssumption DEF BackendChanges, TypeOK, Versions
    <2>2. event' \in [Events -> Event] /\ InvalidationInv'
      BY <1>0, <1>3, EventByEvent DEF BackendChanges, TypeOK, histVars
    <2>3. WrittenInv'
      <3>1. \A e \in Events : event[e].at \in Nat /\ event[e].at <= version
        BY <1>0, EventTypes DEF WrittenInv
      <3> QED
        BY <1>3, <2>1, <3>1 DEF BackendChanges, WrittenInv
    <2> QED
      BY <1>3, <2>1, <2>2, <2>3, EventStep DEF BackendChanges
  <1>4. ASSUME NEW n \in Names, NEW i \in Slots, Headers(n, i) PROVE IInv'
    <2> DEFINE r == [flight[n][i] EXCEPT !.step = "body"]
    <2>1. flight[n][i] # Free /\ flight[n][i] \in Request
      BY <1>0, <1>4 DEF Headers, TypeOK
    <2>2. /\ r \in Request /\ r.hasData = flight[n][i].hasData
          /\ r.data = flight[n][i].data /\ r.since = flight[n][i].since
      BY <2>1 DEF Request
    <2>3. /\ flight' = [flight EXCEPT ![n][i] = r]
          /\ UNCHANGED <<param, state, version, event, histVars>>
      BY <1>0, <1>4 DEF Headers, TypeOK
    <2> HIDE DEF r
    <2> QED
      BY <2>1, <2>2, <2>3, RequestStep
  <1>5. ASSUME NEW n \in Names, NEW i \in Slots, Success(n, i) PROVE IInv'
    BY <1>5, SuccessStep
  <1>6. ASSUME NEW n \in Names, NEW i \in Slots, Timeout(n, i) PROVE IInv'
    BY <1>6, ThrowStep DEF Timeout
  <1>7. ASSUME NEW n \in Names, NEW i \in Slots, NetworkError(n, i)
        PROVE  IInv'
    BY <1>7, ThrowStep DEF NetworkError
  <1>8. ASSUME NEW e \in Events,
               \/ SendEvent(e) \/ ServerRuns(e) \/ EventAnswered(e)
               \/ EventLost(e) \/ RunLocally(e) \/ InvalidationsDone(e)
        PROVE  IInv'
    BY <1>8, QuietEventStep
  <1>9. ASSUME NEW e \in Events, InvalidateNext(e) PROVE IInv'
    BY <1>9, InvalidateNextStep
  <1>10. CASE UNCHANGED vars
    BY <1>10 DEF vars, histVars, IInv, TypeOK, FreshDataIsCurrent,
       LoadingIsInFlight, InFlight, FreeSlots, LatestSuccessKept, CaptureInv,
       VersionInv, InvalidationInv, WrittenInv
  <1> QED
    BY <1>1, <1>2, <1>3, <1>4, <1>5, <1>6, <1>7, <1>8, <1>9, <1>10 DEF Next

\* The inductive invariant of the fetch bindings.
THEOREM Inductive == Spec => []IInv
  BY InitInv, NextInv, PTL DEF Spec

-----------------------------------------------------------------------------
(* What follows.                                                           *)

\* Every variable keeps its type; retries included, for any retryCount.
THEOREM TypeCorrect == Spec => []TypeOK
  <1>1. IInv => TypeOK
    BY DEF IInv
  <1> QED
    BY <1>1, Inductive, PTL

\* What a binding shows as fresh was read from the target it names.
THEOREM FreshDataHonest == Spec => []FreshDataIsCurrent
  <1>1. IInv => FreshDataIsCurrent
    BY DEF IInv
  <1> QED
    BY <1>1, Inductive, PTL

\* The loading state is never left behind, in any order of answers.
THEOREM LoadingHonest == Spec => []LoadingIsInFlight
  <1>1. IInv => LoadingIsInFlight
    BY DEF IInv
  <1> QED
    BY <1>1, Inductive, PTL

\* `stale keep` keeps its promise for a binding whose requests never overlap.
THEOREM StaleKeepHolds == Spec => []LatestSuccessKept
  <1>1. IInv => LatestSuccessKept
    BY DEF IInv
  <1> QED
    BY <1>1, Inductive, PTL

\* An event whose invalidations are done has had every name asked anew.
THEOREM InvalidationComplete == Spec => []InvalidationRefreshes
  <1>1. IInv => InvalidationRefreshes
    <2> SUFFICES ASSUME IInv, NEW e \in Events, event[e].step = "done",
                        NEW i \in 1..Len(Invalidates)
                 PROVE  completed[Invalidates[i]] >= event[e].at
      BY DEF InvalidationRefreshes
    <2>1. TypeOK /\ EventInv(event[e], flight, completed)
      BY IInvParts, EventByEvent
    <2>2. Len(Invalidates) \in Nat
      BY BindingsAssumption
    <2> QED
      BY <2>1, <2>2 DEF EventInv
  <1> QED
    BY <1>1, Inductive, PTL

\* After its invalidations, a binding shows what the event wrote.
THEOREM InvalidationReadsItsWrites == Spec => []ReadsItsWrites
  <1>1. IInv => ReadsItsWrites
    <2> SUFFICES ASSUME IInv, NEW e \in Events, event[e].step = "done",
                        NEW i \in 1..Len(Invalidates),
                        state[Invalidates[i]].ok, ~overlapped[Invalidates[i]]
                 PROVE  state[Invalidates[i]].data.version >= event[e].at
      BY DEF ReadsItsWrites
    <2> DEFINE n == Invalidates[i]
    <2>1. TypeOK /\ BindingsInv /\ EventInv(event[e], flight, completed)
      BY IInvParts, EventByEvent
    <2>2. Len(Invalidates) \in Nat /\ n \in Names
      BY BindingsAssumption
    <2>3. completed[n] >= event[e].at
      BY <2>1, <2>2 DEF EventInv
    <2>4. state[n].hasData /\ state[n].data.version >= completed[n]
      BY <2>1, <2>2 DEF BindingsInv, VersionInv
    <2>5. state[n].data \in Payload
      <3>1. state[n].data # NoData
        BY <2>1, <2>2, <2>4 DEF BindingsInv, FreshDataIsCurrent
      <3> QED
        BY <2>1, <2>2, <3>1 DEF TypeOK, Binding
    <2>6. /\ state[n].data.version \in Nat /\ completed[n] \in Nat
          /\ event[e].at \in Nat
      BY <2>1, <2>2, <2>5, EventTypes, NumbersAssumption
      DEF Payload, Versions, TypeOK
    <2> QED
      BY <2>3, <2>4, <2>6
  <1> QED
    BY <1>1, Inductive, PTL

=============================================================================
