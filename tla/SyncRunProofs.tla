---------------------------- MODULE SyncRunProofs ----------------------------
(***************************************************************************)
(* What is proved about event ingest, and about RunSyncOnce beside it.     *)
(*                                                                         *)
(* First EventIngest alone, for any number of goroutines, fingerprints and *)
(* event ids, both stores, with and without DeepSOC, with failing store    *)
(* calls and any number of stops of the process.  Then SyncRun, for every  *)
(* feed of events, batch size, number of retries and number of runs and    *)
(* sensors at work at once: its steps are steps of EventIngest, so that    *)
(* everything proved there holds beside it, and its cursor and rows are    *)
(* sound.                                                                  *)
(***************************************************************************)
EXTENDS SyncRun, TLAPS

-----------------------------------------------------------------------------
(* EventIngest: types.                                                     *)

\* The initial state is well typed.
LEMMA InitTypeOK == Init => TypeOK
BY IdsAssumption, ModeAssumption
   DEF Init, TypeOK, Requests, Steps, Idle

\* Every step of ProcessLyEvent and CreateEventFromRequest keeps the types.
LEMMA ServeTypeOK ==
    ASSUME TypeOK, NEW h \in Handlers, Serve(h)
    PROVE  TypeOK'
<1> USE IdsAssumption, ModeAssumption
        DEF At, Goto, Finish, Idle, store, history, Requests, Steps
<1> req[h] \in Requests
  BY DEF TypeOK
<1>1. CASE ReserveFingerprint(h)
  BY <1>1 DEF ReserveFingerprint, TypeOK
<1>2. CASE AlreadyReserved(h)
  BY <1>2 DEF AlreadyReserved, ReservationFails, TypeOK
<1>3. CASE Skip(h)
  <2>1. PICK e \in EventIds \cup {NoId} : SkipDuplicate(h, e)
    BY <1>3 DEF Skip
  <2>2. req[h].fp \in Fps
    BY <2>1 DEF Skip, SkipDuplicate, TypeOK
  <2>3. answers' \subseteq [fp : Fps, id : EventIds]
    BY <2>1, <2>2 DEF Skip, SkipDuplicate, Answer, TypeOK
  <2> QED
    BY <2>1, <2>3 DEF Skip, SkipDuplicate, TypeOK
<1>14. CASE ReservationFails(h)
  BY <1>14 DEF ReservationFails, TypeOK
<1>4. CASE RemoteCreate(h)
  <2>1. PICK e \in EventIds \cup {NoId} :
          /\ req' = [req EXCEPT ![h].pc = "bind", ![h].id = e]
          /\ failed' = IF e = NoId THEN failed \cup {req[h].fp} ELSE failed
    BY <1>4 DEF RemoteCreate
  <2>2. req' \in [Handlers -> Requests] /\ failed' \subseteq Fps
    BY <1>4, <2>1 DEF RemoteCreate, TypeOK
  <2>3. \A g \in Handlers : req'[g].pc \in {"reserve", "lookup", "bind"}
                              => req'[g].fp \in Fps
    BY <1>4, <2>1 DEF RemoteCreate, TypeOK
  <2>4. attempts' \in [Fps -> 0..MaxAttempts]
    BY <1>4 DEF RemoteCreate, CountAttempt, TypeOK
  <2>5. UNCHANGED <<eventMap, events, notes, refused, answers, crashes>>
    BY <1>4 DEF RemoteCreate
  <2> HIDE DEF Requests, Steps
  <2> QED
    BY <2>2, <2>3, <2>4, <2>5 DEF TypeOK
<1>5. CASE RemoteCreateFails(h)
  BY <1>5 DEF RemoteCreateFails, CountAttempt, AbandonPush, TypeOK
<1>6. CASE LocalCreate(h)
  <2>1. PayloadId(h) \in EventIds
    BY <1>6 DEF LocalCreate, PayloadId, TypeOK
  <2>2. req' \in [Handlers -> Requests]
    BY <1>6, <2>1 DEF LocalCreate, TypeOK
  <2>3. \A g \in Handlers : req'[g].pc \in {"reserve", "lookup", "bind"}
                              => req'[g].fp \in Fps
    BY <1>6, <2>1 DEF LocalCreate, TypeOK
  <2>4. attempts' \in [Fps -> 0..MaxAttempts]
    BY <1>6 DEF LocalCreate, CountAttempt, TypeOK
  <2>5. events' \in [EventIds -> {Absent, NoFp} \cup Fps]
    BY <1>6, <2>1 DEF LocalCreate, TypeOK
  <2>6. UNCHANGED <<eventMap, notes, failed, refused, answers, crashes>>
    BY <1>6 DEF LocalCreate
  <2> HIDE DEF Requests, Steps
  <2> QED
    BY <2>2, <2>3, <2>4, <2>5, <2>6 DEF TypeOK
<1>7. CASE LocalCreateFails(h)
  <2>1. PayloadId(h) \in EventIds /\ req[h].fp \in Fps
    BY <1>7 DEF LocalCreateFails, PayloadId, TypeOK
  <2>2. events' \in [EventIds -> {Absent, NoFp} \cup Fps]
    BY <1>7, <2>1 DEF LocalCreateFails, InsertFails, TypeOK
  <2>3. req' \in [Handlers -> Requests] /\ failed' \subseteq Fps
    BY <1>7, <2>1 DEF LocalCreateFails, AbandonPush, TypeOK
  <2>4. \A g \in Handlers : req'[g].pc \in {"reserve", "lookup", "bind"}
                              => req'[g].fp \in Fps
    BY <1>7 DEF LocalCreateFails, AbandonPush, TypeOK
  <2>5. attempts' \in [Fps -> 0..MaxAttempts]
    BY <1>7 DEF LocalCreateFails, CountAttempt, TypeOK
  <2>6. UNCHANGED <<eventMap, notes, refused, answers, crashes>>
    BY <1>7 DEF LocalCreateFails, AbandonPush
  <2> HIDE DEF Requests, Steps
  <2> QED
    BY <2>2, <2>3, <2>4, <2>5, <2>6 DEF TypeOK
<1>8. CASE BindEventMap(h)
  BY <1>8 DEF BindEventMap, TypeOK
<1>9. CASE BindEventMapFails(h)
  BY <1>9 DEF BindEventMapFails, TypeOK
<1>10. CASE CreateEvent(h)
  BY <1>10 DEF CreateEvent, TypeOK
<1>11. CASE CreateEventFails(h)
  BY <1>11 DEF CreateEventFails, InsertFails, TypeOK
<1>12. CASE AddCreationNote(h)
  BY <1>12 DEF AddCreationNote, TypeOK
<1>13. CASE Publish(h)
  <2>1. answers' \subseteq [fp : Fps, id : EventIds]
    BY <1>13 DEF Publish, Answer, TypeOK
  <2> QED
    BY <1>13, <2>1 DEF Publish, TypeOK
<1> QED
  BY <1>1, <1>2, <1>3, <1>4, <1>5, <1>6, <1>7, <1>8, <1>9, <1>10, <1>11,
     <1>12, <1>13, <1>14 DEF Serve

\* A stop of the process keeps the types.
LEMMA CrashTypeOK == TypeOK /\ Crash => TypeOK'
BY IdsAssumption, ModeAssumption
   DEF TypeOK, Crash, store, Requests, Steps, Idle, InFlight, At

\* Every step of the service keeps the types.
LEMMA StepTypeOK == TypeOK /\ [Next]_vars => TypeOK'
<1> SUFFICES ASSUME TypeOK, [Next]_vars
             PROVE  TypeOK'
  OBVIOUS
<1>1. ASSUME NEW h \in Handlers, NEW a \in Alerts, Push(h, a)
      PROVE  TypeOK'
  BY <1>1, IdsAssumption
     DEF Push, TypeOK, Requests, Steps, store, history
<1>2. ASSUME NEW h \in Handlers, NEW e \in EventIds, PostEvent(h, e)
      PROVE  TypeOK'
  BY <1>2, IdsAssumption
     DEF PostEvent, TypeOK, Requests, Steps, store, history
<1>3. CASE UNCHANGED vars
  BY <1>3 DEF vars, store, history, TypeOK, Requests, Steps
<1> QED
  BY <1>1, <1>2, <1>3, ServeTypeOK, CrashTypeOK DEF Next

\* Every variable keeps the shape the code gives it, in every run of the
\* service, whatever its size.
THEOREM Typing == Spec => []TypeOK
BY InitTypeOK, StepTypeOK, PTL DEF Spec

-----------------------------------------------------------------------------
(* One event per fingerprint.                                              *)

\* Goroutine h has reserved the fingerprint of its alert and not bound it.
Claiming(h) == (At(h, "create") \/ At(h, "bind")) /\ req[h].fp \in Fps

\* A reservation has one owner, who finds it as it was made; while it is
\* kept in PostgreSQL, its owner is the only one that ever asks for an event.
ClaimInv ==
    /\ \A h \in Handlers : Claiming(h) => eventMap[req[h].fp] = NoId
    /\ \A g, h \in Handlers :
          Claiming(g) /\ Claiming(h) /\ req[g].fp = req[h].fp => g = h
    /\ Persistent =>
          /\ \A f \in Fps : attempts[f] <= 1
          /\ \A f \in Fps : eventMap[f] = Unclaimed => attempts[f] = 0
          /\ \A h \in Handlers : Claiming(h) /\ At(h, "create")
                                   => attempts[req[h].fp] = 0

\* What a step of goroutine h leaves alone: the other goroutines.
LEMMA ServeFrame ==
    ASSUME TypeOK, NEW h \in Handlers, Serve(h)
    PROVE  \A g \in Handlers \ {h} : req'[g] = req[g]
BY DEF TypeOK, Serve, ReserveFingerprint, AlreadyReserved, ReservationFails, Skip, SkipDuplicate,
       RemoteCreate, RemoteCreateFails, LocalCreate, LocalCreateFails,
       AbandonPush, BindEventMap, BindEventMapFails, CreateEvent,
       CreateEventFails, AddCreationNote, Publish, Goto, Finish

\* A goroutine that stops claiming, or never claims, cannot break ClaimInv
\* when it leaves event_maps and the attempts alone.
LEMMA QuietStep ==
    ASSUME TypeOK, ClaimInv, NEW h \in Handlers,
           \A g \in Handlers \ {h} : req'[g] = req[g],
           ~Claiming(h)', UNCHANGED <<eventMap, attempts>>
    PROVE  ClaimInv'
BY DEF ClaimInv, Claiming, At

\* The same when the goroutine was claiming and counts its one attempt or
\* binds its fingerprint.
LEMMA OwnerStep ==
    ASSUME TypeOK, ClaimInv, NEW h \in Handlers,
           \A g \in Handlers \ {h} : req'[g] = req[g],
           Claiming(h), ~At(h, "create")',
           Claiming(h)' => req'[h].fp = req[h].fp /\ UNCHANGED eventMap,
           \/ UNCHANGED eventMap
           \/ \E e \in EventIds \cup {NoId} :
                 eventMap' = [eventMap EXCEPT ![req[h].fp] = e],
           \/ UNCHANGED attempts
           \/ At(h, "create") /\ CountAttempt(req[h].fp)
    PROVE  ClaimInv'
<1> USE IdsAssumption, ModeAssumption DEF At, Claiming
<1> DEFINE f == req[h].fp
<1>1. f \in Fps /\ eventMap[f] = NoId
  BY DEF ClaimInv
<1>2. \A g \in Handlers \ {h} : Claiming(g)' => req[g].fp # f
  BY DEF ClaimInv
<1>3. \A d \in Fps \ {f} : eventMap'[d] = eventMap[d] /\ attempts'[d] = attempts[d]
  BY DEF TypeOK, CountAttempt
<1>4. eventMap'[f] \in EventIds \cup {NoId}
  BY <1>1 DEF TypeOK
<1>5. Persistent => attempts'[f] <= 1
  BY <1>1 DEF TypeOK, CountAttempt, ClaimInv
<1>6. \A g \in Handlers : Claiming(g)' => eventMap'[req'[g].fp] = NoId
  BY <1>1, <1>2, <1>3 DEF ClaimInv
<1>7. \A g, k \in Handlers :
        Claiming(g)' /\ Claiming(k)' /\ req'[g].fp = req'[k].fp => g = k
  BY <1>2 DEF ClaimInv
<1>8. Persistent => \A d \in Fps : attempts'[d] <= 1
  BY <1>3, <1>5 DEF ClaimInv
<1>9. Persistent => \A d \in Fps : eventMap'[d] = Unclaimed => attempts'[d] = 0
  BY <1>3, <1>4 DEF ClaimInv
<1>10. Persistent => \A g \in Handlers : (Claiming(g) /\ At(g, "create"))'
                                          => attempts'[req'[g].fp] = 0
  BY <1>2, <1>3 DEF ClaimInv
<1> QED
  BY <1>6, <1>7, <1>8, <1>9, <1>10 DEF ClaimInv

\* Every step of a request keeps the reservations exclusive.
LEMMA ServeClaimInv ==
    ASSUME TypeOK, ClaimInv, NEW h \in Handlers, Serve(h)
    PROVE  ClaimInv'
<1> USE IdsAssumption, ModeAssumption
<1>0. \A g \in Handlers \ {h} : req'[g] = req[g]
  BY ServeFrame
<1> DEFINE Quiet == ~Claiming(h)' /\ UNCHANGED <<eventMap, attempts>>
<1>1. CASE ReserveFingerprint(h)
  <2> DEFINE f == req[h].fp
  <2>1. /\ f \in Fps /\ eventMap[f] = Unclaimed
        /\ eventMap' = [eventMap EXCEPT ![f] = NoId]
        /\ attempts' = attempts
        /\ req'[h] = [req[h] EXCEPT !.pc = "create"]
    BY <1>1 DEF ReserveFingerprint, Goto, At, TypeOK, history
  <2>2. \A g \in Handlers : Claiming(g) => req[g].fp # f
    BY <2>1 DEF ClaimInv
  <2>3. \A g \in Handlers \ {h} : Claiming(g)' <=> Claiming(g)
    BY <1>0 DEF Claiming, At
  <2>4. req'[h].fp = f
    BY <2>1 DEF TypeOK, Requests
  <2>5. /\ eventMap'[f] = NoId
        /\ \A d \in Fps \ {f} : eventMap'[d] = eventMap[d]
    BY <2>1 DEF TypeOK
  <2>6. \A g \in Handlers : Claiming(g)' => eventMap'[req'[g].fp] = NoId
    BY <1>0, <2>3, <2>4, <2>5 DEF ClaimInv, Claiming
  <2>7. \A g, k \in Handlers :
          Claiming(g)' /\ Claiming(k)' /\ req'[g].fp = req'[k].fp => g = k
    BY <1>0, <2>2, <2>3, <2>4 DEF ClaimInv
  <2>8. Persistent => /\ \A d \in Fps : attempts'[d] <= 1
                      /\ \A d \in Fps : eventMap'[d] = Unclaimed => attempts'[d] = 0
                      /\ attempts'[f] = 0
    BY <2>1, <2>5 DEF ClaimInv
  <2>9. Persistent => \A g \in Handlers : (Claiming(g) /\ At(g, "create"))'
                                          => attempts'[req'[g].fp] = 0
    BY <1>0, <2>1, <2>3, <2>4, <2>8 DEF ClaimInv, At
  <2> QED
    BY <2>6, <2>7, <2>8, <2>9 DEF ClaimInv
<1>2. CASE \/ AlreadyReserved(h) \/ Skip(h) \/ CreateEventFails(h)
           \/ AddCreationNote(h) \/ Publish(h) \/ CreateEvent(h)
  <2>1. Quiet
    BY <1>2 DEF AlreadyReserved, ReservationFails, Skip, SkipDuplicate, CreateEventFails, CreateEvent,
          AddCreationNote, Publish, Goto, Finish, Idle, Claiming, At, TypeOK,
          store, history, Requests
  <2> QED
    BY <1>0, <2>1, QuietStep
<1>3. CASE RemoteCreate(h) \/ LocalCreate(h)
  BY <1>0, <1>3, OwnerStep
     DEF RemoteCreate, LocalCreate, Claiming, At, TypeOK, store, Requests
<1>4. CASE RemoteCreateFails(h) \/ LocalCreateFails(h)
  BY <1>0, <1>4, OwnerStep
     DEF RemoteCreateFails, LocalCreateFails, AbandonPush, Finish, Idle,
         Claiming, At, TypeOK, store
<1>5. CASE BindEventMap(h) \/ BindEventMapFails(h)
  BY <1>0, <1>5, OwnerStep
     DEF BindEventMap, BindEventMapFails, Goto, Claiming, At, TypeOK, store,
         history, Requests
<1>6. CASE ReservationFails(h)
  <2> DEFINE f == req[h].fp
  <2>1. /\ f \in Fps /\ eventMap[f] = Unclaimed /\ attempts' = attempts
        /\ eventMap' = eventMap \/ eventMap' = [eventMap EXCEPT ![f] = NoId]
        /\ ~Claiming(h)'
    BY <1>6 DEF ReservationFails, Goto, Claiming, At, TypeOK
  <2>2. CASE eventMap' = eventMap
    BY <1>0, <2>1, <2>2, QuietStep
  <2>3. CASE eventMap' = [eventMap EXCEPT ![f] = NoId]
    <3>1. /\ eventMap'[f] = NoId
          /\ \A d \in Fps \ {f} : eventMap'[d] = eventMap[d]
      BY <2>1, <2>3 DEF TypeOK
    <3>2. \A g \in Handlers : Claiming(g)' => g # h /\ Claiming(g) /\ req'[g].fp = req[g].fp
      BY <1>0, <2>1 DEF Claiming, At
    <3>3. \A g \in Handlers : (Claiming(g) /\ At(g, "create"))' => At(g, "create")
      BY <1>0, <3>2 DEF At
    <3>4. \A g \in Handlers : Claiming(g)' => eventMap'[req'[g].fp] = NoId
      BY <2>1, <3>1, <3>2 DEF ClaimInv, Claiming
    <3> QED
      BY <2>1, <3>1, <3>2, <3>3, <3>4 DEF ClaimInv
  <2> QED
    BY <2>1, <2>2, <2>3
<1> QED
  BY <1>1, <1>2, <1>3, <1>4, <1>5, <1>6 DEF Serve

\* ClaimInv is an invariant.
LEMMA ClaimInvariant == Spec => []ClaimInv
<1>1. Init => ClaimInv
  BY IdsAssumption DEF Init, ClaimInv, Claiming, At, Idle
<1>2. TypeOK /\ ClaimInv /\ [Next]_vars => ClaimInv'
  <2> SUFFICES ASSUME TypeOK, ClaimInv, [Next]_vars
               PROVE  ClaimInv'
    OBVIOUS
  <2>1. ASSUME NEW h \in Handlers, NEW a \in Alerts, Push(h, a)
        PROVE  ClaimInv'
    BY <2>1, QuietStep, IdsAssumption
       DEF Push, Claiming, At, TypeOK, store, history
  <2>2. ASSUME NEW h \in Handlers, NEW e \in EventIds, PostEvent(h, e)
        PROVE  ClaimInv'
    BY <2>2, QuietStep, IdsAssumption
       DEF PostEvent, Claiming, At, TypeOK, store, history
  <2>3. CASE Crash
    BY <2>3, IdsAssumption, ModeAssumption
       DEF Crash, ClaimInv, Claiming, At, Idle, store
  <2>4. CASE UNCHANGED vars
    BY <2>4 DEF vars, store, history, ClaimInv, Claiming, At
  <2> QED
    BY <2>1, <2>2, <2>3, <2>4, ServeClaimInv DEF Next
<1> QED
  BY <1>1, <1>2, Typing, PTL DEF Spec

\* ProcessLyEvent asks for at most one event per fingerprint, whoever repeats
\* the alert and whatever fails, as long as event_maps is in PostgreSQL.
THEOREM OneAttempt == Spec => []AtMostOneAttempt
<1>1. ClaimInv => AtMostOneAttempt
  BY DEF ClaimInv, AtMostOneAttempt
<1> QED
  BY <1>1, ClaimInvariant, PTL

-----------------------------------------------------------------------------
(* The ledger of claims.                                                   *)

\* A step of a request is a claim, a settlement or leaves the ledger alone.
LEMMA ServeRefines ==
    ASSUME TypeOK, ClaimInv, NEW h \in Handlers, Serve(h)
    PROVE  Ledger!Next \/ UNCHANGED eventMap
<1>1. CASE ReserveFingerprint(h)
  BY <1>1 DEF ReserveFingerprint, At, TypeOK, Ledger!Next, Ledger!Claim
<1>2. CASE BindEventMap(h)
  <2> DEFINE f == req[h].fp
             e == req[h].id
  <2>1. f \in Fps /\ e \in EventIds \cup {NoId}
    BY <1>2 DEF BindEventMap, At, TypeOK, Requests
  <2>2. eventMap[f] = NoId /\ eventMap' = [eventMap EXCEPT ![f] = e]
    BY <1>2, <2>1 DEF BindEventMap, ClaimInv, Claiming
  <2>3. CASE e = NoId
    BY <2>1, <2>2, <2>3 DEF TypeOK
  <2>4. CASE e \in EventIds
    BY <2>1, <2>2, <2>4 DEF Ledger!Next, Ledger!Settle
  <2> QED
    BY <2>1, <2>3, <2>4
<1>4. CASE ReservationFails(h)
  BY <1>4 DEF ReservationFails, At, TypeOK, Ledger!Next, Ledger!Claim
<1>3. CASE ~ReserveFingerprint(h) /\ ~BindEventMap(h) /\ ~ReservationFails(h)
  BY <1>3 DEF Serve, AlreadyReserved, ReservationFails, Skip, SkipDuplicate, RemoteCreate,
              RemoteCreateFails, LocalCreate, LocalCreateFails, AbandonPush,
              BindEventMapFails, CreateEvent, CreateEventFails,
              AddCreationNote, Publish, store
<1> QED
  BY <1>1, <1>2, <1>3, <1>4

\* event_maps, with goroutines racing, failing and stopping, behaves as the
\* ledger: one claim per fingerprint, settled once, taken back only by a
\* restart of a service on the memory store.
THEOREM Refinement == Spec => LedgerSpec
<1>1. Init => Ledger!Init
  BY DEF Init, Ledger!Init
<1>2. TypeOK /\ ClaimInv /\ [Next]_vars => [Ledger!Next]_eventMap
  <2> SUFFICES ASSUME TypeOK, ClaimInv, [Next]_vars
               PROVE  Ledger!Next \/ UNCHANGED eventMap
    OBVIOUS
  <2>1. CASE Crash
    BY <2>1 DEF Crash, store, Ledger!Next, Ledger!Lose
  <2>2. CASE \/ \E h \in Handlers, a \in Alerts : Push(h, a)
             \/ \E h \in Handlers, e \in EventIds : PostEvent(h, e)
             \/ UNCHANGED vars
    BY <2>2 DEF Push, PostEvent, store, vars
  <2> QED
    BY <2>1, <2>2, ServeRefines DEF Next
<1> QED
  BY <1>1, <1>2, Typing, ClaimInvariant, PTL DEF Spec, LedgerSpec, Ledger!Spec

-----------------------------------------------------------------------------
(* What a binding is about.                                                *)

\* A local event on its way to be bound is the one made from the alert.
OwnEventInv ==
    /\ BoundToOwnEvent
    /\ ~RemoteEnabled => \A h \in Handlers :
          At(h, "bind") => req[h].id \in EventIds /\ events[req[h].id] = req[h].fp

\* An event in the store is never replaced: CreateEvent refuses a taken id.
LEMMA EventsStay ==
    ASSUME TypeOK, NEW h \in Handlers, Serve(h)
    PROVE  \A e \in EventIds : events[e] # Absent => events'[e] = events[e]
<1>1. CASE LocalCreate(h)
  BY <1>1 DEF LocalCreate, TypeOK
<1>2. CASE CreateEvent(h)
  BY <1>2 DEF CreateEvent, TypeOK
<1>3. CASE LocalCreateFails(h) \/ CreateEventFails(h)
  BY <1>3 DEF LocalCreateFails, CreateEventFails, InsertFails, TypeOK
<1>4. CASE ~(LocalCreate(h) \/ CreateEvent(h) \/ LocalCreateFails(h) \/ CreateEventFails(h))
  BY <1>4 DEF Serve, ReserveFingerprint, AlreadyReserved, ReservationFails, Skip, SkipDuplicate,
              RemoteCreate, RemoteCreateFails, AbandonPush,
              BindEventMap, BindEventMapFails,
              AddCreationNote, Publish, store
<1> QED
  BY <1>1, <1>2, <1>3, <1>4

\* A step of a request binds only what it has made.
LEMMA ServeOwnEvent ==
    ASSUME TypeOK, OwnEventInv, NEW h \in Handlers, Serve(h)
    PROVE  OwnEventInv'
<1> USE IdsAssumption
<1> SUFFICES ASSUME ~RemoteEnabled
             PROVE  OwnEventInv'
  BY DEF OwnEventInv, BoundToOwnEvent
<1>1. \A g \in Handlers \ {h} : req'[g] = req[g]
  BY ServeFrame
<1>2. \A e \in EventIds, f \in Fps : events[e] = f => events'[e] = f
  BY EventsStay
<1>3. \A g \in Handlers : At(g, "bind") => req[g].fp \in Fps
  BY DEF TypeOK, At
<1>4. \A g \in Handlers \ {h} : At(g, "bind")' =>
          req'[g].id \in EventIds /\ events'[req'[g].id] = req'[g].fp
  BY <1>1, <1>2, <1>3 DEF OwnEventInv, At
<1>5. CASE LocalCreate(h)
  <2>1. PayloadId(h) \in EventIds /\ req[h].fp \in Fps
    BY <1>5 DEF LocalCreate, PayloadId, TypeOK, Requests
  <2>2. req'[h].id = PayloadId(h) /\ req'[h].fp = req[h].fp
    BY <1>5 DEF LocalCreate, TypeOK, Requests
  <2>3. events'[PayloadId(h)] = req[h].fp /\ eventMap' = eventMap
    BY <1>5, <2>1 DEF LocalCreate, TypeOK
  <2> QED
    BY <1>2, <1>4, <2>1, <2>2, <2>3 DEF OwnEventInv, BoundToOwnEvent
<1>6. CASE BindEventMap(h)
  <2>1. req[h].id \in EventIds /\ events[req[h].id] = req[h].fp /\ req[h].fp \in Fps
    BY <1>3, <1>6 DEF BindEventMap, OwnEventInv
  <2>2. eventMap' = [eventMap EXCEPT ![req[h].fp] = req[h].id]
    BY <1>6 DEF BindEventMap
  <2>3. ~At(h, "bind")'
    BY <1>6 DEF BindEventMap, Goto, At, TypeOK, Requests
  <2>4. \A f \in Fps : eventMap'[f] \in EventIds => events'[eventMap'[f]] = f
    BY <1>2, <2>1, <2>2 DEF OwnEventInv, BoundToOwnEvent, TypeOK
  <2> QED
    BY <1>4, <2>3, <2>4 DEF OwnEventInv, BoundToOwnEvent
<1>7. CASE ~LocalCreate(h) /\ ~BindEventMap(h)
  <2>1. ~At(h, "bind")'
    BY <1>7 DEF Serve, ReserveFingerprint, AlreadyReserved, ReservationFails, Skip, SkipDuplicate,
                RemoteCreate, RemoteCreateFails, LocalCreateFails, AbandonPush,
                BindEventMapFails, CreateEvent, CreateEventFails,
                AddCreationNote, Publish, Goto, Finish, Idle, At, TypeOK, Requests
  <2>2. \A f \in Fps : eventMap'[f] \in EventIds => eventMap'[f] = eventMap[f]
    BY <1>7 DEF Serve, ReserveFingerprint, AlreadyReserved, ReservationFails, Skip, SkipDuplicate,
                RemoteCreate, RemoteCreateFails, LocalCreateFails, AbandonPush,
                BindEventMapFails, CreateEvent, CreateEventFails,
                AddCreationNote, Publish, TypeOK, At, store
  <2> QED
    BY <1>2, <1>4, <2>1, <2>2 DEF OwnEventInv, BoundToOwnEvent
<1> QED
  BY <1>5, <1>6, <1>7

\* The id bound to an alert is the id of the event made from it, however
\* manual events and other alerts compete for that id.
THEOREM OwnEvent == Spec => []BoundToOwnEvent
<1>1. Init => OwnEventInv
  BY IdsAssumption DEF Init, OwnEventInv, BoundToOwnEvent, At, Idle
<1>2. TypeOK /\ OwnEventInv /\ [Next]_vars => OwnEventInv'
  <2> SUFFICES ASSUME TypeOK, OwnEventInv, [Next]_vars
               PROVE  OwnEventInv'
    OBVIOUS
  <2>1. ASSUME NEW h \in Handlers, NEW a \in Alerts, Push(h, a)
        PROVE  OwnEventInv'
    BY <2>1 DEF Push, OwnEventInv, BoundToOwnEvent, At, TypeOK, store, history
  <2>2. ASSUME NEW h \in Handlers, NEW e \in EventIds, PostEvent(h, e)
        PROVE  OwnEventInv'
    BY <2>2 DEF PostEvent, OwnEventInv, BoundToOwnEvent, At, TypeOK, store, history
  <2>3. CASE Crash
    BY <2>3, IdsAssumption, ModeAssumption
       DEF Crash, OwnEventInv, BoundToOwnEvent, At, Idle, store
  <2>4. CASE UNCHANGED vars
    BY <2>4 DEF vars, store, history, OwnEventInv, BoundToOwnEvent, At
  <2> QED
    BY <2>1, <2>2, <2>3, <2>4, ServeOwnEvent DEF Next
<1> QED
  BY <1>1, <1>2, Typing, PTL DEF Spec, OwnEventInv

-----------------------------------------------------------------------------
(* Reservations that nobody will bind.                                     *)

\* An answer of DeepSOC without an id is on record before it is bound.
OrphanInv ==
    /\ OrphansHaveCauses
    /\ \A h \in Handlers : At(h, "bind") /\ req[h].id = NoId => req[h].fp \in failed

\* A step of a request abandons a reservation only for a cause.
LEMMA ServeOrphanInv ==
    ASSUME TypeOK, OrphanInv, NEW h \in Handlers, Serve(h)
    PROVE  OrphanInv'
<1> USE IdsAssumption
<1> DEFINE Owns(g, f) == req[g].fp = f /\ (At(g, "create") \/ At(g, "bind"))
<1>1. \A g \in Handlers \ {h} : req'[g] = req[g]
  BY ServeFrame
<1>2. failed \subseteq failed' /\ refused \subseteq refused'
  BY DEF Serve, ReserveFingerprint, AlreadyReserved, ReservationFails, Skip, SkipDuplicate,
         RemoteCreate, RemoteCreateFails, LocalCreate, LocalCreateFails,
         AbandonPush, BindEventMap, BindEventMapFails, CreateEvent,
         CreateEventFails, AddCreationNote, Publish, history
<1>3. (At(h, "bind") /\ req[h].id = NoId)' => req'[h].fp \in failed'
  <2>1. CASE LocalCreate(h)
    <3>1. PayloadId(h) \in EventIds
      BY <2>1 DEF LocalCreate, PayloadId, TypeOK, Requests
    <3>2. req'[h].id = PayloadId(h)
      BY <2>1 DEF LocalCreate, TypeOK, Requests
    <3> QED
      BY <3>1, <3>2
  <2>2. CASE RemoteCreate(h)
    <3>1. PICK e \in EventIds \cup {NoId} :
            /\ req' = [req EXCEPT ![h].pc = "bind", ![h].id = e]
            /\ failed' = IF e = NoId THEN failed \cup {req[h].fp} ELSE failed
      BY <2>2 DEF RemoteCreate
    <3>2. req'[h].id = e /\ req'[h].fp = req[h].fp
      BY <3>1 DEF TypeOK, Requests
    <3> QED
      BY <3>1, <3>2
  <2>3. CASE ~LocalCreate(h) /\ ~RemoteCreate(h)
    BY <2>3 DEF Serve, ReserveFingerprint, AlreadyReserved, ReservationFails, Skip, SkipDuplicate,
                RemoteCreateFails, LocalCreateFails, AbandonPush, BindEventMap,
                BindEventMapFails, CreateEvent, CreateEventFails,
                AddCreationNote, Publish, Goto, Finish, Idle, At, TypeOK, Requests
  <2> QED
    BY <2>1, <2>2, <2>3
<1>4. ASSUME NEW f \in Fps, eventMap'[f] = NoId
      PROVE  f \in (failed \cup refused)' \/ \E g \in Handlers : Owns(g, f)'
  <2>1. CASE ReserveFingerprint(h) /\ req[h].fp = f
    <3>1. req'[h].fp = f /\ req'[h].pc = "create"
      BY <2>1 DEF ReserveFingerprint, Goto, TypeOK, Requests
    <3> QED
      BY <3>1 DEF At
  <2>2. CASE BindEventMap(h) /\ req[h].fp = f
    <3>1. req[h].id = NoId
      BY <1>4, <2>2 DEF BindEventMap, TypeOK, At, Requests
    <3> QED
      BY <1>2, <2>2, <3>1 DEF BindEventMap, OrphanInv
  <2>4. CASE ReservationFails(h) /\ req[h].fp = f
    BY <2>4 DEF ReservationFails
  <2>3. CASE ~((ReserveFingerprint(h) \/ BindEventMap(h) \/ ReservationFails(h)) /\ req[h].fp = f)
    <3>1. eventMap[f] = NoId
      BY <1>4, <2>3 DEF Serve, ReserveFingerprint, AlreadyReserved, ReservationFails, Skip, SkipDuplicate,
            RemoteCreate, RemoteCreateFails, LocalCreate, LocalCreateFails,
            AbandonPush, BindEventMap, BindEventMapFails, CreateEvent,
            CreateEventFails, AddCreationNote, Publish, TypeOK, store
    <3>2. CASE f \in failed \cup refused
      BY <1>2, <3>2
    <3>3. CASE \E g \in Handlers \ {h} : Owns(g, f)
      BY <1>1, <3>3 DEF At
    <3>4. CASE Owns(h, f)
      <4>1. CASE RemoteCreate(h) \/ LocalCreate(h)
        <5>1. req'[h].fp = f /\ req'[h].pc = "bind"
          BY <3>4, <4>1 DEF RemoteCreate, LocalCreate, TypeOK, Requests
        <5> QED
          BY <5>1 DEF At
      <4>2. CASE RemoteCreateFails(h) \/ LocalCreateFails(h) \/ BindEventMapFails(h)
        BY <3>4, <4>2 DEF RemoteCreateFails, LocalCreateFails, AbandonPush,
                          BindEventMapFails
      <4> QED
        BY <2>3, <3>4, <4>1, <4>2
           DEF Serve, ReserveFingerprint, AlreadyReserved, ReservationFails, Skip, SkipDuplicate,
               CreateEvent, CreateEventFails, AddCreationNote, Publish, At
    <3> QED
      BY <3>1, <3>2, <3>3, <3>4 DEF OrphanInv, OrphansHaveCauses
  <2> QED
    BY <2>1, <2>2, <2>3, <2>4
<1> QED
  BY <1>1, <1>2, <1>3, <1>4 DEF OrphanInv, OrphansHaveCauses, At

\* A reservation is never left without an id and an owner unless its insert
\* ended in an error, or a push went wrong after it.
THEOREM OrphansAreExplained == Spec => []OrphansHaveCauses
<1>1. Init => OrphanInv
  BY IdsAssumption DEF Init, OrphanInv, OrphansHaveCauses, At, Idle
<1>2. TypeOK /\ OrphanInv /\ [Next]_vars => OrphanInv'
  <2> SUFFICES ASSUME TypeOK, OrphanInv, [Next]_vars
               PROVE  OrphanInv'
    OBVIOUS
  <2>1. ASSUME NEW h \in Handlers, NEW a \in Alerts, Push(h, a)
        PROVE  OrphanInv'
    BY <2>1 DEF Push, OrphanInv, OrphansHaveCauses, At, TypeOK, store, history
  <2>2. ASSUME NEW h \in Handlers, NEW e \in EventIds, PostEvent(h, e)
        PROVE  OrphanInv'
    BY <2>2 DEF PostEvent, OrphanInv, OrphansHaveCauses, At, TypeOK, store, history
  <2>3. CASE Crash
    BY <2>3, IdsAssumption, ModeAssumption
       DEF Crash, OrphanInv, OrphansHaveCauses, InFlight, At, Idle, store
  <2>4. CASE UNCHANGED vars
    BY <2>4 DEF vars, store, history, OrphanInv, OrphansHaveCauses, At
  <2> QED
    BY <2>1, <2>2, <2>3, <2>4, ServeOrphanInv DEF Next
<1> QED
  BY <1>1, <1>2, Typing, PTL DEF Spec, OrphanInv

-----------------------------------------------------------------------------
(* What the callers are told.                                              *)

\* Event id e is one that somebody has, or may be told, for fingerprint f:
\* it is bound, answered, or with a goroutine that has bound it.
KnownAs(f, e) ==
    /\ e \in EventIds
    /\ \/ eventMap[f] = e
       \/ \E a \in answers : a.fp = f /\ a.id = e
       \/ \E h \in Handlers : /\ req[h].fp = f /\ req[h].id = e
                              /\ At(h, "note") \/ At(h, "publish")

\* With a lost update the bound id and the answered one differ, so the
\* invariant is about all of them: there is one, and none before the only
\* owner of the reservation has bound it.
AgreeInv ==
    Persistent =>
        /\ \A f \in Fps, d, e \in EventIds : KnownAs(f, d) /\ KnownAs(f, e) => d = e
        /\ \A f \in Fps, e \in EventIds : eventMap[f] = Unclaimed => ~KnownAs(f, e)
        /\ \A h \in Handlers, f \in Fps, e \in EventIds :
              Claiming(h) /\ req[h].fp = f => ~KnownAs(f, e)

\* A step that makes no id known, releases no reservation and takes only one
\* that is free keeps AgreeInv.
LEMMA NothingNewIsKnown ==
    ASSUME AgreeInv,
           Persistent => /\ \A f \in Fps, e \in EventIds : KnownAs(f, e)' => KnownAs(f, e)
                         /\ \A f \in Fps : eventMap'[f] = Unclaimed => eventMap[f] = Unclaimed
                         /\ \A h \in Handlers : Claiming(h)' =>
                               /\ req'[h].fp \in Fps
                               /\ \/ Claiming(h) /\ req[h].fp = req'[h].fp
                                  \/ eventMap[req'[h].fp] = Unclaimed
    PROVE  AgreeInv'
BY DEF AgreeInv

\* The owner of a reservation makes its id the only one that is known.
LEMMA OwnerTellsFirst ==
    ASSUME TypeOK, ClaimInv, AgreeInv, NEW h \in Handlers,
           BindEventMap(h) \/ BindEventMapFails(h)
    PROVE  AgreeInv'
<1> USE IdsAssumption
<1> DEFINE f == req[h].fp
<1> SUFFICES ASSUME Persistent
             PROVE  AgreeInv'
  BY ModeAssumption DEF AgreeInv
<1>1. /\ f \in Fps /\ Claiming(h) /\ eventMap[f] = NoId
      /\ req[h].id \in EventIds \cup {NoId}
  BY DEF BindEventMap, BindEventMapFails, Claiming, ClaimInv, TypeOK, At, Requests
<1>2. /\ \A g \in Handlers \ {h} : req'[g] = req[g]
      /\ req'[h].fp = f /\ req'[h].id = req[h].id /\ req'[h].pc \in {"note", "publish"}
      /\ answers' = answers
  BY DEF BindEventMap, BindEventMapFails, Goto, TypeOK, Requests, history
<1>3. /\ \A d \in Fps \ {f} : eventMap'[d] = eventMap[d]
      /\ eventMap'[f] \in {NoId, req[h].id}
  BY <1>1 DEF BindEventMap, BindEventMapFails, TypeOK, store
<1>4. \A e \in EventIds : ~KnownAs(f, e)
  BY <1>1 DEF AgreeInv
<1>5. ASSUME NEW e \in EventIds, NEW c \in Fps, KnownAs(c, e)'
      PROVE  IF c = f THEN e = req[h].id ELSE KnownAs(c, e)
  BY <1>2, <1>3, <1>4, <1>5 DEF KnownAs, At
<1>6. \A g \in Handlers : Claiming(g)' => g # h /\ Claiming(g) /\ req'[g].fp = req[g].fp
  BY <1>2 DEF Claiming, At
<1>7. \A g \in Handlers : Claiming(g)' => req'[g].fp # f
  BY <1>1, <1>6 DEF ClaimInv
<1>8. \A c \in Fps : eventMap'[c] = Unclaimed => c # f /\ eventMap[c] = Unclaimed
  BY <1>1, <1>3
<1>9. \A c \in Fps, d, e \in EventIds : KnownAs(c, d)' /\ KnownAs(c, e)' => d = e
  BY <1>5 DEF AgreeInv
<1>10. \A c \in Fps, e \in EventIds : eventMap'[c] = Unclaimed => ~KnownAs(c, e)'
  BY <1>5, <1>8 DEF AgreeInv
<1>11. \A g \in Handlers, c \in Fps, e \in EventIds :
          Claiming(g)' /\ req'[g].fp = c => ~KnownAs(c, e)'
  BY <1>5, <1>6, <1>7 DEF AgreeInv
<1> QED
  BY <1>9, <1>10, <1>11 DEF AgreeInv

\* Every step of a request keeps one id known for a fingerprint.
LEMMA ServeAgreeInv ==
    ASSUME TypeOK, ClaimInv, AgreeInv, NEW h \in Handlers, Serve(h)
    PROVE  AgreeInv'
<1> USE IdsAssumption
<1>1. \A g \in Handlers \ {h} : req'[g] = req[g]
  BY ServeFrame
<1>2. CASE BindEventMap(h) \/ BindEventMapFails(h)
  BY <1>2, OwnerTellsFirst
<1>3. CASE ~BindEventMap(h) /\ ~BindEventMapFails(h)
  <2>1. \A c \in Fps : eventMap'[c] # eventMap[c] =>
           /\ ReserveFingerprint(h) \/ ReservationFails(h)
           /\ c = req[h].fp /\ eventMap'[c] = NoId
    BY <1>3 DEF Serve, ReserveFingerprint, AlreadyReserved, ReservationFails, Skip, SkipDuplicate,
                RemoteCreate, RemoteCreateFails, LocalCreate, LocalCreateFails,
                AbandonPush, CreateEvent, CreateEventFails, AddCreationNote,
                Publish, TypeOK, store
  <2>2. ASSUME NEW a \in answers' \ answers, a.id \in EventIds, Persistent
        PROVE  KnownAs(a.fp, a.id)
    <3>1. CASE Skip(h)
      <4>1. PICK e \in EventIds \cup {NoId} : SkipDuplicate(h, e)
        BY <3>1 DEF Skip
      <4>2. a.fp = req[h].fp /\ a.id = e
        BY <2>2, <4>1 DEF Skip, SkipDuplicate, Answer
      <4>3. eventMap[req[h].fp] = e
        BY <2>2, <4>1, <4>2 DEF Skip, SkipDuplicate, GetEventMap
      <4> QED
        BY <2>2, <4>2, <4>3 DEF KnownAs
    <3>2. CASE Publish(h)
      <4>1. a.fp = req[h].fp /\ a.id = req[h].id /\ At(h, "publish")
        BY <2>2, <3>2 DEF Publish, Answer
      <4> QED
        BY <2>2, <4>1 DEF KnownAs
    <3>3. CASE RemoteCreateFails(h) \/ LocalCreateFails(h)
      BY <2>2, <3>3 DEF RemoteCreateFails, LocalCreateFails, AbandonPush
    <3> QED
      BY <1>3, <2>2, <3>1, <3>2, <3>3
         DEF Serve, ReserveFingerprint, AlreadyReserved, ReservationFails, RemoteCreate, LocalCreate,
             CreateEvent, CreateEventFails, AddCreationNote, history
  <2>3. At(h, "note")' \/ At(h, "publish")' =>
          /\ req'[h].fp = req[h].fp /\ req'[h].id = req[h].id
          /\ At(h, "note") \/ req[h].fp \notin Fps
    BY <1>3 DEF Serve, ReserveFingerprint, AlreadyReserved, ReservationFails, Skip, SkipDuplicate,
                RemoteCreate, RemoteCreateFails, LocalCreate, LocalCreateFails,
                AbandonPush, CreateEvent, CreateEventFails, AddCreationNote,
                Publish, TypeOK, Goto, Finish, Idle, At, Requests
  <2>4. ASSUME NEW c \in Fps, NEW e \in EventIds, KnownAs(c, e)', Persistent
        PROVE  KnownAs(c, e)
    <3>1. CASE eventMap'[c] = e
      BY <2>1, <3>1 DEF KnownAs
    <3>2. CASE \E a \in answers' : a.fp = c /\ a.id = e
      BY <2>2, <2>4, <3>2 DEF KnownAs
    <3>3. ASSUME NEW g \in Handlers, req'[g].fp = c, req'[g].id = e,
                 At(g, "note")' \/ At(g, "publish")'
          PROVE  KnownAs(c, e)
      BY <1>1, <2>3, <3>3 DEF KnownAs, At
    <3> QED
      BY <2>4, <3>1, <3>2, <3>3 DEF KnownAs
  <2>5. Claiming(h)' =>
          /\ req'[h].fp \in Fps /\ req'[h].fp = req[h].fp
          /\ Claiming(h) \/ eventMap[req[h].fp] = Unclaimed
    BY <1>3 DEF Serve, ReserveFingerprint, AlreadyReserved, ReservationFails, Skip, SkipDuplicate,
                RemoteCreate, RemoteCreateFails, LocalCreate, LocalCreateFails,
                AbandonPush, CreateEvent, CreateEventFails, AddCreationNote,
                Publish, TypeOK, Goto, Finish, Idle, At, Requests, Claiming
  <2>6. \A g \in Handlers : Claiming(g)' =>
           /\ req'[g].fp \in Fps
           /\ \/ Claiming(g) /\ req[g].fp = req'[g].fp
              \/ eventMap[req'[g].fp] = Unclaimed
    BY <1>1, <2>5 DEF Claiming, At
  <2>7. \A c \in Fps : eventMap'[c] = Unclaimed => eventMap[c] = Unclaimed
    BY <2>1
  <2> QED
    BY <2>4, <2>6, <2>7, NothingNewIsKnown
<1> QED
  BY <1>2, <1>3

\* Two pushes of one alert are never told different event ids, although the
\* first may have lost the update that binds its id.
THEOREM OneAnswer == Spec => []AnswersAgree
<1>1. Init => AgreeInv
  BY IdsAssumption DEF Init, AgreeInv, KnownAs, Claiming, At, Idle
<1>2. TypeOK /\ ClaimInv /\ AgreeInv /\ [Next]_vars => AgreeInv'
  <2> SUFFICES ASSUME TypeOK, ClaimInv, AgreeInv, [Next]_vars
               PROVE  AgreeInv'
    OBVIOUS
  <2>1. ASSUME NEW h \in Handlers, NEW a \in Alerts, Push(h, a)
        PROVE  AgreeInv'
    <3>1. /\ \A g \in Handlers \ {h} : req'[g] = req[g]
          /\ req'[h].pc = "reserve" /\ eventMap' = eventMap /\ answers' = answers
      BY <2>1 DEF Push, TypeOK, store, history
    <3> QED
      BY <3>1, NothingNewIsKnown DEF KnownAs, Claiming, At
  <2>2. ASSUME NEW h \in Handlers, NEW e \in EventIds, PostEvent(h, e)
        PROVE  AgreeInv'
    <3>1. /\ \A g \in Handlers \ {h} : req'[g] = req[g]
          /\ req'[h].pc = "create" /\ req'[h].fp = NoFp
          /\ eventMap' = eventMap /\ answers' = answers
      BY <2>2 DEF PostEvent, TypeOK, store, history
    <3> QED
      BY <3>1, NothingNewIsKnown, IdsAssumption DEF KnownAs, Claiming, At
  <2>3. CASE Crash
    <3>1. /\ \A g \in Handlers : req'[g].pc = "idle"
          /\ Persistent => eventMap' = eventMap
          /\ answers' = answers
      BY <2>3 DEF Crash, Idle, store
    <3> QED
      BY <3>1, NothingNewIsKnown DEF KnownAs, Claiming, At
  <2>4. CASE UNCHANGED vars
    BY <2>4, NothingNewIsKnown DEF vars, store, history, KnownAs, Claiming, At, AgreeInv
  <2> QED
    BY <2>1, <2>2, <2>3, <2>4, ServeAgreeInv DEF Next
<1>3. TypeOK /\ AgreeInv => AnswersAgree
  <2> SUFFICES ASSUME TypeOK, AgreeInv, Persistent,
                      NEW a \in answers, NEW b \in answers,
                      a.fp = b.fp
               PROVE  a.id = b.id
    BY DEF AnswersAgree
  <2>1. a.fp \in Fps /\ a.id \in EventIds /\ b.id \in EventIds
    BY DEF TypeOK
  <2>2. KnownAs(a.fp, a.id) /\ KnownAs(a.fp, b.id)
    BY <2>1 DEF KnownAs
  <2> QED
    BY <2>1, <2>2 DEF AgreeInv
<1> QED
  BY <1>1, <1>2, <1>3, Typing, ClaimInvariant, PTL DEF Spec

-----------------------------------------------------------------------------
(* SyncRun: types, and the steps of EventIngest.                           *)

\* What the feed lists: alerts, their times, their stamps and their records.
LEMMA FeedTypes ==
    \A ev \in Feed : /\ ev.time \in Nat \ {0} /\ ev.stamp \in Stamps
                     /\ ev.fp \in Fps /\ ev.rec \in Records
                     /\ [fp |-> ev.fp, id |-> ev.id] \in Alerts
<1>1. \A ev \in Feed : [fp |-> ev.fp, id |-> ev.id] \in [fp : Fps, id : EventIds \cup {NoId}]
  BY FeedAssumption, IdsAssumption
<1>2. \A ev \in Feed : ev.fp \in Fps
  BY <1>1
<1>3. \A ev \in Feed : ev.rec \in Records
  BY DEF Records
<1> QED
  BY <1>2, <1>3, FeedAssumption

\* A goroutine without a run is one of the states of a run.
LEMMA RunTypes == NotRunning \in Runs
BY TimeAssumption, SyncAssumption DEF NotRunning, Runs

\* The first state is well typed.
LEMMA InitSyncTypeOK == SyncInit => SyncTypeOK
<1> SUFFICES ASSUME SyncInit
             PROVE  SyncTypeOK
  OBVIOUS
<1>1. TypeOK /\ cursor \in Stamps /\ runs \in 0..MaxRuns
  BY InitTypeOK, TimeAssumption, SyncAssumption DEF SyncInit
<1>2. sync \in [Handlers -> Runs] /\ pushed \in [Records -> Rows \cup {NoRow}]
  BY RunTypes DEF SyncInit
<1>3. \A h \in Handlers : sync[h].pc = "idle"
  BY DEF SyncInit, NotRunning
<1> QED
  BY <1>1, <1>2, <1>3 DEF SyncInit, SyncTypeOK

\* Every step of a run and of a sensor is one of EventIngest, or changes
\* nothing there.
LEMMA ServeInNext ==
    ASSUME NEW h \in Handlers, Serve(h)
    PROVE  Next
BY DEF Next

\* Every step is one of EventIngest, or changes nothing there.
LEMMA StepImplements ==
    ASSUME SyncTypeOK, [SyncNext]_allVars
    PROVE  [Next]_vars
<1>1. ASSUME NEW h \in Handlers, RunStep(h)
      PROVE  [Next]_vars
  <2>1. CASE TryPush(h)
    <3>1. sync[h].ev \in Feed
      BY <2>1 DEF TryPush, SyncTypeOK, Is
    <3> QED
      BY <2>1, <3>1, FeedTypes DEF TryPush, Next
  <2>2. CASE PushReturns(h) \/ PushIsDuplicate(h) \/ PushFails(h) \/ Process(h)
    <3>1. Serve(h)
      BY <2>2 DEF PushReturns, PushIsDuplicate, PushFails, Process, Serve, Skip
    <3> QED
      BY <3>1, ServeInNext
  <2>3. CASE ListEvents(h) \/ ListFails(h) \/ TakeEvent(h) \/ AlreadyPushed(h)
             \/ GiveUp(h) \/ SavePushedEvent(h) \/ SaveCursor(h)
    BY <2>3 DEF ListEvents, ListFails, TakeEvent, AlreadyPushed, GiveUp,
                SavePushedEvent, SaveCursor
  <2> QED
    BY <1>1, <2>1, <2>2, <2>3 DEF RunStep
<1>2. ASSUME NEW h \in Handlers, GetCursor(h) \/ NoCursor(h)
      PROVE  [Next]_vars
  BY <1>2 DEF GetCursor, NoCursor
<1>3. ASSUME NEW h \in Handlers, Request(h)
      PROVE  [Next]_vars
  BY <1>3, SyncAssumption DEF Request, SensorPush, PersonPost, Next
<1>4. ASSUME NEW ev \in Feed, Show(ev)
      PROVE  [Next]_vars
  BY <1>4 DEF Show
<1>5. CASE SyncCrash
  BY <1>5 DEF SyncCrash, Next
<1>6. CASE UNCHANGED allVars
  BY <1>6 DEF allVars
<1> QED
  BY <1>1, <1>2, <1>3, <1>4, <1>5, <1>6 DEF SyncNext

\* What a run puts back into its own place keeps the types.
LEMMA MoveTypes ==
    ASSUME SyncTypeOK, TypeOK', NEW h \in Handlers, NEW r \in Runs, Move(h, r),
           r.pc \in {"try", "push", "save"} => r.ev \in Feed,
           cursor' \in Stamps, pushed' \in [Records -> Rows \cup {NoRow}],
           shown' \subseteq Feed, excused' \subseteq Feed, runs' \in 0..MaxRuns
    PROVE  SyncTypeOK'
<1>1. sync' \in [Handlers -> Runs]
  BY DEF Move, SyncTypeOK
<1>2. \A g \in Handlers : sync'[g] = IF g = h THEN r ELSE sync[g]
  BY DEF Move, SyncTypeOK
<1> QED
  BY <1>1, <1>2 DEF SyncTypeOK

\* What ListEvents returns are items of the feed.
LEMMA AnswersTypes ==
    ASSUME SyncTypeOK, NEW since, NEW items \in Answers(since)
    PROVE  items \subseteq Feed
<1>1. items \subseteq shown \/ \E body \in ErrorBodies : items = {body}
  BY Zenon DEF Answers
<1> QED
  BY <1>1, FeedAssumption DEF SyncTypeOK

\* A step of a run keeps the types.
LEMMA RunStepTypeOK ==
    ASSUME SyncTypeOK, TypeOK', NEW h \in Handlers, RunStep(h) \/ GetCursor(h) \/ NoCursor(h)
    PROVE  SyncTypeOK'
<1> DEFINE s == sync[h]
<1>0. /\ s \in Runs
      /\ s.pc \in {"try", "push", "save"} => s.ev \in Feed
      /\ \A ev \in s.items : ev \in Feed
  BY DEF SyncTypeOK, Runs
<1>1. CASE GetCursor(h) \/ NoCursor(h)
  <2>1. PICK since \in Stamps :
            Move(h, [NotRunning EXCEPT !.pc = "list", !.since = since, !.newest = since])
    BY <1>1, TimeAssumption DEF GetCursor, NoCursor, SyncTypeOK
  <2>2. [NotRunning EXCEPT !.pc = "list", !.since = since, !.newest = since] \in Runs
    BY <2>1, RunTypes DEF Runs, NotRunning
  <2>3. runs' \in 0..MaxRuns
    <3>1. runs \in 0..MaxRuns /\ MaxRuns \in Nat
      BY SyncAssumption DEF SyncTypeOK
    <3>2. runs < MaxRuns /\ runs' = runs + 1
      BY <1>1 DEF GetCursor, NoCursor
    <3> QED
      BY <3>1, <3>2
  <2>4. excused' \subseteq Feed
    BY <1>1 DEF GetCursor, NoCursor, Skipped, SyncTypeOK
  <2>5. UNCHANGED <<cursor, pushed, shown>>
    BY <1>1 DEF GetCursor, NoCursor
  <2> QED
    BY <2>1, <2>2, <2>3, <2>4, <2>5, MoveTypes DEF SyncTypeOK, NotRunning
<1>2. CASE ListEvents(h)
  <2>1. PICK items \in Answers(s.since) : Listed(h, items)
    BY <1>2 DEF ListEvents
  <2>2. PICK newest \in {s.since} \cup {ev.stamp : ev \in items} :
           /\ Move(h, [s EXCEPT !.pc = "next", !.items = items, !.newest = newest])
           /\ excused' = excused \cup Skipped(s.since, newest, items)
    BY <2>1 DEF Listed, Latest
  <2>3. items \subseteq Feed /\ newest \in Stamps
    <3>1. items \subseteq Feed /\ s.since \in Stamps
      BY <1>0, <2>1, AnswersTypes DEF SyncTypeOK, Runs
    <3>2. newest = s.since \/ \E ev \in items : newest = ev.stamp
      BY <2>2, Zenon
    <3> QED
      BY <3>1, <3>2, FeedTypes
  <2>4. [s EXCEPT !.pc = "next", !.items = items, !.newest = newest] \in Runs
    BY <1>0, <2>3 DEF Runs
  <2>5. excused' \subseteq Feed
    BY <2>2 DEF SyncTypeOK, Skipped
  <2>6. UNCHANGED <<cursor, pushed, shown, runs>>
    BY <1>2 DEF ListEvents
  <2>7. [s EXCEPT !.pc = "next", !.items = items, !.newest = newest].pc = "next"
    BY <1>0 DEF Runs
  <2> QED
    BY <2>2, <2>4, <2>5, <2>6, <2>7, MoveTypes DEF SyncTypeOK
<1>3. CASE ListFails(h)
  BY <1>3, RunTypes, MoveTypes DEF ListFails, SyncTypeOK, NotRunning
<1>4. CASE TakeEvent(h)
  <2>1. PICK ev \in s.items : Move(h, [Item(h, ev) EXCEPT !.pc = "try"])
    BY <1>4 DEF TakeEvent
  <2>2. 0 \in 0..MaxRetries /\ ev \in Feed /\ s.items \ {ev} \subseteq Feed
    BY <1>0, SyncAssumption
  <2>3. Item(h, ev) \in Runs /\ Item(h, ev).ev = ev
    BY <1>0, <2>2 DEF Item, Runs
  <2>4. /\ [Item(h, ev) EXCEPT !.pc = "try"] \in Runs
        /\ [Item(h, ev) EXCEPT !.pc = "try"].ev = ev
    BY <2>3 DEF Runs
  <2> QED
    BY <1>0, <1>4, <2>1, <2>4, MoveTypes DEF TakeEvent, SyncTypeOK
<1>5. CASE AlreadyPushed(h)
  <2>1. PICK ev \in s.items : s.pc = "next" /\ Move(h, [s EXCEPT !.items = @ \ {ev}])
    BY <1>5 DEF AlreadyPushed, Is
  <2>2. [s EXCEPT !.items = @ \ {ev}] \in Runs
    BY <1>0 DEF Runs
  <2> QED
    BY <1>0, <1>5, <2>1, <2>2, MoveTypes DEF AlreadyPushed, SyncTypeOK, Runs
<1>6. CASE TryPush(h)
  <2>0. s.tries + 1 \in 0..MaxRetries
    <3>1. s.tries \in 0..MaxRetries /\ MaxRetries \in Nat
      BY <1>0, SyncAssumption DEF Runs
    <3> QED
      BY <1>6, <3>1 DEF TryPush
  <2>1. [s EXCEPT !.pc = "push", !.tries = @ + 1] \in Runs
    BY <1>0, <2>0 DEF Runs
  <2> QED
    BY <1>0, <1>6, <2>1, MoveTypes DEF TryPush, Is, SyncTypeOK, Runs
<1>7. CASE GiveUp(h)
  <2>1. [s EXCEPT !.pc = "save"] \in Runs
    BY <1>0 DEF Runs
  <2> QED
    BY <1>0, <1>7, <2>1, MoveTypes DEF GiveUp, Is, SyncTypeOK, Runs
<1>8. CASE Process(h)
  BY <1>8 DEF Process, SyncTypeOK
<1>9. ASSUME NEW e \in EventIds \cup {NoId}, Is(h, "push"), Success(h, e),
             UNCHANGED <<cursor, pushed, shown, excused, runs>>
      PROVE  SyncTypeOK'
  <2>1. [s EXCEPT !.pc = "save", !.status = "SUCCESS", !.event = e] \in Runs
    BY <1>0 DEF Runs
  <2> QED
    BY <1>0, <1>9, <2>1, MoveTypes DEF Success, Is, SyncTypeOK, Runs
<1>10. CASE PushReturns(h)
  BY <1>9, <1>10 DEF PushReturns, SyncTypeOK, TypeOK, Requests
<1>11. CASE PushIsDuplicate(h)
  <2>1. PICK e \in EventIds \cup {NoId} : Success(h, e)
    BY <1>11 DEF PushIsDuplicate
  <2> QED
    BY <1>9, <1>11, <2>1 DEF PushIsDuplicate
<1>12. CASE PushFails(h)
  <2>1. [s EXCEPT !.pc = "try"] \in Runs
    BY <1>0 DEF Runs
  <2> QED
    BY <1>0, <1>12, <2>1, MoveTypes DEF PushFails, Is, SyncTypeOK, Runs
<1>13. CASE SavePushedEvent(h)
  <2>1. s.pc = "save" /\ s.ev \in Feed
    BY <1>0, <1>13 DEF SavePushedEvent, Is
  <2>2. [status |-> s.status, event |-> s.event, fp |-> s.ev.fp] \in Rows
    BY <1>0, <2>1, FeedTypes DEF Runs, Rows
  <2>3. pushed' \in [Records -> Rows \cup {NoRow}] /\ excused' \subseteq Feed
    BY <1>13, <2>1, <2>2 DEF SavePushedEvent, SyncTypeOK
  <2>4. [s EXCEPT !.pc = "next", !.ev = NoEvent] \in Runs
    BY <1>0 DEF Runs
  <2> QED
    BY <1>0, <1>13, <2>3, <2>4, MoveTypes DEF SavePushedEvent, SyncTypeOK, Runs
<1>14. CASE SaveCursor(h)
  <2>1. cursor' \in Stamps
    BY <1>0, <1>14 DEF SaveCursor, SyncTypeOK, Runs
  <2> QED
    BY <1>14, <2>1, RunTypes, MoveTypes DEF SaveCursor, SyncTypeOK, NotRunning
<1> QED
  BY <1>1, <1>2, <1>3, <1>4, <1>5, <1>6, <1>7, <1>8, <1>10, <1>11, <1>12, <1>13, <1>14
     DEF RunStep

\* Every step does.
LEMMA SyncStepTypeOK == SyncTypeOK /\ [SyncNext]_allVars => SyncTypeOK'
<1> SUFFICES ASSUME SyncTypeOK, [SyncNext]_allVars
             PROVE  SyncTypeOK'
  OBVIOUS
<1>0. TypeOK'
  BY StepImplements, StepTypeOK DEF SyncTypeOK
<1>1. ASSUME NEW h \in Handlers, Request(h)
      PROVE  SyncTypeOK'
  BY <1>0, <1>1 DEF Request, SensorPush, PersonPost, syncVars, SyncTypeOK
<1>2. ASSUME NEW ev \in Feed, Show(ev)
      PROVE  SyncTypeOK'
  BY <1>0, <1>2 DEF Show, SyncTypeOK
<1>3. CASE SyncCrash
  <2>1. \A h \in Handlers : sync'[h].pc = "idle"
    BY <1>3 DEF SyncCrash, NotRunning
  <2>2. sync' \in [Handlers -> Runs]
    BY <1>3, RunTypes DEF SyncCrash
  <2> QED
    BY <1>0, <1>3, <2>1, <2>2 DEF SyncCrash, SyncTypeOK
<1>4. CASE UNCHANGED allVars
  BY <1>0, <1>4 DEF allVars, syncVars, SyncTypeOK
<1> QED
  BY <1>0, <1>1, <1>2, <1>3, <1>4, RunStepTypeOK DEF SyncNext

\* Every variable of a run keeps the shape the code gives it.
THEOREM SyncTyping == SyncSpec => []SyncTypeOK
BY InitSyncTypeOK, SyncStepTypeOK, PTL DEF SyncSpec

\* RunSyncOnce adds nothing to what ProcessLyEvent may do: every behaviour of
\* runs and sensors is one of EventIngest.
THEOREM SyncImplements == SyncSpec => Spec
<1>1. SyncInit => Init
  BY DEF SyncInit
<1>2. SyncTypeOK /\ [SyncNext]_allVars => [Next]_vars
  BY StepImplements
<1> QED
  BY <1>1, <1>2, SyncTyping, PTL DEF SyncSpec, Spec

\* Beside runs that retry too, ProcessLyEvent asks for one event per alert.
THEOREM SyncOneAttempt == SyncSpec => []AtMostOneAttempt
BY SyncImplements, OneAttempt, PTL

\* Beside runs too, event_maps implements the ledger of claims.
THEOREM SyncRefinement == SyncSpec => LedgerSpec
BY SyncImplements, Refinement, PTL

\* Beside runs too, an alert is bound to the event made from it.
THEOREM SyncOwnEvent == SyncSpec => []BoundToOwnEvent
BY SyncImplements, OwnEvent, PTL

\* Beside runs too, no reservation is abandoned without a visible cause.
THEOREM SyncOrphans == SyncSpec => []OrphansHaveCauses
BY SyncImplements, OrphansAreExplained, PTL

\* Beside runs too, which push what sensors push, all are told one event id.
THEOREM SyncAnswers == SyncSpec => []AnswersAgree
BY SyncImplements, OneAnswer, PTL

-----------------------------------------------------------------------------
(* The cursor leaves nothing behind.                                       *)

\* The event has its row, or a reason to have none.
Settled(ev) == pushed[ev.rec] # NoRow \/ ev \in excused

\* A run still has the event before it.
Awaits(h, ev) ==
    \/ sync[h].pc \in {"next", "try", "push", "save"} /\ ev \in sync[h].items
    \/ sync[h].pc \in {"try", "push", "save"} /\ ev = sync[h].ev

\* Every event older than the cursor is settled, and every event older than
\* the stamp a run will move the cursor to is settled or awaited by that run.
SlipInv ==
    /\ \A ev \in shown : ev.time < Epoch[cursor] => Settled(ev)
    /\ \A h \in Handlers, ev \in shown :
          ev.time < Epoch[sync[h].newest] => Settled(ev) \/ Awaits(h, ev)
    /\ \A h \in Handlers : sync[h].pc = "list" => sync[h].newest = sync[h].since

\* A step of run h that settles nothing anew and leaves the others alone.
LEMMA SlipStep ==
    ASSUME SyncTypeOK, SlipInv, NEW h \in Handlers,
           shown' = shown, \A ev \in shown : Settled(ev) => Settled(ev)',
           \A g \in Handlers \ {h} : sync'[g] = sync[g],
           \A ev \in shown : ev.time < Epoch[cursor'] => Settled(ev)',
           \A ev \in shown : ev.time < Epoch[sync'[h].newest] => Settled(ev)' \/ Awaits(h, ev)',
           sync'[h].pc = "list" => sync'[h].newest = sync'[h].since
    PROVE  SlipInv'
<1>1. \A g \in Handlers \ {h}, ev \in shown :
          ev.time < Epoch[sync'[g].newest] => Settled(ev)' \/ Awaits(g, ev)'
  BY DEF SlipInv, Awaits
<1>2. \A g \in Handlers : sync'[g].pc = "list" => sync'[g].newest = sync'[g].since
  BY DEF SlipInv
<1> QED
  BY <1>1, <1>2 DEF SlipInv

\* A run that moves leaves the other runs alone.
LEMMA MoveFrame ==
    ASSUME SyncTypeOK, NEW h \in Handlers, NEW r, Move(h, r)
    PROVE  sync'[h] = r /\ \A g \in Handlers \ {h} : sync'[g] = sync[g]
BY DEF Move, SyncTypeOK

\* A step of a run leaves nothing behind its cursor.
LEMMA RunStepSlipInv ==
    ASSUME SyncTypeOK, SlipInv, NEW h \in Handlers, RunStep(h) \/ GetCursor(h) \/ NoCursor(h)
    PROVE  SlipInv'
<1> DEFINE s == sync[h]
<1>0. /\ s \in Runs /\ s.since \in Stamps /\ cursor \in Stamps
      /\ \A ev \in shown : ev.time \in Nat \ {0} /\ ev.rec \in Records
      /\ Epoch \in [Stamps -> Nat] /\ Epoch[0] = 0
  BY FeedTypes, TimeAssumption DEF SyncTypeOK, Runs
<1>1. CASE GetCursor(h) \/ NoCursor(h)
  <2>1. PICK since \in Stamps :
           /\ Move(h, [NotRunning EXCEPT !.pc = "list", !.since = since, !.newest = since])
           /\ excused' \in {excused, excused \cup Skipped(cursor, since, {})}
           /\ excused' = excused => since = cursor \/ Skipped(cursor, since, {}) \subseteq excused
    BY <1>0, <1>1, TimeAssumption DEF GetCursor, NoCursor
  <2>2. sync'[h].newest = since /\ sync'[h].since = since
    <3>1. sync'[h] = [NotRunning EXCEPT !.pc = "list", !.since = since, !.newest = since]
      BY <2>1, MoveFrame, Zenon
    <3> QED
      BY <1>0, <3>1 DEF NotRunning
  <2>3. UNCHANGED <<cursor, pushed, shown>>
    BY <1>1 DEF GetCursor, NoCursor
  <2>4. \A ev \in shown : Settled(ev) => Settled(ev)'
    BY <2>1, <2>3 DEF Settled
  <2>5. ASSUME NEW ev \in shown, ev.time < Epoch[since]
        PROVE  Settled(ev)'
    <3>1. CASE ev.time < Epoch[cursor]
      BY <2>4, <3>1 DEF SlipInv
    <3>2. CASE since # cursor /\ Epoch[cursor] <= ev.time
      <4>1. ev \in Skipped(cursor, since, {})
        BY <2>5, <3>2 DEF Skipped
      <4>2. ev \in excused'
        BY <2>1, <3>2, <4>1
      <4> QED
        BY <4>2 DEF Settled
    <3>3. CASE since = cursor
      BY <2>4, <2>5, <3>3 DEF SlipInv
    <3>4. ev.time < Epoch[cursor] \/ Epoch[cursor] <= ev.time
      BY <1>0
    <3> QED
      BY <3>1, <3>2, <3>3, <3>4
  <2> QED
    BY <2>1, <2>2, <2>3, <2>4, <2>5, MoveFrame, SlipStep DEF SlipInv
<1>2. CASE ListEvents(h)
  <2>1. PICK items \in Answers(s.since) : Listed(h, items)
    BY <1>2 DEF ListEvents
  <2>2. PICK newest \in {s.since} \cup {ev.stamp : ev \in items} :
           /\ Move(h, [s EXCEPT !.pc = "next", !.items = items, !.newest = newest])
           /\ excused' = excused \cup Skipped(s.since, newest, items)
    BY <2>1 DEF Listed, Latest
  <2>3. UNCHANGED <<cursor, pushed, shown>>
    BY <1>2 DEF ListEvents
  <2>4. sync'[h].pc = "next" /\ sync'[h].items = items /\ sync'[h].newest = newest
    <3>1. sync'[h] = [s EXCEPT !.pc = "next", !.items = items, !.newest = newest]
      BY <2>2, MoveFrame, Zenon
    <3> QED
      BY <1>0, <3>1 DEF Runs
  <2>5. \A ev \in shown : Settled(ev) => Settled(ev)'
    BY <2>2, <2>3 DEF Settled
  <2>6. s.newest = s.since /\ s.pc = "list"
    BY <2>1 DEF SlipInv, Listed, Is
  <2>7. ASSUME NEW ev \in shown, ev.time < Epoch[newest]
        PROVE  Settled(ev)' \/ Awaits(h, ev)'
    <3>1. CASE ev.time < Epoch[s.since]
      BY <2>5, <2>6, <3>1 DEF SlipInv, Awaits
    <3>2. CASE ev \in items
      BY <2>4, <3>2 DEF Awaits
    <3>3. CASE Epoch[s.since] <= ev.time /\ ev \notin items
      <4>1. ev \in Skipped(s.since, newest, items)
        BY <2>7, <3>3 DEF Skipped
      <4> QED
        BY <2>2, <4>1 DEF Settled
    <3>4. ev.time < Epoch[s.since] \/ Epoch[s.since] <= ev.time
      BY <1>0
    <3> QED
      BY <3>1, <3>2, <3>3, <3>4
  <2> QED
    BY <2>2, <2>3, <2>4, <2>5, <2>7, MoveFrame, SlipStep DEF SlipInv
<1>3. CASE ListFails(h)
  <2>1. sync'[h] = NotRunning /\ UNCHANGED <<cursor, pushed, shown, excused>>
    BY <1>3, MoveFrame DEF ListFails
  <2> QED
    BY <1>0, <1>3, <2>1, MoveFrame, SlipStep DEF ListFails, Settled, SlipInv, NotRunning
<1>4. CASE TakeEvent(h)
  <2>1. PICK ev \in s.items : Is(h, "next") /\ Move(h, [Item(h, ev) EXCEPT !.pc = "try"])
    BY <1>4 DEF TakeEvent
  <2>2. /\ sync'[h].pc = "try" /\ sync'[h].items = s.items \ {ev} /\ sync'[h].ev = ev
        /\ sync'[h].newest = s.newest
    <3>1. sync'[h] = [Item(h, ev) EXCEPT !.pc = "try"]
      BY <2>1, MoveFrame, Zenon
    <3> QED
      BY <1>0, <3>1 DEF Item, Runs
  <2>3. UNCHANGED <<cursor, pushed, shown, excused>>
    BY <1>4 DEF TakeEvent
  <2>4. \A e \in shown : Awaits(h, e) => Awaits(h, e)'
    BY <2>1, <2>2 DEF Awaits, Is
  <2> QED
    BY <2>1, <2>2, <2>3, <2>4, MoveFrame, SlipStep DEF Settled, SlipInv
<1>5. CASE AlreadyPushed(h)
  <2>1. PICK ev \in s.items : /\ Is(h, "next") /\ pushed[ev.rec] # NoRow
                              /\ Move(h, [s EXCEPT !.items = @ \ {ev}])
    BY <1>5 DEF AlreadyPushed
  <2>2. /\ sync'[h].pc = "next" /\ sync'[h].items = s.items \ {ev}
        /\ sync'[h].newest = s.newest
    BY <1>0, <2>1, MoveFrame DEF Runs, Is
  <2>3. UNCHANGED <<cursor, pushed, shown, excused>>
    BY <1>5 DEF AlreadyPushed
  <2>4. \A e \in shown : Awaits(h, e) => Settled(e) \/ Awaits(h, e)'
    BY <2>1, <2>2 DEF Awaits, Is, Settled
  <2> QED
    BY <2>1, <2>2, <2>3, <2>4, MoveFrame, SlipStep DEF Settled, SlipInv
<1>6. ASSUME NEW r, Move(h, r), UNCHANGED <<cursor, pushed, shown, excused>>,
             s.pc \in {"try", "push", "save"}, r.pc \in {"try", "push", "save"},
             r.items = s.items, r.ev = s.ev, r.newest = s.newest
      PROVE  SlipInv'
  <2>1. \A e \in shown : Awaits(h, e) => Awaits(h, e)'
    BY <1>6, MoveFrame DEF Awaits
  <2> QED
    BY <1>6, <2>1, MoveFrame, SlipStep DEF Settled, SlipInv
<1>7. CASE TryPush(h)
  <2>1. s.pc = "try" /\ Move(h, [s EXCEPT !.pc = "push", !.tries = @ + 1])
    BY <1>7 DEF TryPush, Is
  <2> QED
    BY <1>0, <1>6, <1>7, <2>1 DEF TryPush, Runs
<1>8. CASE GiveUp(h)
  <2>1. s.pc = "try" /\ Move(h, [s EXCEPT !.pc = "save"])
    BY <1>8 DEF GiveUp, Is
  <2> QED
    BY <1>0, <1>6, <1>8, <2>1 DEF GiveUp, Runs
<1>9. CASE Process(h)
  BY <1>9 DEF Process, SlipInv, Settled, Awaits
<1>10. CASE PushReturns(h) \/ PushIsDuplicate(h)
  <2>1. PICK e : Success(h, e)
    BY <1>10 DEF PushReturns, PushIsDuplicate
  <2> QED
    BY <1>0, <1>6, <1>10, <2>1 DEF Success, PushReturns, PushIsDuplicate, Is, Runs
<1>11. CASE PushFails(h)
  BY <1>0, <1>6, <1>11 DEF PushFails, Is, Runs
<1>12. CASE SavePushedEvent(h)
  <2>1. /\ s.pc = "save" /\ s.ev \in Feed /\ s.ev.rec \in Records
        /\ Move(h, [s EXCEPT !.pc = "next", !.ev = NoEvent])
        /\ UNCHANGED <<cursor, shown>>
    BY <1>12, FeedTypes DEF SavePushedEvent, Is, SyncTypeOK
  <2>2. /\ sync'[h].pc = "next" /\ sync'[h].items = s.items /\ sync'[h].newest = s.newest
    <3>1. sync'[h] = [s EXCEPT !.pc = "next", !.ev = NoEvent]
      BY <2>1, MoveFrame, Zenon
    <3> QED
      BY <1>0, <3>1 DEF Runs
  <2>3. \A e \in shown : Settled(e) \/ e = s.ev => Settled(e)'
    <3>1. [status |-> s.status, event |-> s.event, fp |-> s.ev.fp] # NoRow
      <4>1. [status |-> s.status, event |-> s.event, fp |-> s.ev.fp] \in Rows
        BY <1>0, <2>1, FeedTypes DEF Runs, Rows
      <4> QED
        BY <4>1, SyncAssumption
    <3>2. pushed \in [Records -> Rows \cup {NoRow}]
      BY DEF SyncTypeOK
    <3> QED
      BY <1>0, <1>12, <2>1, <3>1, <3>2 DEF SavePushedEvent, Settled
  <2>4. \A e \in shown : Awaits(h, e) => Settled(e)' \/ Awaits(h, e)'
    BY <2>1, <2>2, <2>3 DEF Awaits
  <2> QED
    BY <2>1, <2>2, <2>3, <2>4, MoveFrame, SlipStep DEF SlipInv
<1>13. CASE SaveCursor(h)
  <2>1. /\ s.pc = "next" /\ s.items = {} /\ cursor' \in {s.newest, cursor}
        /\ Move(h, NotRunning) /\ UNCHANGED <<pushed, shown, excused>>
    BY <1>13 DEF SaveCursor, Is
  <2>2. \A e \in shown : Settled(e) => Settled(e)'
    BY <2>1 DEF Settled
  <2>3. \A e \in shown : e.time < Epoch[cursor'] => Settled(e)
    BY <2>1 DEF SlipInv, Awaits
  <2>4. sync'[h].newest = 0 /\ sync'[h].since = 0
    BY <2>1, MoveFrame DEF NotRunning
  <2> QED
    BY <1>0, <2>1, <2>2, <2>3, <2>4, MoveFrame, SlipStep
<1> QED
  BY <1>1, <1>2, <1>3, <1>4, <1>5, <1>7, <1>8, <1>9, <1>10, <1>11, <1>12, <1>13 DEF RunStep

\* Whatever stops, fails or overlaps, in any number of runs: the cursor passes
\* no event without a row but those that came late, did not fit into a batch,
\* could not be written down, or were older than the start of a list that was
\* not the cursor: the lookback of a run that read none, or the ten minutes
\* of a stamp that cannot be read.
THEOREM CursorIsSound == SyncSpec => []NothingSlipsBy
<1>1. SyncInit => SlipInv
  BY DEF SyncInit, SlipInv, NotRunning
<1>2. SyncTypeOK /\ SlipInv /\ [SyncNext]_allVars => SlipInv'
  <2> SUFFICES ASSUME SyncTypeOK, SlipInv, [SyncNext]_allVars
               PROVE  SlipInv'
    OBVIOUS
  <2>1. ASSUME NEW h \in Handlers, Request(h)
        PROVE  SlipInv'
    BY <2>1 DEF Request, SensorPush, PersonPost, syncVars, SlipInv, Settled, Awaits
  <2>2. ASSUME NEW ev \in Feed, Show(ev)
        PROVE  SlipInv'
    BY <2>2 DEF Show, SlipInv, Settled, Awaits
  <2>3. CASE SyncCrash
    <3>1. \A h \in Handlers : sync'[h] = NotRunning
      BY <2>3 DEF SyncCrash
    <3>2. \A h \in Handlers : /\ sync'[h].newest = 0
                              /\ sync'[h].pc # "list"
      BY <3>1 DEF NotRunning
    <3>3. Epoch[0] = 0 /\ \A ev \in shown : ev.time \in Nat
      BY FeedTypes, TimeAssumption DEF SyncTypeOK
    <3>4. UNCHANGED <<cursor, pushed, shown, excused>>
      BY <2>3 DEF SyncCrash
    <3> QED
      BY <3>2, <3>3, <3>4 DEF SlipInv, Settled
  <2>4. CASE UNCHANGED allVars
    BY <2>4 DEF allVars, syncVars, SlipInv, Settled, Awaits
  <2> QED
    BY <2>1, <2>2, <2>3, <2>4, RunStepSlipInv DEF SyncNext
<1>3. SlipInv => NothingSlipsBy
  BY DEF SlipInv, NothingSlipsBy, Settled
<1> QED
  BY <1>1, <1>2, <1>3, SyncTyping, PTL DEF SyncSpec

-----------------------------------------------------------------------------
(* The rows of pushed_events agree with event_maps.                        *)

\* What EventIngest keeps of claims holds beside the runs.
LEMMA SyncClaimInv == SyncSpec => []ClaimInv
BY SyncImplements, ClaimInvariant, PTL

\* What a step of ProcessLyEvent does to event_maps: a claim is never taken
\* back, an event id never replaced, and the history of failures only grows.
LEMMA ServeKeepsClaims ==
    ASSUME TypeOK, ClaimInv, NEW h \in Handlers, Serve(h)
    PROVE  /\ \A f \in Fps : eventMap[f] # Unclaimed => eventMap'[f] # Unclaimed
           /\ \A f \in Fps : eventMap[f] \in EventIds => eventMap'[f] = eventMap[f]
           /\ failed \subseteq failed' /\ refused \subseteq refused'
<1>1. CASE ReserveFingerprint(h)
  BY <1>1, IdsAssumption DEF ReserveFingerprint, At, TypeOK, history
<1>2. CASE BindEventMap(h)
  <2>1. req[h].fp \in Fps /\ eventMap[req[h].fp] = NoId /\ req[h].id \in EventIds \cup {NoId}
    BY <1>2 DEF BindEventMap, At, TypeOK, ClaimInv, Claiming, Requests
  <2>2. /\ eventMap' = [eventMap EXCEPT ![req[h].fp] = req[h].id]
        /\ failed' = failed /\ refused' = refused
    BY <1>2 DEF BindEventMap, history
  <2>3. eventMap \in [Fps -> {Unclaimed, NoId} \cup EventIds]
    BY DEF TypeOK
  <2> QED
    BY <2>1, <2>2, <2>3, IdsAssumption
<1>3. CASE ReservationFails(h)
  BY <1>3, IdsAssumption DEF ReservationFails, At, TypeOK
<1>4. CASE ~ReserveFingerprint(h) /\ ~BindEventMap(h) /\ ~ReservationFails(h)
  BY <1>4 DEF Serve, AlreadyReserved, Skip, SkipDuplicate, RemoteCreate,
     RemoteCreateFails, LocalCreate, LocalCreateFails, BindEventMapFails,
     CreateEvent, CreateEventFails, AddCreationNote, Publish, AbandonPush,
     store, history
<1> QED
  BY <1>1, <1>2, <1>3, <1>4

Claimed(f) == eventMap[f] # Unclaimed \/ f \in refused
Bound(f, e) == e # NoId => eventMap[f] = e \/ f \in failed

\* A push that is past its reservation has claimed its alert, and one that is
\* past the binding has bound it; what a run writes down follows.
PushInv ==
    \A h \in Handlers : req[h].fp \in Fps =>
        /\ At(h, "lookup") => Claimed(req[h].fp)
        /\ req[h].pc \in {"create", "bind", "note", "publish"} => eventMap[req[h].fp] # Unclaimed
        /\ req[h].pc \in {"note", "publish"} => Bound(req[h].fp, req[h].id)

RowInv ==
    /\ \A rec \in Records : pushed[rec] # NoRow =>
          /\ pushed[rec].status = "SUCCESS" => Claimed(pushed[rec].fp)
          /\ Bound(pushed[rec].fp, pushed[rec].event)
    /\ \A h \in Handlers :
          /\ Is(h, "push") => req[h].fp = sync[h].ev.fp /\ req[h].fp \in Fps
          /\ Is(h, "save") =>
                /\ sync[h].status = "SUCCESS" => Claimed(sync[h].ev.fp)
                /\ Bound(sync[h].ev.fp, sync[h].event)
          /\ Is(h, "try") => sync[h].status = "FAILED" /\ sync[h].event = NoId
          /\ Is(h, "push") => sync[h].status = "FAILED" /\ sync[h].event = NoId

\* Claims and bindings outlive every step of every kind.
LEMMA StepKeepsClaims ==
    ASSUME SyncTypeOK, ClaimInv, [SyncNext]_allVars
    PROVE  /\ \A f \in Fps : eventMap[f] # Unclaimed => eventMap'[f] # Unclaimed
           /\ \A f \in Fps : Claimed(f) => Claimed(f)'
           /\ \A f \in Fps, e \in EventIds \cup {NoId} : Bound(f, e) => Bound(f, e)'
<1>0. TypeOK
  BY DEF SyncTypeOK
<1> DEFINE Kept == /\ \A f \in Fps : eventMap[f] # Unclaimed => eventMap'[f] # Unclaimed
                   /\ \A f \in Fps : eventMap[f] \in EventIds => eventMap'[f] = eventMap[f]
                   /\ failed \subseteq failed' /\ refused \subseteq refused'
<1> SUFFICES Kept
  BY DEF Claimed, Bound
<1>1. ASSUME NEW h \in Handlers, RunStep(h)
      PROVE  Kept
  <2>1. CASE PushReturns(h) \/ PushIsDuplicate(h) \/ PushFails(h) \/ Process(h)
    <3>1. Serve(h)
      BY <2>1 DEF PushReturns, PushIsDuplicate, PushFails, Process, Serve, Skip
    <3> QED
      BY <1>0, <3>1, ServeKeepsClaims
  <2>2. CASE ListEvents(h) \/ ListFails(h) \/ TakeEvent(h) \/ AlreadyPushed(h)
             \/ TryPush(h) \/ GiveUp(h) \/ SavePushedEvent(h) \/ SaveCursor(h)
    BY <2>2 DEF ListEvents, ListFails, TakeEvent, AlreadyPushed, TryPush, Push,
                GiveUp, SavePushedEvent, SaveCursor, vars, store, history
  <2> QED
    BY <1>1, <2>1, <2>2 DEF RunStep
<1>2. ASSUME NEW h \in Handlers, GetCursor(h) \/ NoCursor(h)
      PROVE  Kept
  BY <1>2 DEF GetCursor, NoCursor, vars, store, history
<1>3. ASSUME NEW h \in Handlers, Request(h)
      PROVE  Kept
  BY <1>3 DEF Request, SensorPush, PersonPost, Push, PostEvent, syncVars, store, history
<1>4. ASSUME NEW ev \in Feed, Show(ev)
      PROVE  Kept
  BY <1>4 DEF Show, vars, store, history
<1>5. CASE SyncCrash
  BY <1>5 DEF SyncCrash, Crash, store
<1>6. CASE UNCHANGED allVars
  BY <1>6 DEF allVars, vars, syncVars, store, history
<1> HIDE DEF Kept
<1> QED
  BY <1>1, <1>2, <1>3, <1>4, <1>5, <1>6 DEF SyncNext

\* A step of ProcessLyEvent keeps what is said of the pushes.
LEMMA ServePushInv ==
    ASSUME SyncTypeOK, ClaimInv, PushInv, [SyncNext]_allVars,
           NEW h \in Handlers, Serve(h)
    PROVE  PushInv'
<1>0. TypeOK /\ req[h] \in Requests
  BY DEF SyncTypeOK, TypeOK
<1>1. \A g \in Handlers \ {h} : req'[g] = req[g]
  BY <1>0, ServeFrame
<1>2. ASSUME NEW g \in Handlers \ {h}, req'[g].fp \in Fps
      PROVE  /\ At(g, "lookup")' => Claimed(req[g].fp)'
             /\ req'[g].pc \in {"create", "bind", "note", "publish"} => eventMap'[req'[g].fp] # Unclaimed
             /\ req'[g].pc \in {"note", "publish"} => Bound(req[g].fp, req[g].id)'
  <2>1. req'[g] = req[g] /\ req[g].id \in EventIds \cup {NoId}
    BY <1>0, <1>1 DEF TypeOK, Requests
  <2>2. /\ req[g].pc = "lookup" => Claimed(req[g].fp)
        /\ req[g].pc \in {"create", "bind", "note", "publish"} => eventMap[req[g].fp] # Unclaimed
        /\ req[g].pc \in {"note", "publish"} => Bound(req[g].fp, req[g].id)
    BY <1>2, <2>1 DEF PushInv, At
  <2>3. Claimed(req[g].fp) => Claimed(req[g].fp)'
    BY <1>2, <2>1, StepKeepsClaims DEF Claimed
  <2>4. Bound(req[g].fp, req[g].id) => Bound(req[g].fp, req[g].id)'
    BY <1>2, <2>1, StepKeepsClaims DEF Bound
  <2> QED
    BY <1>2, <2>1, <2>2, <2>3, <2>4, StepKeepsClaims DEF At
<1> DEFINE Mine == req'[h].fp \in Fps =>
       /\ req'[h].pc = "lookup" => Claimed(req[h].fp)'
       /\ req'[h].pc \in {"create", "bind", "note", "publish"} => eventMap'[req'[h].fp] # Unclaimed
       /\ req'[h].pc \in {"note", "publish"} => Bound(req[h].fp, req[h].id)'
<1>3. Mine
  <2>1. CASE ReserveFingerprint(h)
    BY <1>0, <2>1, IdsAssumption DEF ReserveFingerprint, At, Goto, TypeOK, Requests
  <2>2. CASE AlreadyReserved(h)
    BY <1>0, <2>2 DEF AlreadyReserved, At, Goto, TypeOK, Requests, Claimed, store, history
  <2>3. CASE RemoteCreate(h) \/ LocalCreate(h)
    <3>1. req'[h].pc = "bind" /\ req'[h].fp = req[h].fp /\ eventMap' = eventMap /\ At(h, "create")
      BY <1>0, <2>3 DEF RemoteCreate, LocalCreate, TypeOK, Requests, store
    <3> QED
      BY <3>1 DEF PushInv, At
  <2>4. CASE BindEventMap(h)
    <3>1. req'[h].pc \in {"note", "publish"} /\ req'[h].fp = req[h].fp /\ req'[h].id = req[h].id
      BY <1>0, <2>4 DEF BindEventMap, Goto, TypeOK, Requests
    <3>2. req[h].fp \in Fps => eventMap'[req[h].fp] = req[h].id
      BY <1>0, <2>4 DEF BindEventMap, TypeOK
    <3> QED
      BY <1>0, <3>1, <3>2, IdsAssumption DEF Bound, Requests
  <2>5. CASE BindEventMapFails(h)
    <3>1. req'[h].pc \in {"note", "publish"} /\ req'[h].fp = req[h].fp /\ req'[h].id = req[h].id
      BY <1>0, <2>5 DEF BindEventMapFails, Goto, TypeOK, Requests
    <3>2. req[h].fp \in failed' /\ eventMap' = eventMap /\ req[h].pc = "bind"
      BY <2>5 DEF BindEventMapFails, store, At
    <3> QED
      BY <3>1, <3>2 DEF Bound, PushInv
  <2>6. CASE AddCreationNote(h)
    <3>1. req'[h].pc = "publish" /\ req'[h].fp = req[h].fp /\ req'[h].id = req[h].id
      BY <1>0, <2>6 DEF AddCreationNote, Goto, TypeOK, Requests
    <3>2. req[h].pc = "note" /\ eventMap' = eventMap /\ failed' = failed
      BY <2>6 DEF AddCreationNote, At, history
    <3> QED
      BY <3>1, <3>2 DEF Bound, PushInv
  <2>7. CASE CreateEvent(h)
    BY <1>0, <2>7, IdsAssumption DEF CreateEvent, Goto, TypeOK, Requests
  <2>8. CASE Skip(h) \/ RemoteCreateFails(h) \/ LocalCreateFails(h)
             \/ CreateEventFails(h) \/ Publish(h)
    BY <1>0, <2>8, IdsAssumption
       DEF Skip, SkipDuplicate, RemoteCreateFails, LocalCreateFails, CreateEventFails,
           Publish, AbandonPush, Finish, Idle, TypeOK
  <2>9. CASE ReservationFails(h)
    BY <1>0, <2>9 DEF ReservationFails, At, Goto, TypeOK, Requests, Claimed
  <2> QED
    BY <2>1, <2>2, <2>3, <2>4, <2>5, <2>6, <2>7, <2>8, <2>9 DEF Serve
<1> QED
  BY <1>2, <1>3 DEF PushInv, At

\* A step of a run keeps its push with the claim it has or has met.
LEMMA RunStepPushInv ==
    ASSUME SyncTypeOK, ClaimInv, PushInv, [SyncNext]_allVars,
           NEW h \in Handlers, RunStep(h)
    PROVE  PushInv'
<1>0. req \in [Handlers -> Requests]
  BY DEF SyncTypeOK, TypeOK
<1>1. CASE Process(h)
  BY <1>1, ServePushInv DEF Process
<1>2. CASE PushReturns(h) \/ PushIsDuplicate(h) \/ PushFails(h)
  <2>1. Serve(h)
    BY <1>2 DEF PushReturns, PushIsDuplicate, PushFails, Serve, Skip
  <2> QED
    BY <2>1, ServePushInv
<1>3. CASE TryPush(h)
  <2>1. /\ \A g \in Handlers \ {h} : req'[g] = req[g]
        /\ req'[h].pc = "reserve" /\ eventMap' = eventMap /\ failed' = failed
        /\ refused' = refused
    BY <1>0, <1>3 DEF TryPush, Push, store, history
  <2> QED
    BY <2>1 DEF PushInv, At, Claimed, Bound
<1>4. CASE ListEvents(h) \/ ListFails(h) \/ TakeEvent(h) \/ AlreadyPushed(h)
           \/ GiveUp(h) \/ SavePushedEvent(h) \/ SaveCursor(h)
  BY <1>4 DEF ListEvents, ListFails, TakeEvent, AlreadyPushed, GiveUp,
     SavePushedEvent, SaveCursor, vars, store, history, PushInv, At, Claimed, Bound
<1> QED
  BY <1>1, <1>2, <1>3, <1>4 DEF RunStep

\* It holds in every state.
LEMMA PushInvariant == SyncSpec => []PushInv
<1>1. SyncInit => PushInv
  BY IdsAssumption DEF SyncInit, Init, Idle, PushInv
<1>2. SyncTypeOK /\ ClaimInv /\ PushInv /\ [SyncNext]_allVars => PushInv'
  <2> SUFFICES ASSUME SyncTypeOK, ClaimInv, PushInv, [SyncNext]_allVars
               PROVE  PushInv'
    OBVIOUS
  <2>1. ASSUME NEW h \in Handlers, Request(h)
        PROVE  PushInv'
    <3>1. /\ \A g \in Handlers \ {h} : req'[g] = req[g]
          /\ req'[h].pc = "reserve" \/ req'[h].fp \notin Fps
          /\ eventMap' = eventMap /\ failed' = failed
          /\ refused' = refused
      BY <2>1, IdsAssumption
         DEF Request, SensorPush, PersonPost, Push, PostEvent, syncVars, store, history,
             SyncTypeOK, TypeOK
    <3> QED
      BY <3>1 DEF PushInv, At, Claimed, Bound
  <2>2. CASE (\E ev \in Feed : Show(ev)) \/ (\E h \in Handlers : GetCursor(h) \/ NoCursor(h))
             \/ UNCHANGED allVars
    BY <2>2 DEF Show, GetCursor, NoCursor, allVars, syncVars, vars, store, history,
                PushInv, At, Claimed, Bound
  <2>3. CASE SyncCrash
    BY <2>3, IdsAssumption DEF SyncCrash, Crash, Idle, PushInv
  <2> QED
    BY <2>1, <2>2, <2>3, RunStepPushInv DEF SyncNext
<1> QED
  BY <1>1, <1>2, SyncTyping, SyncClaimInv, PTL DEF SyncSpec

\* What RowInv says of one run.
RunRow(h) ==
    /\ Is(h, "push") => req[h].fp = sync[h].ev.fp /\ req[h].fp \in Fps
    /\ Is(h, "save") => /\ sync[h].status = "SUCCESS" => Claimed(sync[h].ev.fp)
                        /\ Bound(sync[h].ev.fp, sync[h].event)
    /\ Is(h, "try") => sync[h].status = "FAILED" /\ sync[h].event = NoId
    /\ Is(h, "push") => sync[h].status = "FAILED" /\ sync[h].event = NoId

\* A step of run h that writes no row and leaves the other goroutines alone.
LEMMA RowStep ==
    ASSUME SyncTypeOK, ClaimInv, RowInv, [SyncNext]_allVars, NEW h \in Handlers,
           \A g \in Handlers \ {h} : sync'[g] = sync[g] /\ req'[g] = req[g],
           pushed' = pushed, RunRow(h)'
    PROVE  RowInv'
<1>1. ASSUME NEW rec \in Records, pushed'[rec] # NoRow
      PROVE  /\ pushed'[rec].status = "SUCCESS" => Claimed(pushed[rec].fp)'
             /\ Bound(pushed[rec].fp, pushed[rec].event)'
  <2>1. /\ pushed[rec].status = "SUCCESS" => Claimed(pushed[rec].fp)
        /\ Bound(pushed[rec].fp, pushed[rec].event)
    BY <1>1 DEF RowInv
  <2>2. pushed[rec].fp \in Fps /\ pushed[rec].event \in EventIds \cup {NoId}
    BY <1>1 DEF SyncTypeOK, Rows
  <2>3. /\ Claimed(pushed[rec].fp) => Claimed(pushed[rec].fp)'
        /\ Bound(pushed[rec].fp, pushed[rec].event) => Bound(pushed[rec].fp, pushed[rec].event)'
    BY <2>2, StepKeepsClaims DEF Claimed, Bound
  <2> QED
    BY <2>1, <2>3
<1>2. ASSUME NEW g \in Handlers \ {h}
      PROVE  RunRow(g)'
  <2>1. RunRow(g)
    BY DEF RowInv, RunRow
  <2>2. Is(g, "save") => sync[g].ev.fp \in Fps /\ sync[g].event \in EventIds \cup {NoId}
    BY FeedTypes DEF SyncTypeOK, Runs, Is
  <2>3. Is(g, "save") => 
           /\ Claimed(sync[g].ev.fp) => Claimed(sync[g].ev.fp)'
           /\ Bound(sync[g].ev.fp, sync[g].event) => Bound(sync[g].ev.fp, sync[g].event)'
    BY <2>2, StepKeepsClaims DEF Claimed, Bound
  <2> QED
    BY <2>1, <2>3 DEF RunRow, Is, Claimed, Bound
<1> QED
  BY <1>1, <1>2 DEF RowInv, RunRow

\* A step of a run keeps rows and results true to the claims.
LEMMA RunStepRowInv ==
    ASSUME SyncTypeOK, ClaimInv, PushInv, RowInv, [SyncNext]_allVars,
           NEW h \in Handlers, RunStep(h) \/ GetCursor(h) \/ NoCursor(h)
    PROVE  RowInv'
<1> DEFINE s == sync[h]
<1>0. /\ s \in Runs /\ req \in [Handlers -> Requests]
      /\ s.pc \in {"try", "push", "save"} => s.ev \in Feed /\ s.ev.fp \in Fps
      /\ RunRow(h)
  BY FeedTypes DEF SyncTypeOK, TypeOK, RowInv, RunRow
<1>1. ASSUME NEW r, Move(h, r), r.pc \in {"idle", "list", "next"},
             UNCHANGED <<vars, pushed>>
      PROVE  RowInv'
  <2>1. RunRow(h)'
    BY <1>1, MoveFrame DEF RunRow, Is
  <2> QED
    BY <1>1, <2>1, MoveFrame, RowStep DEF vars
<1>2. CASE GetCursor(h) \/ NoCursor(h)
  BY <1>1, <1>2 DEF GetCursor, NoCursor, NotRunning
<1>3. CASE ListEvents(h)
  <2>1. PICK items, newest : Move(h, [s EXCEPT !.pc = "next", !.items = items, !.newest = newest])
    BY <1>3 DEF ListEvents, Listed
  <2>2. [s EXCEPT !.pc = "next", !.items = items, !.newest = newest].pc = "next"
    BY <1>0 DEF Runs
  <2> QED
    BY <1>1, <1>3, <2>1, <2>2 DEF ListEvents
<1>4. CASE ListFails(h)
  BY <1>1, <1>4 DEF ListFails, NotRunning
<1>5. CASE TakeEvent(h)
  <2>1. PICK ev \in s.items : Move(h, [Item(h, ev) EXCEPT !.pc = "try"])
    BY <1>5 DEF TakeEvent
  <2>2. sync'[h] = [Item(h, ev) EXCEPT !.pc = "try"]
    BY <2>1, MoveFrame, Zenon
  <2>3. sync'[h].pc = "try" /\ sync'[h].status = "FAILED" /\ sync'[h].event = NoId
    BY <1>0, <2>2 DEF Item, Runs
  <2>4. RunRow(h)'
    BY <2>3 DEF RunRow, Is
  <2> QED
    BY <1>5, <2>1, <2>4, MoveFrame, RowStep DEF TakeEvent, vars
<1>6. CASE AlreadyPushed(h)
  <2>1. PICK ev \in s.items : s.pc = "next" /\ Move(h, [s EXCEPT !.items = @ \ {ev}])
    BY <1>6 DEF AlreadyPushed, Is
  <2>2. [s EXCEPT !.items = @ \ {ev}].pc = "next"
    BY <1>0, <2>1 DEF Runs
  <2> QED
    BY <1>1, <1>6, <2>1, <2>2 DEF AlreadyPushed
<1>7. CASE TryPush(h)
  <2>1. sync'[h] = [s EXCEPT !.pc = "push", !.tries = @ + 1]
    BY <1>7, MoveFrame DEF TryPush
  <2>2. /\ s.pc = "try" /\ s.status = "FAILED" /\ s.event = NoId /\ s.ev.fp \in Fps
    BY <1>0, <1>7 DEF TryPush, Is, RunRow
  <2>3. /\ sync'[h].pc = "push" /\ sync'[h].status = "FAILED" /\ sync'[h].event = NoId
        /\ sync'[h].ev = s.ev
    BY <1>0, <2>1, <2>2 DEF Runs
  <2>4. req'[h].fp = s.ev.fp /\ \A g \in Handlers \ {h} : req'[g] = req[g]
    BY <1>0, <1>7 DEF TryPush, Push
  <2>5. RunRow(h)'
    BY <2>2, <2>3, <2>4 DEF RunRow, Is
  <2> QED
    BY <1>7, <2>4, <2>5, MoveFrame, RowStep DEF TryPush
<1>8. CASE GiveUp(h)
  <2>1. sync'[h] = [s EXCEPT !.pc = "save"]
    BY <1>8, MoveFrame DEF GiveUp
  <2>2. s.pc = "try" /\ s.status = "FAILED" /\ s.event = NoId
    BY <1>0, <1>8 DEF GiveUp, Is, RunRow
  <2>3. sync'[h].pc = "save" /\ sync'[h].status = "FAILED" /\ sync'[h].event = NoId
    BY <1>0, <2>1, <2>2 DEF Runs
  <2>4. RunRow(h)'
    BY <2>3 DEF RunRow, Is, Bound
  <2> QED
    BY <1>8, <2>4, MoveFrame, RowStep DEF GiveUp, vars
<1>9. CASE Process(h)
  <2>1. Serve(h) /\ ~(req'[h] = Idle /\ Is(h, "push")) /\ UNCHANGED <<sync, pushed>>
    BY <1>9 DEF Process
  <2>2. \A g \in Handlers \ {h} : req'[g] = req[g]
    BY <2>1, ServeFrame DEF SyncTypeOK
  <2>3. Is(h, "push") => req'[h].fp = req[h].fp
    BY <1>0, <2>1 DEF Serve, ReserveFingerprint, AlreadyReserved, ReservationFails, Skip, SkipDuplicate,
       RemoteCreate, RemoteCreateFails, LocalCreate, LocalCreateFails,
       BindEventMap, BindEventMapFails, CreateEvent, CreateEventFails,
       AddCreationNote, Publish, AbandonPush, Finish, Goto, Requests
  <2>4. Is(h, "save") => s.event \in EventIds \cup {NoId}
    BY <1>0 DEF Runs
  <2>5. Is(h, "save") =>
           /\ Claimed(s.ev.fp) => Claimed(s.ev.fp)'
           /\ Bound(s.ev.fp, s.event) => Bound(s.ev.fp, s.event)'
    BY <1>0, <2>1, <2>4, StepKeepsClaims DEF Claimed, Bound, Is
  <2>6. RunRow(h)'
    BY <1>0, <2>1, <2>3, <2>5 DEF RunRow, Is, Claimed, Bound
  <2> QED
    BY <2>1, <2>2, <2>6, RowStep
<1>10. ASSUME NEW e \in EventIds \cup {NoId}, NEW f \in Fps, f = req[h].fp,
              Is(h, "push"), Success(h, e), Serve(h),
              Claimed(f), Bound(f, e), pushed' = pushed
       PROVE  RowInv'
  <2>1. sync'[h] = [s EXCEPT !.pc = "save", !.status = "SUCCESS", !.event = e]
    BY <1>10, MoveFrame, Zenon DEF Success
  <2>2. sync'[h].pc = "save" /\ sync'[h].event = e /\ sync'[h].ev = s.ev
    BY <1>0, <2>1 DEF Runs
  <2>3. sync'[h].ev.fp = f
    BY <1>0, <1>10, <2>2 DEF RunRow
  <2>4. Claimed(f)' /\ Bound(f, e)'
    BY <1>10, StepKeepsClaims
  <2>5. RunRow(h)'
    BY <2>2, <2>3, <2>4 DEF RunRow, Is, Claimed, Bound
  <2>6. \A g \in Handlers \ {h} : req'[g] = req[g]
    BY <1>10, ServeFrame DEF SyncTypeOK
  <2> QED
    BY <1>10, <2>5, <2>6, MoveFrame, RowStep DEF Success
<1>11. CASE PushReturns(h)
  <2>1. Is(h, "push") /\ Publish(h) /\ Success(h, req[h].id) /\ pushed' = pushed
    BY <1>11 DEF PushReturns
  <2>2. req[h].fp \in Fps /\ req[h].pc = "publish" /\ req[h].id \in EventIds \cup {NoId}
    BY <1>0, <2>1 DEF RunRow, Publish, At, Requests
  <2>3. Claimed(req[h].fp) /\ Bound(req[h].fp, req[h].id)
    BY <2>2 DEF PushInv, Claimed
  <2> QED
    BY <1>10, <2>1, <2>2, <2>3 DEF Serve
<1>12. CASE PushIsDuplicate(h)
  <2>1. PICK e \in EventIds \cup {NoId} : SkipDuplicate(h, e) /\ Success(h, e)
    BY <1>12 DEF PushIsDuplicate
  <2>2. Is(h, "push") /\ Skip(h) /\ pushed' = pushed
    BY <1>12 DEF PushIsDuplicate, Skip
  <2>3. req[h].fp \in Fps /\ Claimed(req[h].fp)
    BY <1>0, <2>2 DEF RunRow, Skip, SkipDuplicate, At, PushInv
  <2>4. e \in EventIds \cup {NoId} /\ Bound(req[h].fp, e)
    BY <2>1, <2>3 DEF SkipDuplicate, GetEventMap, Bound, SyncTypeOK, TypeOK
  <2> QED
    BY <1>10, <2>1, <2>2, <2>3, <2>4 DEF Serve
<1>13. CASE PushFails(h)
  <2>1. sync'[h] = [s EXCEPT !.pc = "try"] /\ pushed' = pushed /\ s.pc = "push" /\ Serve(h)
    BY <1>13, MoveFrame DEF PushFails, Is, Serve
  <2>2. s.status = "FAILED" /\ s.event = NoId
    BY <1>0, <2>1 DEF RunRow, Is
  <2>3. sync'[h].pc = "try" /\ sync'[h].status = "FAILED" /\ sync'[h].event = NoId
    BY <1>0, <2>1, <2>2 DEF Runs
  <2>4. RunRow(h)'
    BY <2>3 DEF RunRow, Is
  <2>5. \A g \in Handlers \ {h} : req'[g] = req[g]
    BY <2>1, ServeFrame DEF SyncTypeOK
  <2> QED
    BY <1>13, <2>1, <2>4, <2>5, MoveFrame, RowStep DEF PushFails
<1>14. CASE SavePushedEvent(h)
  <2>1. /\ s.pc = "save" /\ s.ev.rec \in Records /\ UNCHANGED vars
        /\ Move(h, [s EXCEPT !.pc = "next", !.ev = NoEvent])
    BY <1>14, FeedTypes DEF SavePushedEvent, Is, SyncTypeOK
  <2>2. /\ s.status = "SUCCESS" => Claimed(s.ev.fp)
        /\ Bound(s.ev.fp, s.event)
    BY <1>0, <2>1 DEF RunRow, Is
  <2>3. \/ pushed' = pushed
        \/ pushed' = [pushed EXCEPT ![s.ev.rec] =
                         [status |-> s.status, event |-> s.event, fp |-> s.ev.fp]]
    BY <1>14 DEF SavePushedEvent
  <2>4. pushed \in [Records -> Rows \cup {NoRow}]
    BY DEF SyncTypeOK
  <2>5. ASSUME NEW rec \in Records, pushed'[rec] # NoRow
        PROVE  /\ pushed'[rec].status = "SUCCESS" => Claimed(pushed'[rec].fp)
               /\ Bound(pushed'[rec].fp, pushed'[rec].event)
    BY <2>1, <2>2, <2>3, <2>4, <2>5 DEF RowInv
  <2>6. eventMap' = eventMap /\ failed' = failed /\ refused' = refused /\ req' = req
    BY <2>1 DEF vars, store, history
  <2>7. \A rec \in Records : pushed'[rec] # NoRow =>
           /\ pushed'[rec].status = "SUCCESS" => Claimed(pushed[rec].fp)'
           /\ Bound(pushed[rec].fp, pushed[rec].event)'
    BY <2>1, <2>5, <2>6 DEF Claimed, Bound
  <2>8. \A g \in Handlers \ {h} : RunRow(g) => RunRow(g)'
    BY <2>1, <2>6, MoveFrame DEF RunRow, Is, Claimed, Bound
  <2>9. sync'[h].pc = "next"
    <3>1. sync'[h] = [s EXCEPT !.pc = "next", !.ev = NoEvent]
      BY <2>1, MoveFrame, Zenon
    <3> QED
      BY <1>0, <3>1 DEF Runs
  <2>10. RunRow(h)'
    BY <2>9 DEF RunRow, Is
  <2>11. \A g \in Handlers : RunRow(g)'
    BY <2>8, <2>10 DEF RowInv, RunRow
  <2> QED
    BY <2>7, <2>11 DEF RowInv, RunRow
<1>15. CASE SaveCursor(h)
  BY <1>1, <1>15 DEF SaveCursor, NotRunning
<1> QED
  BY <1>2, <1>3, <1>4, <1>5, <1>6, <1>7, <1>8, <1>9, <1>11, <1>12, <1>13, <1>14, <1>15
     DEF RunStep

\* They are true in every state.
LEMMA RowInvariant == SyncSpec => []RowInv
<1>1. SyncInit => RowInv
  BY DEF SyncInit, RowInv, NotRunning, Is
<1>2. SyncTypeOK /\ ClaimInv /\ PushInv /\ RowInv /\ [SyncNext]_allVars => RowInv'
  <2> SUFFICES ASSUME SyncTypeOK, ClaimInv, PushInv, RowInv, [SyncNext]_allVars
               PROVE  RowInv'
    OBVIOUS
  <2>1. ASSUME NEW h \in Handlers, Request(h)
        PROVE  RowInv'
    <3>1. /\ \A g \in Handlers \ {h} : sync'[g] = sync[g] /\ req'[g] = req[g]
          /\ sync'[h].pc = "idle" /\ pushed' = pushed
      BY <2>1 DEF Request, SensorPush, PersonPost, Push, PostEvent, Is, syncVars,
                  SyncTypeOK, TypeOK
    <3>2. RunRow(h)'
      BY <3>1 DEF RunRow, Is
    <3> QED
      BY <3>1, <3>2, RowStep
  <2>2. CASE (\E ev \in Feed : Show(ev)) \/ UNCHANGED allVars
    BY <2>2 DEF Show, allVars, syncVars, vars, store, history, RowInv, Is, Claimed, Bound
  <2>3. CASE SyncCrash
    <3>1. \A h \in Handlers : sync'[h].pc = "idle"
      BY <2>3 DEF SyncCrash, NotRunning
    <3>2. eventMap' = eventMap /\ failed \subseteq failed' /\ refused' = refused /\ pushed' = pushed
      BY <2>3 DEF SyncCrash, Crash, store
    <3> QED
      BY <3>1, <3>2 DEF RowInv, Is, Claimed, Bound
  <2> QED
    BY <2>1, <2>2, <2>3, RunStepRowInv DEF SyncNext
<1> QED
  BY <1>1, <1>2, SyncTyping, SyncClaimInv, PushInvariant, PTL DEF SyncSpec

\* SUCCESS in pushed_events means that the alert is claimed, and an event id
\* there is the one the alert is bound to, but for failing statements.
THEOREM RowsAreTrue == SyncSpec => []RowsAgreeWithClaims
<1>1. RowInv => RowsAgreeWithClaims
  BY DEF RowInv, RowsAgreeWithClaims, Claimed, Bound
<1> QED
  BY <1>1, RowInvariant, PTL

-----------------------------------------------------------------------------
(* A failed push and its retry.                                            *)

\* A run that tries again finds the alert claimed, by the try before, and so
\* its second try ends as a duplicate.
RunRetries(h) ==
    /\ Is(h, "try") => \/ sync[h].tries = 0
                       \/ sync[h].tries = 1 /\ eventMap[sync[h].ev.fp] # Unclaimed
    /\ Is(h, "push") => \/ sync[h].tries = 1
                        \/ /\ sync[h].tries = 2 /\ req[h].pc \in {"reserve", "lookup"}
                           /\ eventMap[sync[h].ev.fp] # Unclaimed
    /\ Is(h, "save") => sync[h].status = "SUCCESS"

RetryInv ==
    MaxRetries >= 2 =>
        /\ \A rec \in Records : pushed[rec] # NoRow => pushed[rec].status = "SUCCESS"
        /\ \A h \in Handlers : RunRetries(h)

\* A step of one goroutine that writes no row.
LEMMA RetryStep ==
    ASSUME SyncTypeOK, ClaimInv, RetryInv, [SyncNext]_allVars, NEW h \in Handlers,
           \A g \in Handlers \ {h} : sync'[g] = sync[g] /\ req'[g] = req[g],
           pushed' = pushed, MaxRetries >= 2 => RunRetries(h)'
    PROVE  RetryInv'
<1> SUFFICES ASSUME MaxRetries >= 2
             PROVE  \A g \in Handlers \ {h} : RunRetries(g)'
  BY DEF RetryInv
<1> TAKE g \in Handlers \ {h}
<1>1. RunRetries(g)
  BY DEF RetryInv
<1>2. sync[g].pc \in {"try", "push"} => sync[g].ev.fp \in Fps
  BY FeedTypes DEF SyncTypeOK
<1> QED
  BY <1>1, <1>2, StepKeepsClaims DEF RunRetries, Is

\* A step of a run keeps failed tries and claims together.
LEMMA RunStepRetryInv ==
    ASSUME SyncTypeOK, ClaimInv, RowInv, RetryInv, [SyncNext]_allVars,
           NEW h \in Handlers, RunStep(h) \/ GetCursor(h) \/ NoCursor(h)
    PROVE  RetryInv'
<1> SUFFICES ASSUME MaxRetries >= 2
             PROVE  RetryInv'
  BY DEF RetryInv
<1> DEFINE s == sync[h]
<1>0. /\ s \in Runs /\ s.tries \in Nat /\ req \in [Handlers -> Requests]
      /\ s.pc \in {"try", "push", "save"} => s.ev \in Feed /\ s.ev.fp \in Fps
      /\ RunRetries(h)
  <2>1. s \in Runs /\ req \in [Handlers -> Requests] /\ RunRetries(h)
    BY DEF SyncTypeOK, TypeOK, RetryInv
  <2>2. s.tries \in 0..MaxRetries /\ MaxRetries \in Nat
    BY <2>1, SyncAssumption DEF Runs
  <2>3. s.pc \in {"try", "push", "save"} => s.ev \in Feed /\ s.ev.fp \in Fps
    BY FeedTypes DEF SyncTypeOK
  <2> QED
    BY <2>1, <2>2, <2>3
<1>1. ASSUME NEW r, Move(h, r), r.pc \in {"idle", "list", "next"},
             UNCHANGED <<vars, pushed>>
      PROVE  RetryInv'
  <2>1. RunRetries(h)'
    BY <1>1, MoveFrame DEF RunRetries, Is
  <2> QED
    BY <1>1, <2>1, MoveFrame, RetryStep DEF vars
<1>2. CASE GetCursor(h) \/ NoCursor(h)
  BY <1>1, <1>2 DEF GetCursor, NoCursor, NotRunning
<1>3. CASE ListEvents(h)
  <2>1. PICK items, newest : Move(h, [s EXCEPT !.pc = "next", !.items = items, !.newest = newest])
    BY <1>3 DEF ListEvents, Listed
  <2>2. [s EXCEPT !.pc = "next", !.items = items, !.newest = newest].pc = "next"
    BY <1>0 DEF Runs
  <2> QED
    BY <1>1, <1>3, <2>1, <2>2 DEF ListEvents
<1>4. CASE ListFails(h)
  BY <1>1, <1>4 DEF ListFails, NotRunning
<1>5. CASE TakeEvent(h)
  <2>1. PICK ev \in s.items : Move(h, [Item(h, ev) EXCEPT !.pc = "try"])
    BY <1>5 DEF TakeEvent
  <2>2. sync'[h] = [Item(h, ev) EXCEPT !.pc = "try"]
    BY <2>1, MoveFrame, Zenon
  <2>3. sync'[h].pc = "try" /\ sync'[h].tries = 0
    BY <1>0, <2>2 DEF Item, Runs
  <2>4. RunRetries(h)'
    BY <2>3 DEF RunRetries, Is
  <2> QED
    BY <1>5, <2>1, <2>4, MoveFrame, RetryStep DEF TakeEvent, vars
<1>6. CASE AlreadyPushed(h)
  <2>1. PICK ev \in s.items : s.pc = "next" /\ Move(h, [s EXCEPT !.items = @ \ {ev}])
    BY <1>6 DEF AlreadyPushed, Is
  <2>2. [s EXCEPT !.items = @ \ {ev}].pc = "next"
    BY <1>0, <2>1 DEF Runs
  <2> QED
    BY <1>1, <1>6, <2>1, <2>2 DEF AlreadyPushed
<1>7. CASE TryPush(h)
  <2>1. sync'[h] = [s EXCEPT !.pc = "push", !.tries = @ + 1]
    BY <1>7, MoveFrame DEF TryPush
  <2>2. s.tries = 0 \/ (s.tries = 1 /\ eventMap[s.ev.fp] # Unclaimed)
    BY <1>0, <1>7 DEF TryPush, Is, RunRetries
  <2>3. sync'[h].pc = "push" /\ sync'[h].tries = s.tries + 1 /\ sync'[h].ev = s.ev
    BY <1>0, <2>1 DEF Runs
  <2>4. /\ req'[h].pc = "reserve" /\ eventMap' = eventMap
        /\ \A g \in Handlers \ {h} : req'[g] = req[g]
    BY <1>0, <1>7 DEF TryPush, Push, store
  <2>5. RunRetries(h)'
    BY <1>0, <2>2, <2>3, <2>4 DEF RunRetries, Is
  <2> QED
    BY <1>7, <2>4, <2>5, MoveFrame, RetryStep DEF TryPush
<1>8. CASE GiveUp(h)
  <2>1. s.tries = MaxRetries /\ s.tries \in {0, 1}
    BY <1>0, <1>8 DEF GiveUp, Is, RunRetries
  <2> QED
    BY <2>1, SyncAssumption
<1>9. CASE Process(h)
  <2>1. Serve(h) /\ ~(req'[h] = Idle /\ Is(h, "push")) /\ UNCHANGED <<sync, pushed>>
    BY <1>9 DEF Process
  <2>2. \A g \in Handlers \ {h} : req'[g] = req[g]
    BY <2>1, ServeFrame DEF SyncTypeOK
  <2>3. ASSUME Is(h, "push"), s.tries = 2
        PROVE  req'[h].pc \in {"reserve", "lookup"}
    <3>1. /\ req[h].pc \in {"reserve", "lookup"} /\ req[h].fp \in Fps
          /\ eventMap[req[h].fp] # Unclaimed
      BY <1>0, <2>3 DEF RunRetries, RowInv, Is
    <3>2. CASE AlreadyReserved(h)
      BY <1>0, <3>2 DEF AlreadyReserved, Goto, Requests
    <3>3. CASE Skip(h)
      BY <1>0, <2>1, <2>3, <3>3 DEF Skip, SkipDuplicate, Finish
    <3>4. ~ReserveFingerprint(h) /\ req[h].pc \notin {"create", "bind", "note", "publish"}
      BY <3>1 DEF ReserveFingerprint
    <3>5. CASE ReservationFails(h)
      BY <1>0, <3>5 DEF ReservationFails, Goto, Requests
    <3> QED
      BY <2>1, <3>2, <3>3, <3>4, <3>5
         DEF Serve, RemoteCreate, RemoteCreateFails, LocalCreate, LocalCreateFails,
             BindEventMap, BindEventMapFails, CreateEvent, CreateEventFails,
             AddCreationNote, Publish, At
  <2>4. s.pc \in {"try", "push"} /\ eventMap[s.ev.fp] # Unclaimed => eventMap'[s.ev.fp] # Unclaimed
    BY <1>0, StepKeepsClaims
  <2>5. RunRetries(h)'
    BY <1>0, <2>1, <2>3, <2>4 DEF RunRetries, Is
  <2> QED
    BY <2>1, <2>2, <2>5, RetryStep
<1>10. ASSUME NEW e, Success(h, e), Serve(h), pushed' = pushed
       PROVE  RetryInv'
  <2>1. sync'[h] = [s EXCEPT !.pc = "save", !.status = "SUCCESS", !.event = e]
    BY <1>10, MoveFrame, Zenon DEF Success
  <2>2. sync'[h].pc = "save" /\ sync'[h].status = "SUCCESS"
    BY <1>0, <2>1 DEF Runs
  <2>3. RunRetries(h)'
    BY <2>2 DEF RunRetries, Is
  <2>4. \A g \in Handlers \ {h} : req'[g] = req[g]
    BY <1>10, ServeFrame DEF SyncTypeOK
  <2> QED
    BY <1>10, <2>3, <2>4, MoveFrame, RetryStep DEF Success
<1>11. CASE PushReturns(h) \/ PushIsDuplicate(h)
  BY <1>10, <1>11 DEF PushReturns, PushIsDuplicate, Serve, Skip
<1>12. CASE PushFails(h)
  <2>1. /\ sync'[h] = [s EXCEPT !.pc = "try"] /\ pushed' = pushed /\ s.pc = "push"
        /\ Serve(h) /\ At(h, "create") /\ req[h].fp = s.ev.fp
    BY <1>12, MoveFrame DEF PushFails, RemoteCreateFails, LocalCreateFails, Is, Serve, RowInv
  <2>2. s.tries = 1
    BY <1>0, <2>1 DEF RunRetries, Is, At
  <2>3. eventMap[s.ev.fp] # Unclaimed
    BY <1>0, <2>1, IdsAssumption DEF ClaimInv, Claiming
  <2>4. eventMap'[s.ev.fp] # Unclaimed
    BY <1>0, <2>1, <2>3, StepKeepsClaims
  <2>5. sync'[h].pc = "try" /\ sync'[h].tries = 1 /\ sync'[h].ev = s.ev
    BY <1>0, <2>1, <2>2 DEF Runs
  <2>6. RunRetries(h)'
    BY <2>4, <2>5 DEF RunRetries, Is
  <2>7. \A g \in Handlers \ {h} : req'[g] = req[g]
    BY <2>1, ServeFrame DEF SyncTypeOK
  <2> QED
    BY <1>12, <2>1, <2>6, <2>7, MoveFrame, RetryStep DEF PushFails
<1>13. CASE SavePushedEvent(h)
  <2>1. /\ s.pc = "save" /\ UNCHANGED vars
        /\ Move(h, [s EXCEPT !.pc = "next", !.ev = NoEvent])
        /\ s.status = "SUCCESS"
    BY <1>0, <1>13 DEF SavePushedEvent, Is, RunRetries
  <2>2. \/ pushed' = pushed
        \/ pushed' = [pushed EXCEPT ![s.ev.rec] =
                         [status |-> s.status, event |-> s.event, fp |-> s.ev.fp]]
    BY <1>13 DEF SavePushedEvent
  <2>3. pushed \in [Records -> Rows \cup {NoRow}]
    BY DEF SyncTypeOK
  <2>4. \A rec \in Records : pushed'[rec] # NoRow => pushed'[rec].status = "SUCCESS"
    BY <2>1, <2>2, <2>3 DEF RetryInv
  <2>5. eventMap' = eventMap /\ req' = req
    BY <2>1 DEF vars, store
  <2>6. \A g \in Handlers \ {h} : RunRetries(g)'
    BY <2>1, <2>5, MoveFrame DEF RetryInv, RunRetries, Is
  <2>7. sync'[h].pc = "next"
    <3>1. sync'[h] = [s EXCEPT !.pc = "next", !.ev = NoEvent]
      BY <2>1, MoveFrame, Zenon
    <3> QED
      BY <1>0, <3>1 DEF Runs
  <2>8. RunRetries(h)'
    BY <2>7 DEF RunRetries, Is
  <2> QED
    BY <2>4, <2>6, <2>8 DEF RetryInv
<1>14. CASE SaveCursor(h)
  BY <1>1, <1>14 DEF SaveCursor, NotRunning
<1> QED
  BY <1>2, <1>3, <1>4, <1>5, <1>6, <1>7, <1>8, <1>9, <1>11, <1>12, <1>13, <1>14
     DEF RunStep

\* With two tries or more no push is ever recorded as failed, however many
\* times DeepSOC or the store fails: the retry takes the reservation of the
\* try before for a duplicate.
THEOREM RetriesHideFailures == SyncSpec => []FailuresLookPushed
<1>1. SyncInit => RetryInv
  BY DEF SyncInit, RetryInv, RunRetries, NotRunning, Is
<1>2. SyncTypeOK /\ ClaimInv /\ RowInv /\ RetryInv /\ [SyncNext]_allVars => RetryInv'
  <2> SUFFICES ASSUME SyncTypeOK, ClaimInv, RowInv, RetryInv, [SyncNext]_allVars
               PROVE  RetryInv'
    OBVIOUS
  <2>1. ASSUME NEW h \in Handlers, Request(h)
        PROVE  RetryInv'
    <3>1. /\ \A g \in Handlers \ {h} : sync'[g] = sync[g] /\ req'[g] = req[g]
          /\ sync'[h].pc = "idle" /\ pushed' = pushed
      BY <2>1 DEF Request, SensorPush, PersonPost, Push, PostEvent, Is, syncVars,
                  SyncTypeOK, TypeOK
    <3>2. RunRetries(h)'
      BY <3>1 DEF RunRetries, Is
    <3> QED
      BY <3>1, <3>2, RetryStep
  <2>2. CASE (\E ev \in Feed : Show(ev)) \/ UNCHANGED allVars
    BY <2>2 DEF Show, allVars, syncVars, vars, store, RetryInv, RunRetries, Is
  <2>3. CASE SyncCrash
    <3>1. \A h \in Handlers : sync'[h].pc = "idle"
      BY <2>3 DEF SyncCrash, NotRunning
    <3> QED
      BY <2>3, <3>1 DEF SyncCrash, RetryInv, RunRetries, Is
  <2> QED
    BY <2>1, <2>2, <2>3, RunStepRetryInv DEF SyncNext
<1>3. RetryInv => FailuresLookPushed
  BY DEF RetryInv, FailuresLookPushed
<1> QED
  BY <1>1, <1>2, <1>3, SyncTyping, SyncClaimInv, RowInvariant, PTL DEF SyncSpec
=============================================================================
