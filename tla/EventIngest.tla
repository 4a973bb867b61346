----------------------------- MODULE EventIngest -----------------------------
(***************************************************************************)
(* How security alerts become events.  Sensors POST alerts to              *)
(* /internal/event/push and people POST events to /api/event/create; each  *)
(* request is served by a goroutine of its own, so ProcessLyEvent and      *)
(* CreateEventFromRequest run concurrently and interleave between their    *)
(* calls to the store, to the DeepSOC service and to the message queue.    *)
(* Every store call is one step: the memory store holds a mutex around it  *)
(* and the PostgreSQL store sends one statement.  A statement that ends in *)
(* an error may have taken effect: its reply is lost after the commit.     *)
(*                                                                         *)
(* The process may stop at any moment (Crash).  The PostgreSQL tables and  *)
(* the broker survive, the memory store does not.                          *)
(***************************************************************************)
EXTENDS Naturals

CONSTANTS
    Handlers,       \* goroutines that serve requests
    Fps,            \* fingerprints an alert can have
    NoFp,           \* stands for the fingerprint of a request that has none
    EventIds,       \* event ids
    NoId,           \* the empty event id
    Unclaimed,      \* a fingerprint without a row in event_maps
    Absent,         \* an event id without a row in events
    LocalId,        \* the id "ly-" + fp[:16] made for an alert that has none
    Alerts,         \* alerts that are pushed: their fingerprint and event_id
    RemoteEnabled,  \* DEEPSOC_BASE_URL is set
    Persistent,     \* STORE_BACKEND is postgres
    StoreErrors,    \* a store call may fail (the database is unreachable)
    MaxAttempts,    \* bound: creation attempts counted per fingerprint
    MaxCrashes      \* bound: times the process stops

ASSUME IdsAssumption ==
    /\ NoFp \notin Fps
    /\ NoId \notin EventIds
    /\ Unclaimed \notin EventIds \cup {NoId}
    /\ Absent \notin Fps \cup {NoFp}
    /\ LocalId \in [Fps -> EventIds]
    /\ Alerts \subseteq [fp : Fps, id : EventIds \cup {NoId}]

ASSUME ModeAssumption ==
    /\ RemoteEnabled \in BOOLEAN
    /\ Persistent \in BOOLEAN
    /\ StoreErrors \in BOOLEAN
    /\ StoreErrors => Persistent
    /\ MaxAttempts \in Nat \ {0, 1}
    /\ MaxCrashes \in Nat

VARIABLES
    req,        \* what each goroutine is doing
    eventMap,   \* event_maps: fingerprint -> id of its event
    events,     \* events: event id -> what the event was made from
    notes,      \* how many "event created" system messages an event has
    attempts,   \* history: creations attempted for a fingerprint
    failed,     \* history: fingerprints on which a push went wrong half-way
    refused,    \* history: fingerprints whose reservation ended in an error
    answers,    \* history: event ids that ProcessLyEvent has returned
    crashes     \* number of times the process stopped

store == <<eventMap, events, notes>>
history == <<attempts, failed, refused, answers>>
vars == <<req, store, history, crashes>>

Steps == {"idle", "reserve", "lookup", "create", "bind", "note", "publish"}
Requests == [pc : Steps, fp : Fps \cup {NoFp}, id : EventIds \cup {NoId}]
Idle == [pc |-> "idle", fp |-> NoFp, id |-> NoId]

At(h, step) == req[h].pc = step
Goto(h, step) == req' = [req EXCEPT ![h].pc = step]
Finish(h) == req' = [req EXCEPT ![h] = Idle]

\* ProcessLyEvent returns with the event id e, which may be empty.
Answer(h, e) ==
    answers' = answers \cup {a \in {[fp |-> req[h].fp, id |-> e]} : a.id # NoId}

Init ==
    /\ req = [h \in Handlers |-> Idle]
    /\ eventMap = [f \in Fps |-> Unclaimed]
    /\ events = [e \in EventIds |-> Absent]
    /\ notes = [e \in EventIds |-> 0]
    /\ attempts = [f \in Fps |-> 0]
    /\ failed = {} /\ refused = {}
    /\ answers = {}
    /\ crashes = 0

-----------------------------------------------------------------------------
(* Requests.                                                               *)

\* POST /internal/event/push with a body that decodes to alert a.
Push(h, a) ==
    /\ At(h, "idle")
    /\ req' = [req EXCEPT ![h] = [pc |-> "reserve", fp |-> a.fp, id |-> a.id]]
    /\ UNCHANGED <<store, history, crashes>>

\* POST /api/event/create with a message; e is the event_id of the body, or
\* the one newID makes.
PostEvent(h, e) ==
    /\ At(h, "idle")
    /\ req' = [req EXCEPT ![h] = [pc |-> "create", fp |-> NoFp, id |-> e]]
    /\ UNCHANGED <<store, history, crashes>>

-----------------------------------------------------------------------------
(* ProcessLyEvent.                                                         *)

\* The mutants, named for the mistake, are each put in the place of the
\* definition that follows them to show that a property would notice it.
MutantReserveAlways(h) ==
    /\ At(h, "reserve")
    /\ eventMap' = [eventMap EXCEPT ![req[h].fp] = NoId]
    /\ Goto(h, "create")
    /\ UNCHANGED <<events, notes, history, crashes>>

\* The insert into event_maps found no row for the fingerprint.
ReserveFingerprint(h) ==
    LET f == req[h].fp IN
    /\ At(h, "reserve")
    /\ eventMap[f] = Unclaimed
    /\ eventMap' = [eventMap EXCEPT ![f] = NoId]
    /\ Goto(h, "create")
    /\ UNCHANGED <<events, notes, history, crashes>>

\* The insert found a row.
AlreadyReserved(h) ==
    /\ At(h, "reserve")
    /\ eventMap[req[h].fp] # Unclaimed
    /\ Goto(h, "lookup")
    /\ UNCHANGED <<store, history, crashes>>

\* The insert ended in an error, before or after it had put the row there;
\* the caller cannot tell this from a row that was there before.
ReservationFails(h) ==
    LET f == req[h].fp IN
    /\ At(h, "reserve") /\ StoreErrors
    /\ eventMap[f] = Unclaimed
    /\ eventMap' \in {eventMap, [eventMap EXCEPT ![f] = NoId]}
    /\ refused' = refused \cup {f}
    /\ Goto(h, "lookup")
    /\ UNCHANGED <<events, notes, attempts, failed, answers, crashes>>

\* The second id is the one of a select that failed or found no row.
GetEventMap(f) ==
    {IF eventMap[f] = Unclaimed THEN NoId ELSE eventMap[f]}
        \cup (IF StoreErrors THEN {NoId} ELSE {})

\* The id of the local event made for request h.
PayloadId(h) == IF req[h].id = NoId THEN LocalId[req[h].fp] ELSE req[h].id

MutantSkipWithPayloadId(h, e) ==
    /\ At(h, "lookup") /\ e = PayloadId(h)
    /\ Answer(h, e)
    /\ Finish(h)
    /\ UNCHANGED <<store, attempts, failed, refused, crashes>>

\* The push is a duplicate; e is the event id in the row.
SkipDuplicate(h, e) ==
    /\ At(h, "lookup") /\ e \in GetEventMap(req[h].fp)
    /\ Answer(h, e)
    /\ Finish(h)
    /\ UNCHANGED <<store, attempts, failed, refused, crashes>>

Skip(h) == \E e \in EventIds \cup {NoId} : SkipDuplicate(h, e)

CountAttempt(f) ==
    attempts' = [attempts EXCEPT
                    ![f] = IF @ < MaxAttempts THEN @ + 1 ELSE @]

MutantAbandonReleases(h) ==
    /\ failed' = failed \cup {req[h].fp}
    /\ eventMap' = [eventMap EXCEPT ![req[h].fp] = Unclaimed]
    /\ Finish(h)
    /\ UNCHANGED <<notes, refused, answers, crashes>>

\* The error return after the reservation: event_maps keeps the row.
AbandonPush(h) ==
    /\ failed' = failed \cup {req[h].fp}
    /\ Finish(h)
    /\ UNCHANGED <<eventMap, notes, refused, answers, crashes>>

\* DeepSOC answered with an event, whose id the answer may lack.
RemoteCreate(h) ==
    /\ At(h, "create") /\ req[h].fp \in Fps /\ RemoteEnabled
    /\ \E e \in EventIds \cup {NoId} :
          /\ req' = [req EXCEPT ![h].pc = "bind", ![h].id = e]
          /\ failed' = IF e = NoId THEN failed \cup {req[h].fp} ELSE failed
    /\ CountAttempt(req[h].fp)
    /\ UNCHANGED <<store, refused, answers, crashes>>

\* DeepSOC refused, or its answer was lost after it had created the event.
RemoteCreateFails(h) ==
    /\ At(h, "create") /\ req[h].fp \in Fps /\ RemoteEnabled
    /\ CountAttempt(req[h].fp)
    /\ AbandonPush(h)
    /\ UNCHANGED events

MutantLocalCreateUpserts(h) ==
    LET e == PayloadId(h) IN
    /\ At(h, "create") /\ req[h].fp \in Fps /\ ~RemoteEnabled
    /\ events' = [events EXCEPT ![e] = req[h].fp]
    /\ req' = [req EXCEPT ![h].pc = "bind", ![h].id = e]
    /\ CountAttempt(req[h].fp)
    /\ UNCHANGED <<eventMap, notes, failed, refused, answers, crashes>>

MutantLocalCreateSkipsBind(h) ==
    LET e == PayloadId(h) IN
    /\ At(h, "create") /\ req[h].fp \in Fps /\ ~RemoteEnabled
    /\ events[e] = Absent
    /\ events' = [events EXCEPT ![e] = req[h].fp]
    /\ req' = [req EXCEPT ![h].pc = "note", ![h].id = e]
    /\ CountAttempt(req[h].fp)
    /\ UNCHANGED <<eventMap, notes, failed, refused, answers, crashes>>

LocalCreate(h) ==
    LET e == PayloadId(h) IN
    /\ At(h, "create") /\ req[h].fp \in Fps /\ ~RemoteEnabled
    /\ events[e] = Absent
    /\ events' = [events EXCEPT ![e] = req[h].fp]
    /\ req' = [req EXCEPT ![h].pc = "bind", ![h].id = e]
    /\ CountAttempt(req[h].fp)
    /\ UNCHANGED <<eventMap, notes, failed, refused, answers, crashes>>

\* The insert of event e, made from f, ended in an error: e was taken, or the
\* database failed before or after it had put the event there.
InsertFails(e, f) ==
    \/ /\ events[e] # Absent \/ StoreErrors
       /\ events' = events
    \/ /\ events[e] = Absent /\ StoreErrors
       /\ events' = [events EXCEPT ![e] = f]

LocalCreateFails(h) ==
    /\ At(h, "create") /\ req[h].fp \in Fps /\ ~RemoteEnabled
    /\ InsertFails(PayloadId(h), req[h].fp)
    /\ CountAttempt(req[h].fp)
    /\ AbandonPush(h)

BindEventMap(h) ==
    /\ At(h, "bind")
    /\ eventMap' = [eventMap EXCEPT ![req[h].fp] = req[h].id]
    /\ Goto(h, IF RemoteEnabled THEN "publish" ELSE "note")
    /\ UNCHANGED <<events, notes, history, crashes>>

\* The error of the update is dropped: the row keeps its empty event id.
BindEventMapFails(h) ==
    /\ At(h, "bind") /\ StoreErrors
    /\ Goto(h, IF RemoteEnabled THEN "publish" ELSE "note")
    /\ failed' = failed \cup {req[h].fp}
    /\ UNCHANGED <<store, attempts, refused, answers, crashes>>

-----------------------------------------------------------------------------
(* The end of ProcessLyEvent and CreateEventFromRequest.                   *)

CreateEvent(h) ==
    /\ At(h, "create") /\ req[h].fp = NoFp
    /\ events[req[h].id] = Absent
    /\ events' = [events EXCEPT ![req[h].id] = NoFp]
    /\ Goto(h, "note")
    /\ UNCHANGED <<eventMap, notes, history, crashes>>

CreateEventFails(h) ==
    /\ At(h, "create") /\ req[h].fp = NoFp
    /\ InsertFails(req[h].id, NoFp)
    /\ Finish(h)
    /\ UNCHANGED <<eventMap, notes, history, crashes>>

\* AddMessage refuses an event it does not know; its error is dropped.
AddCreationNote(h) ==
    /\ At(h, "note")
    /\ Goto(h, "publish")
    /\ \/ /\ events[req[h].id] # Absent
          /\ notes' = [notes EXCEPT ![req[h].id] = @ + 1]
       \/ /\ events[req[h].id] = Absent \/ StoreErrors
          /\ notes' = notes
    /\ UNCHANGED <<eventMap, events, history, crashes>>

\* EventQueue has the message.  The queue is optional and an error of Publish
\* is dropped; the push then returns success.
Publish(h) ==
    /\ At(h, "publish")
    /\ IF req[h].fp \in Fps THEN Answer(h, req[h].id)
                            ELSE answers' = answers
    /\ Finish(h)
    /\ UNCHANGED <<store, attempts, failed, refused, crashes>>

-----------------------------------------------------------------------------
\* Fingerprints a goroutine has reserved and not bound yet.
InFlight == {req[h].fp : h \in {g \in Handlers : At(g, "create") \/ At(g, "bind")}}

\* The process stops; every request in progress is gone.
Crash ==
    /\ crashes < MaxCrashes
    /\ crashes' = crashes + 1
    /\ req' = [h \in Handlers |-> Idle]
    /\ failed' = failed \cup (InFlight \ {NoFp})
    /\ IF Persistent
         THEN UNCHANGED store
         ELSE /\ eventMap' = [f \in Fps |-> Unclaimed]
              /\ events' = [e \in EventIds |-> Absent]
              /\ notes' = [e \in EventIds |-> 0]
    /\ UNCHANGED <<attempts, refused, answers>>

Serve(h) ==
    \/ ReserveFingerprint(h) \/ AlreadyReserved(h) \/ ReservationFails(h)
    \/ Skip(h)
    \/ RemoteCreate(h) \/ RemoteCreateFails(h)
    \/ LocalCreate(h) \/ LocalCreateFails(h)
    \/ BindEventMap(h) \/ BindEventMapFails(h)
    \/ CreateEvent(h) \/ CreateEventFails(h)
    \/ AddCreationNote(h) \/ Publish(h)

Next ==
    \/ \E h \in Handlers, a \in Alerts : Push(h, a)
    \/ \E h \in Handlers, e \in EventIds : PostEvent(h, e)
    \/ \E h \in Handlers : Serve(h)
    \/ Crash

Spec == Init /\ [][Next]_vars

-----------------------------------------------------------------------------
(* Properties.                                                             *)

\* Every variable keeps the shape the code gives it.
TypeOK ==
    /\ req \in [Handlers -> Requests]
    /\ eventMap \in [Fps -> {Unclaimed, NoId} \cup EventIds]
    /\ events \in [EventIds -> {Absent, NoFp} \cup Fps]
    /\ notes \in [EventIds -> Nat]
    /\ attempts \in [Fps -> 0..MaxAttempts]
    /\ failed \subseteq Fps /\ refused \subseteq Fps
    /\ answers \subseteq [fp : Fps, id : EventIds]
    /\ crashes \in 0..MaxCrashes
    /\ \A h \in Handlers : req[h].pc \in {"reserve", "lookup", "bind"}
                              => req[h].fp \in Fps

\* However many sensors repeat an alert, and whatever fails or stops on the
\* way, ProcessLyEvent asks for one event per fingerprint: the reservation
\* is never given back while event_maps is kept in PostgreSQL.
AtMostOneAttempt == Persistent => \A f \in Fps : attempts[f] <= 1

\* The event id that event_maps has for an alert is the id of the event made
\* from that alert, never of a manual event or of another alert that came
\* with the same event_id.
BoundToOwnEvent ==
    ~RemoteEnabled =>
        \A f \in Fps : eventMap[f] \in EventIds => events[eventMap[f]] = f

\* Two pushes of one alert, first and duplicate in any order, are never told
\* different event ids.
AnswersAgree ==
    Persistent =>
        \A a, b \in answers :
            a.fp = b.fp => a.id = b.id

\* A reservation left without an event id and without a goroutine at work on
\* it has a cause.  In failed: the caller got an error, the process stopped, the
\* update was lost, or DeepSOC's answer had no id.  In refused: the insert put
\* the row there and ended in an error, which the caller of ProcessLyEvent is
\* told as a duplicate and nobody else is told.
OrphansHaveCauses ==
    \A f \in Fps :
        eventMap[f] = NoId =>
            \/ f \in failed \cup refused
            \/ \E h \in Handlers : req[h].fp = f /\ (At(h, "create") \/ At(h, "bind"))

\* event_maps implements the ledger of claims.
Ledger == INSTANCE AlertLedger WITH ledger <- eventMap,
                                    Volatile <- ~Persistent
LedgerSpec == Ledger!Spec
=============================================================================
