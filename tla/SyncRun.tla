------------------------------ MODULE SyncRun ------------------------------
(***************************************************************************)
(* RunSyncOnce fetches the events of the FlowShadow since a cursor, pushes *)
(* each of them with ProcessLyEvent, keeps a row in pushed_events for it   *)
(* and moves the cursor when all are done.  Several runs may be at work at *)
(* once, beside sensors that push the same alerts: a run is a goroutine of *)
(* EventIngest that calls ProcessLyEvent itself, and every step of it is a *)
(* step of EventIngest or changes nothing there.                           *)
(*                                                                         *)
(* The cursor is a string, which RunSyncOnce compares with the times of    *)
(* the events as strings and ListEvents reads as a second.  A stamp is     *)
(* such a string: its number is its place in the order of the strings and  *)
(* Epoch says which second it is read as, which need not agree ("1.7e+09", *)
(* the string made of a number, comes before "2026-01-01T00:00:00Z" and    *)
(* cannot be read).  Clocks are left open: "now" is any value.             *)
(***************************************************************************)
EXTENDS EventIngest, FiniteSets

CONSTANTS
    Feed,       \* items that the FlowShadow may list: fingerprint, event_id, the
                \* record id that RunSyncOnce makes of it, the second it was
                \* filed under, and the stamp it carries
    ErrorBodies,\* the items among them that are JSON bodies of refusals
    Stamps,     \* strings for a time; 0 is the empty one
    Epoch,      \* the second a stamp is read as, 0 if it cannot be read
    Lookbacks,  \* stamps of the time SYNC_LOOKBACK_SECONDS before now
    Recents,    \* seconds ten minutes before now
    NoRow,      \* a record id without a row in pushed_events
    NoEvent,    \* a run is at no event
    Batches,    \* values of the batchSize a run is called with
    MaxRetries, \* SYNC_MAX_RETRIES
    MaxRuns,    \* bound: runs that are started
    Manual      \* event ids of the requests people make

ASSUME FeedAssumption ==
    /\ \A ev \in Feed : /\ ev.time \in Nat \ {0} /\ ev.stamp \in Stamps
                        /\ [fp |-> ev.fp, id |-> ev.id] \in Alerts
    /\ ErrorBodies \subseteq Feed

ASSUME TimeAssumption ==
    /\ Stamps \subseteq Nat /\ 0 \in Stamps
    /\ Epoch \in [Stamps -> Nat] /\ Epoch[0] = 0
    /\ Lookbacks \subseteq Stamps \ {0}
    /\ Recents \subseteq Nat

\* What pushed_events keeps of an event, and the record ids it is kept under.
Rows == [status : {"SUCCESS", "FAILED"}, event : EventIds \cup {NoId}, fp : Fps]
Records == {ev.rec : ev \in Feed}

ASSUME SyncAssumption ==
    /\ NoEvent \notin Feed /\ NoRow \notin Rows
    /\ Batches \subseteq Nat \ {0} /\ MaxRetries \in Nat /\ MaxRuns \in Nat
    /\ Manual \subseteq EventIds

VARIABLES
    sync,     \* what the run of each goroutine is doing
    cursor,   \* sync_cursors.last_ts; 0 is no row
    pushed,   \* pushed_events
    shown,    \* events the FlowShadow has
    excused,  \* history: events without a row that the runs have left behind,
              \* put there by Show (it came late), ListEvents (it did not fit
              \* into the batch, or its time was before the start of a list
              \* asked for with a stamp that cannot be read), GetCursor (it
              \* was older than the lookback) or SavePushedEvent (its row
              \* could not be written)
    runs      \* number of runs started

syncVars == <<sync, cursor, pushed, shown, excused, runs>>
allVars == <<vars, syncVars>>

Runs == [pc : {"idle", "list", "next", "try", "push", "save"}, since : Stamps, newest : Stamps,
         items : SUBSET Feed, ev : Feed \cup {NoEvent}, tries : 0..MaxRetries,
         status : {"SUCCESS", "FAILED"}, event : EventIds \cup {NoId}]
NotRunning == [pc |-> "idle", since |-> 0, newest |-> 0, items |-> {}, ev |-> NoEvent,
               tries |-> 0, status |-> "FAILED", event |-> NoId]

Is(h, step) == sync[h].pc = step
Move(h, r) == sync' = [sync EXCEPT ![h] = r]
Latest(stamps) == {t \in stamps : \A u \in stamps : u <= t}

SyncInit ==
    /\ Init
    /\ sync = [h \in Handlers |-> NotRunning]
    /\ cursor = 0
    /\ pushed = [rec \in Records |-> NoRow]
    /\ shown = {} /\ excused = {}
    /\ runs = 0

-----------------------------------------------------------------------------
\* An event turns up in the FlowShadow; its time may be over.
Show(ev) ==
    /\ ev \notin shown \cup ErrorBodies
    /\ shown' = shown \cup {ev}
    /\ excused' = IF \E t \in {cursor} \cup {sync[h].newest : h \in Handlers} : ev.time < Epoch[t]
                    THEN excused \cup {ev} ELSE excused
    /\ UNCHANGED <<vars, sync, cursor, pushed, runs>>

\* Events that a run which goes from one stamp to a later one leaves behind.
Skipped(from, to, items) ==
    {ev \in shown \ items : Epoch[from] <= ev.time /\ ev.time < Epoch[to]}

\* RunSyncOnce reads the cursor.
GetCursor(h) ==
    /\ At(h, "idle") /\ Is(h, "idle") /\ runs < MaxRuns /\ cursor # 0
    /\ runs' = runs + 1
    /\ Move(h, [NotRunning EXCEPT !.pc = "list", !.since = cursor, !.newest = cursor])
    /\ UNCHANGED <<vars, cursor, pushed, shown, excused>>

\* It finds no row, or the select fails: it starts from the lookback.
NoCursor(h) ==
    /\ At(h, "idle") /\ Is(h, "idle") /\ runs < MaxRuns /\ (cursor = 0 \/ StoreErrors)
    /\ runs' = runs + 1
    /\ \E since \in Lookbacks :
          /\ Move(h, [NotRunning EXCEPT !.pc = "list", !.since = since, !.newest = since])
          /\ excused' = excused \cup Skipped(cursor, since, {})
    /\ UNCHANGED <<vars, cursor, pushed, shown>>

\* What ListEvents may return.  The FlowShadow answers with the events since the
\* start, in an order of its own, and the list is cut to the batch; or it
\* refuses, and the body of the refusal becomes the only item.
Answers(since) ==
    LET starts == IF Epoch[since] = 0 THEN Recents ELSE {Epoch[since]}
        Known(start) == {ev \in shown : ev.time >= start}
    IN  {items \in SUBSET shown :
           \E start \in starts, batch \in Batches :
              /\ items \subseteq Known(start)
              /\ Cardinality(items) = IF Cardinality(Known(start)) < batch
                                        THEN Cardinality(Known(start)) ELSE batch}
        \cup {{body} : body \in ErrorBodies}

\* The newest stamp is the last as a string.
Listed(h, items) ==
    /\ Is(h, "list")
    /\ \E newest \in Latest({sync[h].since} \cup {ev.stamp : ev \in items}) :
          /\ Move(h, [sync[h] EXCEPT !.pc = "next", !.items = items, !.newest = newest])
          /\ excused' = excused \cup Skipped(sync[h].since, newest, items)

MutantListEvents(h) ==
    \E items \in Answers(sync[h].since) :
        /\ Listed(h, items)
        /\ cursor' = sync'[h].newest
        /\ UNCHANGED <<vars, pushed, shown, runs>>

ListEvents(h) ==
    \E items \in Answers(sync[h].since) :
        /\ Listed(h, items)
        /\ UNCHANGED <<vars, cursor, pushed, shown, runs>>

\* No answer, or one that is not JSON.
ListFails(h) ==
    /\ Is(h, "list")
    /\ Move(h, NotRunning)
    /\ UNCHANGED <<vars, cursor, pushed, shown, excused, runs>>

Item(h, ev) == [sync[h] EXCEPT !.items = @ \ {ev}, !.ev = ev, !.tries = 0,
                               !.status = "FAILED", !.event = NoId]

MutantTakeEvent(h) ==
    \E ev \in sync[h].items :
        /\ Is(h, "next")
        /\ pushed[ev.rec] = NoRow
        /\ pushed' = [pushed EXCEPT ![ev.rec] =
                         [status |-> "SUCCESS", event |-> NoId, fp |-> ev.fp]]
        /\ Move(h, [Item(h, ev) EXCEPT !.pc = "try"])
        /\ UNCHANGED <<vars, cursor, shown, excused, runs>>

\* The next event of the list, unless AlreadyPushed finds a row.
TakeEvent(h) ==
    \E ev \in sync[h].items :
        /\ Is(h, "next")
        /\ pushed[ev.rec] = NoRow \/ StoreErrors
        /\ Move(h, [Item(h, ev) EXCEPT !.pc = "try"])
        /\ UNCHANGED <<vars, cursor, pushed, shown, excused, runs>>

AlreadyPushed(h) ==
    \E ev \in sync[h].items :
        /\ Is(h, "next")
        /\ pushed[ev.rec] # NoRow
        /\ Move(h, [sync[h] EXCEPT !.items = @ \ {ev}])
        /\ UNCHANGED <<vars, cursor, pushed, shown, excused, runs>>

\* ProcessLyEvent is called, at most MaxRetries times.
TryPush(h) ==
    /\ Is(h, "try") /\ sync[h].tries < MaxRetries
    /\ Push(h, [fp |-> sync[h].ev.fp, id |-> sync[h].ev.id])
    /\ Move(h, [sync[h] EXCEPT !.pc = "push", !.tries = @ + 1])
    /\ UNCHANGED <<cursor, pushed, shown, excused, runs>>

\* The loop ends after the last try.
GiveUp(h) ==
    /\ Is(h, "try") /\ sync[h].tries = MaxRetries
    /\ Move(h, [sync[h] EXCEPT !.pc = "save"])
    /\ UNCHANGED <<vars, cursor, pushed, shown, excused, runs>>

\* Steps of ProcessLyEvent before it returns, for a run or for a sensor.
Process(h) ==
    /\ Serve(h) /\ ~(req'[h] = Idle /\ Is(h, "push"))
    /\ UNCHANGED <<sync, cursor, pushed, shown, excused, runs>>

Success(h, e) == Move(h, [sync[h] EXCEPT !.pc = "save", !.status = "SUCCESS", !.event = e])

PushReturns(h) ==
    /\ Is(h, "push") /\ Publish(h)
    /\ Success(h, req[h].id)
    /\ UNCHANGED <<cursor, pushed, shown, excused, runs>>

\* A duplicate is a success for the run, also a duplicate of its own try.
PushIsDuplicate(h) ==
    /\ Is(h, "push")
    /\ \E e \in EventIds \cup {NoId} : SkipDuplicate(h, e) /\ Success(h, e)
    /\ UNCHANGED <<cursor, pushed, shown, excused, runs>>

PushFails(h) ==
    /\ Is(h, "push")
    /\ RemoteCreateFails(h) \/ LocalCreateFails(h)
    /\ Move(h, [sync[h] EXCEPT !.pc = "try"])
    /\ UNCHANGED <<cursor, pushed, shown, excused, runs>>

\* SavePushedEvent writes over the row of the record; its error is dropped.
SavePushedEvent(h) ==
    LET s == sync[h] IN
    /\ Is(h, "save")
    /\ \/ /\ pushed' = [pushed EXCEPT ![s.ev.rec] =
                           [status |-> s.status, event |-> s.event, fp |-> s.ev.fp]]
          /\ excused' = excused
       \/ /\ StoreErrors
          /\ excused' = excused \cup {s.ev}
          /\ pushed' = pushed
    /\ Move(h, [s EXCEPT !.pc = "next", !.ev = NoEvent])
    /\ UNCHANGED <<vars, cursor, shown, runs>>

\* The cursor moves when no event is left, whatever became of the pushes.
SaveCursor(h) ==
    /\ Is(h, "next") /\ sync[h].items = {}
    /\ cursor' \in {sync[h].newest} \cup (IF StoreErrors THEN {cursor} ELSE {})
    /\ Move(h, NotRunning)
    /\ UNCHANGED <<vars, pushed, shown, excused, runs>>

RunStep(h) ==
    \/ ListEvents(h) \/ ListFails(h) \/ TakeEvent(h) \/ AlreadyPushed(h)
    \/ TryPush(h) \/ GiveUp(h) \/ Process(h)
    \/ PushReturns(h) \/ PushIsDuplicate(h) \/ PushFails(h)
    \/ SavePushedEvent(h) \/ SaveCursor(h)

\* A sensor pushes an alert, or a person makes an event, in a request of its
\* own.
SensorPush(h, a) ==
    /\ Is(h, "idle") /\ Push(h, a)
    /\ UNCHANGED syncVars

PersonPost(h, e) ==
    /\ Is(h, "idle") /\ PostEvent(h, e)
    /\ UNCHANGED syncVars

Request(h) ==
    \/ \E a \in Alerts : SensorPush(h, a)
    \/ \E e \in Manual : PersonPost(h, e)

\* The process stops; sync_cursors and pushed_events stay.
SyncCrash ==
    /\ Persistent
    /\ Crash
    /\ sync' = [h \in Handlers |-> NotRunning]
    /\ UNCHANGED <<cursor, pushed, shown, excused, runs>>

SyncNext ==
    \/ \E ev \in Feed : Show(ev)
    \/ \E h \in Handlers : Request(h) \/ GetCursor(h) \/ NoCursor(h) \/ RunStep(h)
    \/ SyncCrash

SyncSpec == SyncInit /\ [][SyncNext]_allVars

-----------------------------------------------------------------------------
(* Properties.                                                             *)

\* Every variable keeps the shape the code gives it.
SyncTypeOK ==
    /\ TypeOK
    /\ sync \in [Handlers -> Runs]
    /\ cursor \in Stamps
    /\ pushed \in [Records -> Rows \cup {NoRow}]
    /\ shown \subseteq Feed /\ excused \subseteq Feed
    /\ runs \in 0..MaxRuns
    /\ \A h \in Handlers : sync[h].pc \in {"try", "push", "save"} => sync[h].ev \in Feed

\* The cursor never passes an event of the FlowShadow that has no row, whatever
\* stops, fails or overlaps, unless one of five things has happened to this
\* event: it came after a run had seen a later one, it did not fit into a batch,
\* its row could not be written, it was older than the lookback of a run that
\* found no cursor (or failed to read the one there was), or than the ten
\* minutes of a list asked for with a stamp that cannot be read.
NothingSlipsBy ==
    \A ev \in shown : ev.time < Epoch[cursor] => pushed[ev.rec] # NoRow \/ ev \in excused

\* A row in pushed_events agrees with event_maps: SUCCESS means that the alert
\* is claimed, unless its reservation failed in the database, and an event id
\* in the row is the one the alert is bound to, unless that update was lost.
RowsAgreeWithClaims ==
    \A rec \in Records : pushed[rec] # NoRow =>
        LET row == pushed[rec] IN
        /\ row.status = "SUCCESS" => eventMap[row.fp] # Unclaimed \/ row.fp \in refused
        /\ row.event # NoId => eventMap[row.fp] = row.event \/ row.fp \in failed

\* A push that fails never leaves a FAILED row when it may be tried again: the
\* next try meets the reservation of the one before and takes it for a
\* duplicate, so that the event counts as pushed.
FailuresLookPushed ==
    MaxRetries >= 2 =>
        \A rec \in Records : pushed[rec] # NoRow => pushed[rec].status = "SUCCESS"
=============================================================================
