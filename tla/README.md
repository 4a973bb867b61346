# Verification of trafficAnalysis

trafficAnalysis is a Go service that receives security alerts, turns each into
an event, lets a chain of agents plan and record the response to it, and shows
the conversation about the event in a chat room. This directory holds TLA+
models of the parts of the service where the order of steps matters, the runs
that check them with TLC, and proofs checked by TLAPS.

Paths below are relative to the repository; `services.go` and `agents.go` are in
`internal/service`, `hub.go` in `internal/socketio`.

## The system

    sensors ──POST /internal/event/push──┐
    people ───POST /api/event/create ────┤
                                         v
                         ProcessLyEvent / CreateEventFromRequest
                           │          │              │
                 event_maps, events   │              └── publish event.*
                           │          DeepSOC               │
                  driving-mode hook                         v
                           │                        RabbitMQ queue ── worker
                    RunAgentWorkflow                        ^           │
                   rows, agent messages ── notifications.* ─┘           │
                           │                                            │
                           └────── realtime.Broadcast ──> hub <─────────┘
                                                           │
                                                        browsers

| component | state it keeps | operations | what makes it correct |
| --- | --- | --- | --- |
| Event ingest (`services.go`, `event_mapping.go`) | `event_maps`, `events`, creation messages | `ProcessLyEvent`, `CreateEventFromRequest` | one event for an alert however often it is pushed; a binding names the event made from the alert; an alert that gets no event has a named cause |
| Sync (`services.go`, `client/flowshadow.go`) | `sync_cursors`, `pushed_events` | `RunSyncOnce` | the cursor passes nothing without a named cause; a row tells the truth about the alert |
| Agent workflow (`agents.go`) | tasks, actions, commands, executions, summaries, status of the event | `RunAgentWorkflow`, `restoreAgentWorkflowMessages` | bounded number of rounds; nothing is shown as done or spoken of that is not stored; the round ends |
| Driving mode (`driving_mode_hooks.go`, `autopilot`) | a switch in memory and in the database | get, set, the hook around creation | what was set is what is read; automation runs only when it is on |
| Socket.IO hub (`hub.go`, `internal/realtime`) | sessions, rooms, a bounded queue for each session, websockets | open, poll, post, upgrade, join, leave, broadcast, remove | members are the sessions that joined; messages come in order; no loss without a named cause |
| Queue and worker (`internal/mq`, `internal/worker`) | broker queue, deliveries not yet acknowledged | publish, deliver, handle, ack, nack, reconnect | no accepted message is lost; its effect happens before the acknowledgement; broken messages do not stop the others |
| Memory and PostgreSQL store (`internal/store`) | all tables | one method for each statement | a method is atomic in memory; in PostgreSQL some read, change and write back |
| Users and tokens (`server.go`) | users, `Server.tokens` | login, create, update, change password, delete | an acknowledged change stays; a deleted user stays away; names and users agree |
| Engineer chat (`server.go`, `engineer_context.go`) | messages | send: question, model, answer; post | a question has its answer or a failure; the model knows what was answered before |
| ly_server routes (`internal/lyserver`) | `t_*` tables: lists, configuration, objects | read and set | no entry is missed by a reader; seeding leaves alone what people set |
| Initialisation (`internal/bootstrap`, `cmd/traffic-admin`) | the schema and first rows of all tables | reset, create, seed, load the demo | wherever the command stopped, running it again ends well |
| REST facade, HTTP clients, configuration | none of their own | request handlers | outside of these models except where named below |

Components meet in three ways. A request's goroutine calls straight through
ingest, hook and workflow to the store. The store is shared by all goroutines and, with
PostgreSQL, by processes, restarts and the command that initialises it. Broadcasts and the queue are one-way:
errors are dropped, and the worker broadcasts what it consumes to the same hub.

What is hard: every request is a goroutine of its own and the service layer
holds no lock across calls, so each check on the store is separated from the
act it permits. Reservations, rows and messages outlive a stop of the process
while the work in progress does not. Errors of secondary calls are dropped.
Deliveries repeat. The websockets are written to without a lock.
A statement that ends in an error may have taken effect: its reply was lost
after the commit. `PROJECT.json` lists the hazards line by line, each with the
properties that cover it, and a note where a property allows what the code does.

## Modules

| module | models | checked by | proofs |
| --- | --- | --- | --- |
| `AlertLedger` | abstract: what deduplication promises | refined by `EventIngest` and `SyncRun` | |
| `EventIngest` | event ingest on both stores, with DeepSOC and with stops | as part of `SyncRun` | in `SyncRunProofs` |
| `SyncRun` | extends `EventIngest` by `RunSyncOnce`, with sensors and people beside it | `MCSyncRun`, two configurations | `SyncRunProofs` |
| `AgentWorkflow` | `RunAgentWorkflow` on one event | directly, two configurations | `AgentWorkflowProofs` |
| `SocketHub` | the hub | directly, three configurations | `SocketHubProofs` |
| `EventQueue` | publishers, broker, worker | `MCEventQueue` | `EventQueueProofs` |
| `DrivingMode` | the switch and the hook | `MCDrivingMode` | `DrivingModeProofs` |
| `EngineerChat` | questions, answers and posts on one event | directly | `EngineerChatProofs` |
| `Accounts` | users, names, tokens on both stores | `MCAccounts` | `AccountsProofs` |
| `LyServer` | the `/d/*` requests on `t_*` tables | as part of `Bootstrap` | in `BootstrapProofs` |
| `Bootstrap` | extends `LyServer` by `traffic-admin` and the start of `traffic-api` | `MCBootstrap` | `BootstrapProofs` |

Operators whose names begin with `Mutant` are not part of the specifications.
Each is a definition with a plausible mistake and stands before the definition
it replaces, to show that a property would notice the mistake.

### EventIngest

`req[h]` is a goroutine with its local variables: where it is (`pc`), the
fingerprint of its alert and the event id. `Push` and `PostEvent` are the two
requests; then one action for each store call: `ReserveFingerprint` or
`AlreadyReserved` (`services.go:26`), `SkipDuplicate` (27-35), `RemoteCreate` and
`RemoteCreateFails` (38-43), `LocalCreate` and `LocalCreateFails` (53-59),
`BindEventMap` (60), `AddCreationNote` (61), `Publish` (70, 170), with
which the message is `EventQueue`'s. `Crash` ends
every goroutine; with `Persistent` (PostgreSQL) the tables stay, otherwise all
is lost. With `StoreErrors` any PostgreSQL call may fail, before or after the
statement has taken effect, with the result the code makes of the failure: a
reservation that fails looks like a duplicate, whether its row is there or not
(`ReservationFails`; `postgres.go:552-561` returns "not created" and no error), an
event whose insert fails is an error to the caller and may be stored
(`InsertFails`), an update that fails is ignored. `RemoteEnabled` is
`DEEPSOC_BASE_URL`. `attempts`, `failed`, `refused` and `answers` are history:
`failed` has the fingerprints on which a push went wrong in a way that somebody
was told or that lost the update, `refused` those whose reservation ended in an error.

An alert is its fingerprint and its `event_id`, which is empty or may be the
same for two alerts; the rest of the mapping does not matter to the properties.

### SyncRun

A run is a goroutine of `EventIngest` that calls `ProcessLyEvent` itself:
`Process`, `PushReturns`, `PushIsDuplicate` and `PushFails` are steps of
`EventIngest` together with what `RunSyncOnce` makes of the result
(`services.go:106-116`), every other action leaves `EventIngest` alone, and
`SyncRunProofs` proves that every behaviour is one of `EventIngest`. `GetCursor` or
`NoCursor`, `ListEvents` or `ListFails`, `TakeEvent` or `AlreadyPushed`, `TryPush`,
`GiveUp`, `SavePushedEvent` and `SaveCursor` follow the function line by line; `Show`
is the FlowShadow learning of an event, perhaps late; `SensorPush` and `PersonPost`
are requests beside the runs.

The cursor is a string. `RunSyncOnce` compares it as a string with the times of
the events (`services.go:93`), `ListEvents` reads it as a second
(`flowshadow.go:149-164`), and the two need not agree. So a time that the code
handles is a stamp, whose number is its place in the order of the strings, and
`Epoch` is the second it is read as, 0 if it cannot be read; an event has a stamp and
the second the FlowShadow files it under. Without a row, or when the select fails,
a run starts `SYNC_LOOKBACK_SECONDS` before now, which may be later than the stored
cursor (`NoCursor`, `services.go:79-83`); a stamp that cannot be read becomes ten
minutes before now. Both clocks are left open (`Lookbacks`, `Recents`). The list comes
in an order of the FlowShadow's own and is cut to the batch, and the HTTP status is not looked
at, so the JSON body of a refusal becomes the one item of the list (`ErrorBodies`).
`excused` is history and names the causes by which an event may be left behind.

### AgentWorkflow

One event. The five tables are numbered in the order of the stages, a row is
its status and the place of its parent. A run lists the tables one after the
other (`ListRows`), plans if it saw neither tasks nor executions
(`BeginProcessing`, `AddRow`, `MarkParent`, `Close`, `AddSummary`,
`FinishRound`), and otherwise looks at the messages (`InspectMessages`) and may
restore them (`RestoreFrom`). `Say` stores the message of a stage and `Tell`
broadcasts and publishes it. The hook calls the workflow in every request
that creates or repeats the event, so goroutines are triggered again and again
without a bound. `PostAsRole` is a message of somebody else that counts as one
of a role: `NormalizeMessageFrom` turns the queue worker's into the executor's,
and `send_message` accepts any sender. An insert that ends in an error ends the run
(`AddRowFails`), also when the row is there (`AddRowUnseen`); a message whose insert
ends in an error may be there and is told to nobody (`Say`).

### SocketHub

`handler[h]` is a goroutine: the reader of a websocket, a POST, or a request
that broadcasts a stored message. The lock is there as `WriteLock`: join, leave,
the making and the removal of a session wait until no broadcast is in
progress; a broadcast (`StartBroadcast`, `DeliverOne`, `EndBroadcast`) fixes its
members at the start and hands the packet to them one by one. `Send` is
`emitToSession` and the body of `Broadcast`: into the queue, which drops when
full, then to the websocket. A write takes two steps (`BeginWrite`, `EndWrite`)
so that two may overlap; an overlap ends in a panic of the one or the other, a
packet lost, or in nothing. No write has a deadline, so one to a browser that has
stopped reading (`Deaf`) need not return; the kernel or the end of the connection may
still end it. A broadcast holds the lock meanwhile. A panic is recovered by net/http: the request ends
and, for a reader, its session is removed. A poll collects packets
(`DrainOne`) and answers (`Respond`); a client that goes away (`AbortPoll`) may
still cost packets. Packets are their kind and the number of the message or the
room; all greetings and acknowledgements are one kind.

`log`, `received`, `heard`, `missing`, `cut`, `view` and `late` are history; `late`
has the sessions that were in use, by a POST or another websocket, when they were
removed.

### EventQueue

A message is published by `Publish`, or by `BroadcastMessage` and then
`Publish` when it is an agent's. `ready` and `held` are RabbitMQ's queue and
window; a message that comes back has its old place (`Place`). The worker is
`Connect`, `Take`, one of `HandleOther`, `HandleNotice` and `StoreNotification`
with `ShowNotification`, then `Ack` or `Nack`. When a connection breaks
(`Disconnect`) the broker has its messages back at once, the worker finishes the
one in hand, and its acknowledgement is lost. The publisher's only connection
may break for good. "broken" stands for what can never be handled: not JSON, or
about an event the store refuses. An insert that ends in an error may have stored
its row, and the worker refuses the message in any case (`StoreNotification`,
`rabbit_worker.go:115-127`); such rows are counted in `unsure`.

### DrivingMode

`states` is the map in memory, `app_states` the row in the database, `cfg` one of
the three configurations: memory alone, memory with a database beside it,
PostgreSQL. A request is a GET, a PUT or the hook after a creation. Reading is
`ReadDatabase` then `CacheRead`, or `ReadMemory` or `ReadFails`; setting is
`SetMemory` then `SetDatabase` or `SetDatabaseFails`; `Decide` is the hook's
(or GET's) use of the value. `Acknowledge` is the return of `setDrivingMode` to
its caller. A failing write may have been done by the server.

History: `acked` is the last value a caller was told is set, `contested` says that a
request for the other one has begun since then. `unstored` says that a memory store
with a database beside it has acknowledged a write which the database refused, which
`setDrivingMode` hides; it ends with the next write that succeeds. `disturbed` has the
requests that others have overlapped, and `outOfStep` says that memory may differ from
the database: a read that raced with a write has copied the old value, a write has
failed, or the process has restarted. It ends with the next read or write of both that
no other request disturbs. `underOff` has the requests that began under an
acknowledged "off".

### EngineerChat

A line of the conversation is its author and the number of the request it
belongs to. `Ask`, `AddQuestion`, `WritePrompt`, `ModelAnswers` or `ModelFails`,
`AddAnswer` are `engineerChatSend`; `Post` and `AddPost` are `sendEventMessage`;
`Broadcast` and `Reply` are the wrapper that records the response, tells the
room and then lets the client have it. A prompt is the last `HistoryLimit` lines
of the chat. `engineerChatSend` drops the error of the insert of the answer
(`server.go:568`) and broadcasts it all the same; `dropped` has the numbers of such
answers. `told`, `acked`, `dropped` and `failed` are history.

### Accounts

A user is a name, a password and whether it is active. `UpdateInMemory` is one
step under the mutex; on PostgreSQL `ReadUser` and `WriteUser` are two statements and
the second writes every column. `Login` checks, `KeepToken` stores the token and
goes on to the update of `last_login_at`, a patch that changes none of these
columns but writes all of them. A token is the user id it stands for.
`promised` is what the last answers have told of a user, `taken` and `deleted`
are history. The memory store looks only at the name when it creates a user,
and the model lets an id be used twice there. An update may fail after the server has
done it; a creation or deletion whose reply is lost differs from one that is
answered only in that the client knows less than the model promises.

### LyServer and Bootstrap

`LyServer` has the lists, the configuration and the monitored objects; a request
is one statement, except a GET of both lists, which is `ReadFirstList` and
`ReadSecondList`. `Bootstrap` extends it by a database of users, prompts, events
and the rows of the eight tables that name an event: six by an `event_id` that refers to it,
`event_maps` and `pushed_events` by a `deepsoc_event_id` without a foreign key
(`store/schema.go:130-152`). `todo` holds the statements that
`traffic-admin` has still to send, in the order of the code (`Plan`);
`Interrupted` may drop the rest at any point, and `Start` begins again with any
flags. `traffic-api` migrates and seeds when it starts, and then serves people
who change users, create events with their rounds of agents, push alerts, or edit the
lists; which of these is fixed in a behaviour (`crowd`). A push is `RunSyncOnce` for one
alert on local events, from `ReserveFingerprint` to `SavePushedEvent`, any statement of which
may end in an error before or after it took effect. `SeedAdmin` succeeds when the username is
there, whoever has the user_id `admin`, because the conflict clause is about the username
(`bootstrap.go:131-141`). An update of a user writes the row of the user_id. `life` counts
resets, so that a row remembers under which schema it was written, and `straddled` has the
events that a round or a push was at work on at the last reset.

## Runs

Two workers of TLC are enough for each run, and none takes four minutes; states
are distinct states.

| run | instance | shows |
| --- | --- | --- |
| `SyncRun_local` | 2 goroutines, 2 fingerprints, 3 alerts, 2 ids, 1 run with 1 try, without DeepSOC, failing store, 1 stop (1.9 million) | bindings to the own event, agreeing answers, every reservation without an event has a cause |
| `SyncRun_remote` | 2 goroutines that run or push, 1 alert listed twice, once under a time that cannot be read, an error body, batches of 1 or 2, 2 tries, 2 runs, DeepSOC, failing store, 1 stop (1.1 million) | one attempt, refinement of `AlertLedger`, the cursor leaves nothing behind without a cause, rows agree with claims, failures look pushed |
| `AgentWorkflow_overlap` | 2 goroutines, plan of 1, 1 stop, fair (260 thousand) | at most one round for each goroutine, tidy rows; after the last stop the event is finished for good, and an interrupted round stays open |
| `AgentWorkflow_faulty` | 1 goroutine, plan of 2, 4 failing calls or stops (1 million) | enough failures to lose every message of an unfinished round and restore them; nothing half done is shown as finished |
| `SocketHub_polling` | 1 client, queue 2, batch 2, 2 messages, polls given up (3 million) | order, conservation, statuses |
| `SocketHub_mixed` | 1 session polled and on a websocket, queue 1, 1 message, a browser that may stop reading, fair (119 thousand) | rooms agree when a session is removed under a request, but for the one race; queued messages are received and requests end, but for writes that hang |
| `SocketHub_one_writer` | 2 websockets, 2 messages | violated: see Findings |
| `EventQueue_delivery` | 2 workers, 3 messages of which 1 is broken, window 2, 1 failure, fair (62 thousand) | nothing lost, effect before acknowledgement, every repeated row has a cause; all but the broken message is acknowledged in the end |
| `DrivingMode` | 3 requests, all configurations, 1 restart (294 thousand) | an acknowledged value stands, an acknowledged off starts nothing, the copies agree again after every read or write that is not disturbed |
| `EngineerChat` | 2 goroutines, 3 requests, prompts of 2 lines, both stores, 1 stop, fair (416 thousand) | prompts know the answers, what is acknowledged was told and stored, questions end |
| `Accounts` | 2 goroutines, 2 users, 2 passwords, both stores, 1 stop (0.85 million) | acknowledged changes stay unless updates overlap, deleted users stay away, the two maps agree |
| `Bootstrap` | 2 resets, 2 demo loads, 2 changes of users, 2 pushers, 1 object and 1 entry (1.8 million) | the administrator can log in after a seed, rows that outlive their event or their schema have a cause, a summary stands for a whole load, no entry is missed, the seed leaves people's columns alone |

The same instances satisfy the `TypeOK` of their modules; it is not listed as a
property of the runs because it is proved where a proof module exists and says
little by itself. The inductive invariants of the proofs were checked with TLC on
the same or smaller instances before they were proved.

### Bounds

Goroutines: two show every pair of conflicting steps, and each takes up one
request after the other, so the first push, the duplicate during it and the push
after a failure all occur. `DrivingMode` has three because its history speaks of
a setter, a reader and a request in between. `MaxCrashes`, `MaxFailures` and
`MaxRestarts` bound stops and failures; one stop can hit any place between two
steps, and the `faulty` run has as many as it takes for a round whose rows, the
summary aside, are all there and whose messages are all lost, and for a finished round
whose messages cannot be listed, so that it restores from every stage. `MaxAttempts` only caps a counter above the value a property forbids.
`MaxRuns` is two, so that a run meets the cursor and the rows of another one,
before, during and after it; with two tries a run never gives up, so `SyncRun_local` has
one and pushes fail for good; one alert listed under two times is enough for a
cursor between two rows and for a record that meets a reservation. Of its two
stamps one cannot be read and comes, as a string, between the two that a lookback may be,
so that the cursor goes both ways. `MaxMessages`
bounds the broadcasts of the hub; joins, leaves and polls are not bounded because
the queue is. `QueueCap` and `BatchMax` are 1 or 2 instead of 256 and 16, so that
full queues and full batches are common. The plan has one task where rows of two
runs could mix and two where one run goes through all its loops. With a window of
two, one broken message leaves one place, as four of five would; with a window of
one, TLC shows that a broken message stops the queue, which is the reason for
`AcceptedIsAcked` to be stated for fewer broken messages than places. Prompts of
two lines overflow with the second answer. Two resets and two demo loads let the
second command meet what the first left; two changes of users are a change before
a seed and one after it. Two pushers let one put a row back that the other has
read; a crowd has the commands that touch the tables it works on, because the
statements on the `t_*` tables and those on events commute.

Symmetry is used for goroutines in `DrivingMode` and `Accounts`, which check no
liveness. Deadlock is checked in all runs except those where the system may
rightly come to rest: all requests of `EngineerChat` served, all websocket
sessions used up, or all messages of the queue handled.

### Fairness

`AgentWorkflow` and `EngineerChat`: weak fairness of each goroutine. The Go
scheduler runs it, store calls return, and the HTTP clients, also the one of the language
model, have timeouts. `EventQueue`: weak fairness of the worker, which reconnects every
three seconds, and strong fairness of each delivery: the broker fills a window
without waiting for the message being handled, so a place that is free again and
again is used for the next message. `SocketHub`: weak fairness of each goroutine;
joining, leaving and the start of a broadcast are strongly fair: they wait for the lock,
which is free between broadcasts, and sync.RWMutex lets no new reader pass a
waiting writer. A polling client polls again.

Nothing is assumed of a write to a browser that may have stopped reading (`Deaf`): the
hub sets no deadline for it and holds the lock meanwhile (`hub.go:283-288`), so it
may last for ever and every join, leave and removal with it. `RequestsEnd` and
`QueuedIsReceived` say what is left: everything goes on unless a write hangs for
ever. The other modules end a broadcast in one step, and their fairness leaves this step
out (`Broadcasting`, and the step `Broadcast` of `EngineerChat`), so `RoundFinishes`,
`AcceptedIsAcked` and `QuestionsEnd` too name a broadcast that never returns as the
one exception. Nothing is assumed of requests, failures or stops.

## Findings

* `SocketHub_one_writer`: the hub writes to one websocket from several
  goroutines. `Broadcast` holds the lock for reading, which excludes no other
  broadcast, and `emitToSession` and the ping goroutine hold none. The vendored
  package (`vendor/github.com/gorilla/websocket/doc.go:124`) asks for one
  writer at a time and panics otherwise. The model shows what the panic costs:
  the rest of that broadcast (`cut`).

Differences between documents and code that were met while modelling and that
no run is about:

* `README.md:107` and `docs/mq-refactor.md:18` say that the worker writes queue
  notifications to the messages of the event. It acknowledges `event.*` without
  doing anything and only broadcasts `notifications.frontend.*`, so nothing this
  program publishes itself gets a row (`HandleOther`, `HandleNotice`).
* `cmd/traffic-admin/main.go:22` and `docs/mq-refactor.md:123` say that a reset
  removes all tables, or rebuilds the schema. `ResetSchema` leaves `actions` and `commands`, with rows of
  events that are gone. `StraysHaveCauses` says that nothing else is left from
  before the reset; rows of an event that is gone may also be put into
  `event_maps` and `pushed_events` after it, which do not refer to `events`, by a push
  that was in progress at the reset.
* `docs/deepsoc-chat-broadcast.md:18-22` says that a message is broadcast after
  `Store.AddMessage` has written it. `engineerChatSend` drops the error of the insert of
  the answer (`server.go:568`) and broadcasts an answer that is not stored.
  `AckedIsToldAndStored` allows just these (`dropped`) and holds for all others.
* `docs/deepsoc-driving-mode.md:7-8` describes the automation as depending on the
  switch; a created event that is not told otherwise turns the switch on itself
  (`Decide`, with `force`).

Other behaviour worth knowing, shown by properties that hold: an alert whose
creation failed is a duplicate for ever after (`OrphansHaveCauses` names the
causes, of which a reservation that was committed and ended in an error is one that
nobody is told of), so a run that tries again records the failed push as a success
(`FailuresLookPushed`); an interrupted round is never resumed
(`InterruptedStaysOpen`); two overlapping requests make two rounds
(`OneRoundPerRunner` with two goroutines); a login can undo a change of password
or a deactivation on PostgreSQL (the exception in `PromisesKept`); the second of
two moves of an entry between the lists is only safe in one direction
(`NoEntryMissed`). The cursor passes events for good when it could not be read or
was not there, since the run then looks back a fixed time only, or when it is a time
that `ListEvents` cannot read, as it is after an event whose time was a number:
`encoding/json` makes a float64 of it and `fmt` writes `1.7e+09` (`NothingSlipsBy` names
the causes). The JSON body of a FlowShadow error is pushed as an event. An insert that was
committed and ended in an error stores a notification once more
(`RepeatsHaveCauses`). A session that is in use while it is removed may stay in a room
for ever (`GhostsHaveCauses`). One browser that stops reading keeps everybody from joining, leaving
and disconnecting (`RequestsEnd`).

## Proofs

All invariants and step properties of the passing runs are proved, as theorems of
the specification, each with the inductive invariant it needs; four of them under
assumptions that are named below, with the reason. What no theorem states is
liveness.

The first part of `SyncRunProofs` is about `EventIngest` alone, for every number of
goroutines, fingerprints and ids, for both stores, with and without DeepSOC, with
failing calls and any number of stops. It assumes `IdsAssumption` (the special values are not ids) and
`ModeAssumption` (the switches are Boolean; only PostgreSQL calls fail).

* `Typing`: `TypeOK`.
* `OneAttempt`: `AtMostOneAttempt`. Not inductive alone: nothing in it keeps a
  second goroutine away from the creation. `ClaimInv` adds that a goroutine
  between reservation and binding finds its fingerprint reserved and unbound,
  that no two of them have the same fingerprint, and that none before its
  creation has an attempt on record.
* `Refinement`: `LedgerSpec`. Reserving is a claim, binding is settling, a stop
  with the memory store is a loss, all else stutters; `ClaimInv` gives
  the guard of settling.
* `OwnEvent`: `BoundToOwnEvent`. `OwnEventInv` adds the event that is about to
  be bound, and `EventsStay` that no stored event is replaced.
* `OrphansAreExplained`: `OrphansHaveCauses`. `OrphanInv` adds that an empty answer of
  DeepSOC is on record before it is bound.
* `OneAnswer`: `AnswersAgree`. After a lost update the bound id and the answered
  one could differ, so `AgreeInv` is about every id a fingerprint is known by
  (bound, answered, or in the hands of a goroutine that has bound it): there is
  at most one, and none before the owner of the reservation has bound it.

`SocketHubProofs` holds for every number of sessions, rooms, connections and
requests, for all capacities and whatever the clients send. It assumes
`HubAssumption`: the special values are not sessions, rooms or connections, the
three kinds of goroutines are different goroutines, an author is a goroutine that
broadcasts or a session and never both, and capacities are positive. What it says of
queues and batches rests on lemmas about `Messages` (the messages of a sequence
of packets) and `After` (the rooms a client takes itself to be in): what they make of
a sequence with a packet more, or of two sequences one after the other.

* `Typing`: `TypeOK`, with the limits of queues and batches. `WorkInv` adds that
  a goroutine at work on a packet has a session and a room.
* `Agreement`: `RoomsAgree`, which is `ListsAgree` and `GhostsHaveCauses`. `FreshInv`
  adds that a session that does not exist yet is in no room and used by nobody, so
  that it starts without rooms.
* `NoGhosts`: `GhostsHaveCauses`, for all clients. joinRoom does not ask
  whether the session is still registered, so a POST that has found its session
  joins after the websocket's end has removed it. `LeftInv` says that nothing else
  does: of a session that nobody else used when it was removed, no request and no
  websocket is left that could join.
* `Served`: `MembersServed`, for all clients. `ServedInv` says of each message and
  member of its room that the goroutine of the broadcast has still to come to the
  member, or the message is in one of the places it can be: the queue, the batch of
  a poll, a write in progress, received, or named as missing. Each step that takes it
  from one place puts it in another.
* `TruthTold`: `StatusTellsTheTruth`, assuming `Orderly`: a client posts its next
  packet after the last was answered. `OneWorker` is what this gives, at most one
  goroutine for a session that is only polled; `StatusInv` covers the moment
  between the change of the rooms and its status; `ToldInv` is the property for
  every state in between, room by room, over what is still in batch and queue.
* `OrderKept`: `AuthorsInOrder`, assuming `Orderly` and `~Upgrades`. Then no two
  goroutines speak for one author (`AuthorsDiffer`, by `OneWayInv` for a session
  with a websocket, which is reached by its reader alone, and `OneWorker` for one
  that is polled). `NewestInv` says that a message in hand is the
  newest of its author and has reached nobody that is still to be served, `FlowInv`
  that batch, queue and what was received are one sorted flow, and `WriteInv` that a
  goroutine writes only the message in its hand.

The two assumptions are those of `polling`, and needed: with TLC, two POSTs of one
client at a time break both properties, and a client that polls beside
its websocket is one author with two goroutines, whose messages may pass each other.

The second part of `SyncRunProofs` is about `SyncRun`, for every feed, batch size,
number of tries, goroutines and runs, and every reading of the stamps as seconds. It
adds `FeedAssumption` (the feed pushes alerts, times are positive), `TimeAssumption`
(the missing cursor is the least stamp and is read as 0) and `SyncAssumption`.

* `SyncImplements`: every step of `SyncRun` is one of `EventIngest` or changes
  nothing there, so `SyncOneAttempt`, `SyncRefinement`, `SyncOwnEvent`,
  `SyncOrphans` and `SyncAnswers` follow from the theorems above.
* `CursorIsSound`: `NothingSlipsBy`. `SlipInv` says the same of the stamp each run
  will save: what lies before the second it is read as is settled, by a row or by one
  of the five causes, or among the items the run still has in hand.
* `RowsAreTrue`: `RowsAgreeWithClaims`. `PushInv` ties a goroutine in
  `ProcessLyEvent` to the claim it has or has met, or to the reservation that ended
  in an error (`Claimed`), `RowInv` the run's result and
  the rows to that claim; `StepKeepsClaims` is why both survive others.
* `RetriesHideFailures`: `FailuresLookPushed`. `RetryInv` adds that after the first
  try the fingerprint is claimed, so that the second can only be a duplicate: with
  two tries or more a run never gives up, and what it saves is SUCCESS.

`DrivingModeProofs` holds for any number of requests and restarts and every
configuration. It assumes `ConfigAssumption` (PostgreSQL needs a URL).

* `Typing`: `TypeOK`. `Inv` adds which step a request of each kind may be at.
* `WhatIsSetStands`: `AcknowledgedStands`. `StandInv` adds that, while the
  acknowledged value is uncontested, no request in progress is about to set the
  other one, and that a request which began after an acknowledged "off" has
  not read "on". With a database beside the memory a write that the
  database refused is acknowledged all the same; from there
  to the next write that succeeds (`unstored`) any read brings the old value back, and
  the claim is not made.
* `OffIsOff`: `OffMeansNoRound`, the last part of `StandInv`.
* `CopiesStayEqual`: `CopiesAgree`. `CopiesInv` adds that a value on its way to
  memory is the database's, unless another request has overlapped the one that
  brings it, and that of two requests between the two copies each has disturbed the
  other. So the copies agree again with the next read or write that nobody disturbs.

`EventQueueProofs` holds for every number of messages of every kind, of workers,
of stops, failed inserts and lost connections, and every prefetch window. It assumes
`QueueAssumption` (messages have a kind, the window has a place).

* `Typing`: `TypeOK` and `WorkerInv`: what a worker handles is the oldest message
  it has not acknowledged, unless the connection has taken it back.
* `NothingLost`: `InOnePlace`. `PlacesInv` adds that a worker holds no message
  twice and that no message still to be published is anywhere else.
* `AcknowledgedIsDone`: `AckedIsDone`. `DoneInv` says the same of the message that
  a worker is about to acknowledge, or to show in the chat.
* `RepeatsAreExplained`: `RepeatsHaveCauses`. `CopiesInv` counts:
  the rows of a message, with those still to come from workers that have lost
  their connection, are paid for by its returns to the queue and by inserts that
  stored it and ended in an error (`unsure`), but for one, which
  the worker that stored it is about to acknowledge or has acknowledged.

`AccountsProofs` holds for every set of users, names and passwords, any number of
requests and stops, on both stores. It assumes `AdminAssumption` and
`ValuesAssumption` (the values that stand for no user, an unknown promise and an
unchanged column are none of the others).

* `AccountsInvariant`: `TypeOK` and `PromisesKept` (`KeptPromises`) together with
  `RequestInv` and `CopyInv`: while something is promised of a user, at
  most one request is between the read and the write of its row, and the copy
  it will write back is the row. Without it the write could undo the promise.
* `DeletedForGood`: `DeletedStaysDeleted`. `NamesAgree`: `NamesFindUsers`.

`AgentWorkflowProofs` holds for every number of goroutines, stops and failing
store calls, unless said otherwise. It assumes `WorkflowAssumption`: a plan has 1
to 3 tasks.

* `Typing`: `TypeOK` and `StageInv`, what a run has in hand at each step.
* `TidyLineage`: `LineageIsTidy`. `OwnInv` adds that no row was created by two runs
  or for two items of a plan, that the next row of an item is under the one before,
  and that nothing is under a row whose run has not gone on with it.
* `CompletedWasExecuted`: `CompletionIsEarned`. `FinishedIsWhole`:
  `FinishedRoundIsWhole`. Both look at the rows a run has in hand when it sets
  a status, and at every step that may change those rows.
* `WhatIsSaidIsStored`: `SpokenIsStored`. `TellInv` counts: the messages told and
  those about to be told are no more than the messages stored.
* `OneRoundEach`: `OneRoundPerRunner`, assuming that no store call fails and that
  the goroutines are finitely many. With failing calls it is false: a list that
  failed looks empty, and the event is planned again. `ChatInv` says which
  messages there must be when a run looks for them, `BudgetInv` that the rows and
  messages there are, together with those the runs in progress may still add,
  are no more than one round for each goroutine.
* `InterruptedForGood`: `InterruptedStaysOpen`, a step property, assuming again
  that no store call fails. An event is abandoned (`Abandoned`) when its round is
  planned and not finished and no goroutine works on it or will plan; each step
  keeps it so, because a run that begins lists the rows, finds a plan and restores
  messages only.

`BootstrapProofs` holds for all commands, roles, events, lists and objects, and
any number of resets, loads, interruptions and requests. It assumes
`BootstrapAssumption`, `NoRowAssumption` and `KeysAssumption` (the value that
stands for no row is none, and the key made up for a summary is not the word that
stands for the rows of a round). The plans of the commands are computed, and
the first lemmas show that each has its reset first, the prompts before
the administrator and the rows of the demo before its summary (`PlanOrdered`).

* `Typing`: `TypeOK` and `WorkInv`: while the reset is still to be sent, so is all
  that it takes away.
* `SeedLogsIn`: `SeededAdminLogsIn`. `OrderInv` says that what the statements left
  count on is in the tables or sent before them, which a command that was
  interrupted and begun again keeps because it begins at the begin. `SeedInv` adds
  that ids and names of users are unique, and that an update on its way to
  the administrator writes the password of the seed: without it the update could
  bring an old one back.
* `SummaryIsLast`: `SummaryClosesDemo`, from `OrderInv`: when the summary is the
  next statement, nothing comes before it, so the rows are there.
* `StraysAreExplained`: `StraysHaveCauses`. `StrayInv` adds that a round or a push that
  counts on its event has it, or was at work on it at the last reset.
* `EntriesAreSeen`: `NoEntryMissed`. `ReaderInv` adds that between the two queries an
  entry was seen or is still on the list that is read second.
* `SeedIsGentle`: `SeedKeepsWhatPeopleSet`, a step property.

`EngineerChatProofs` holds for every number of goroutines, requests, stops and lines
in a prompt, on both stores. It assumes `BoundsAssumption` (a prompt has room for a
line).

* `Typing`: `TypeOK`, with the limit of prompts, and a number for every request in
  progress.
* `Acknowledged`: `AckedIsToldAndStored`, with the answers whose insert failed as the
  one exception. `AckInv` says the same of a request whose
  result is about to be broadcast (`Kept`) or has been and is about to be answered.
  No step of a request takes back a line or a part of the history (`Grows`); a stop
  that loses the lines ends the requests with them.
* `Remembered`: `PromptKnowsAnswers`. It rests on what the scan in `Chat` computes:
  `ChatPlaces` says that a line of the chat has a place in the result, with as many
  lines after it as there are lines of the chat behind it in the table, so the last
  `HistoryLimit` lines have it or that many are behind it (`ConversationKnows`).
  `KnowsInv` carries this from the question, which is when the answers are known to
  be stored, over the prompt to the call of the model, while other requests go on
  storing lines.

The lemmas on `Messages` and `Chat` are about sequences of any length. The induction
theorems of the library take an operator as a parameter and cannot be used here; so
`NumberInduction` states induction for a set of numbers and is proved from
`NatLessThanWellFounded` (a set that lacks a number lacks a least one),
`SequenceInduction` states it for a set of sequences. `Messages` and `Chat` are
recursive functions, so that what they are for a sequence with an element more can
be proved (`ScanExists`, `ScansAgree`).

Only model-checked: the liveness properties `RoundFinishes`, `QueuedIsReceived`,
`RequestsEnd`, `AcceptedIsAcked` and `QuestionsEnd`. They rest on fairness, and with it
on `ENABLED`, which is out of the prover's reach.

## Not modelled

The ping goroutine of a websocket, `Hub.Emit` (no caller) and the HTTP framing
are left out of the hub. `autopilot.RunForEvent` has no caller. The audit log is
only appended to. Of the ly_server routes `Auth`, `Status` and the queries only
read and format rows. The HTTP clients, the configuration, the prompts and the
text of messages are I/O or wording. `traffic-admin`'s RabbitMQ steps touch no
table. RabbitMQ, PostgreSQL, DeepSOC, the FlowShadow, the language model and
gorilla/websocket are modelled only through what the code may see of them.

`UpdateEvent` reads the row and writes it back, like `UpdateUser`; its two callers
change the status only, so the pair is one step in `AgentWorkflow`. A row whose
other columns changed in between does not occur, because nothing else changes an
event.

## Plan

The modules of the plan are written and their safety properties proved. What would
come next is a composition of `EventIngest` with the hook and `AgentWorkflow`, so that
the overlap of runs follows from pushes that repeat an alert.
