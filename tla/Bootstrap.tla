----------------------------- MODULE Bootstrap -----------------------------
(***************************************************************************)
(* traffic-admin resets, makes and seeds the database while traffic-api    *)
(* may start, stop and serve requests.  The command sends one statement    *)
(* after another without a transaction around them: it may end after any   *)
(* of them, because one fails or because it is stopped, and be run again.  *)
(* Its last steps, on RabbitMQ, are left out: they touch no table.         *)
(*                                                                         *)
(* The tables are the ones the properties need: users and prompts, events  *)
(* and every table with the id of an event.  LyServer has the t_* tables.  *)
(* Alerts become local events: no DeepSOC service is configured.           *)
(***************************************************************************)
EXTENDS LyServer, Sequences, TLC

CONSTANTS
    Roles,       \* keys of service.DefaultPrompts
    EventIds,    \* event ids
    Pushers,     \* goroutines of traffic-api that push an alert
    DemoEvent,   \* demoEventID
    DemoAsset,   \* the monitored object of the seed
    Absent,      \* an event id without a row
    Crowds,      \* bound: the kinds of requests people send in one behaviour
    Commands,    \* the flags traffic-admin is run with beside each of them
    MaxResets,   \* bound: times the schema is reset
    MaxLoads,    \* bound: summaries of the demo event
    MaxLogins    \* bound: users that are created or changed

ASSUME BootstrapAssumption ==
    /\ DemoEvent \in EventIds /\ DemoAsset \in Assets
    /\ Absent \notin {"pending", "finished"}
    /\ Crowds \subseteq SUBSET {"users", "events", "alerts", "lists"}
    /\ Commands \in [Crowds -> SUBSET {"init", "init-with-demo", "load-demo", "reset",
                                       "init-lyserver-compat"}]
    /\ MaxResets \in Nat /\ MaxLoads \in Nat /\ MaxLogins \in Nat

\* The summary of a demo load gets an id that is made up for it.
ASSUME KeysAssumption == \A n \in 1..MaxLoads : ToString(n) # "round"

VARIABLES
    crowd,    \* the kinds of requests people send
    tables,   \* tables that exist
    users,    \* rows of users
    prompts,  \* rows of prompts
    events,   \* event_status by event id
    rows,     \* rows that refer to an event, and the life they were written in
    todo,     \* statements that the command has still to send
    api,      \* the process of traffic-api
    update,   \* UpdateUser: the user_id and the password it has read
    round,    \* RunAgentWorkflow: its event and the tables it has still to fill
    push,     \* RunSyncOnce, by goroutine: what it does with one alert
    life,     \* number of resets
    seeded,   \* history: SeedBase has ended since the last reset
    touched,  \* history: a person has changed the administrator since then, or
              \* an update was on its way
    straddled, \* history: events that a round or a push was at work on at the
              \* last reset
    loads,    \* history: demo loads that have ended since the last reset
    logins    \* number of users created and changed

database == <<tables, users, prompts, events, rows>>
history == <<life, seeded, touched, straddled, loads, logins>>
requests == <<update, round, push>>
vars == <<crowd, lyVars, database, todo, api, requests, history>>

\* The event_id of these REFERENCES events; the deepsoc_event_id of the others
\* does not, and may be empty.
ReferringTables == {"messages", "tasks", "actions", "commands", "executions", "summaries"}
ChildTables == ReferringTables \cup {"event_maps", "pushed_events"}
Tables == {"users", "prompts", "events"} \cup ChildTables
UserIds == {"admin", "person"}
Passwords == {"admin", "admin123", "own"}
Users == [id : UserIds, name : UserIds, password : Passwords]
Row(table, key, e) == [table |-> table, key |-> key, event |-> e, life |-> life]
Called(u, name) == u.name = name
NoUpdate == [id |-> "", password |-> ""]

\* The rows of event_maps and pushed_events for an alert have the key "empty"
\* when their deepsoc_event_id is, and "bound" when it names the event.
Names(r) == r.key # "empty"
Steps == {"idle", "reserve", "lookup", "create", "bind", "save"}
Pushing(step, e, key) == [step |-> step, event |-> e, key |-> key]
NoPush == Pushing("idle", DemoEvent, "empty")

\* The tables that a round of agents fills, in the order of the code.  The
\* messages between them, whose errors are dropped, are left out.
RoundTables == <<"tasks", "actions", "commands", "executions", "summaries">>
NoRound == [event |-> DemoEvent, left |-> <<>>]

\* The statements of SeedDemo between the event and its summary.
DemoRows == << <<"messages", "demo-message-001">>, <<"messages", "demo-message-002">>,
               <<"messages", "demo-message-003">>, <<"tasks", "demo-task-001">>,
               <<"tasks", "demo-task-002">>, <<"executions", "demo-execution-001">> >>

Stmt(op, key) == [op |-> op, key |-> key]

MutantDemoPlan ==
    <<Stmt("event", "")>> \o <<Stmt("summary", "")>>
    \o [i \in 1..Len(DemoRows) |-> Stmt("row", DemoRows[i])]

DemoPlan ==
    <<Stmt("event", "")>> \o [i \in 1..Len(DemoRows) |-> Stmt("row", DemoRows[i])]
    \o <<Stmt("summary", "")>>

BasePlan == <<Stmt("reset", ""), Stmt("schema", ""), Stmt("prompts", ""), Stmt("admin", "")>>
LyPlan == <<Stmt("ly-schema", ""), Stmt("ly-seed", "")>>

\* What main and Run do for the flags, in the order of the code.
Plan(flags) ==
    (IF flags \in {"init", "init-with-demo", "reset"} THEN BasePlan ELSE <<>>)
    \o (IF flags \in {"init-with-demo", "load-demo"} THEN DemoPlan ELSE <<>>)
    \o (IF flags \in {"init-with-demo", "init-lyserver-compat"} THEN LyPlan ELSE <<>>)

Init ==
    /\ crowd \in Crowds
    /\ LyInit
    /\ tables = {} /\ users = {} /\ prompts = {}
    /\ events = [e \in EventIds |-> Absent]
    /\ rows = {}
    /\ todo = <<>>
    /\ api = "down"
    /\ update = NoUpdate /\ round = NoRound /\ push = [p \in Pushers |-> NoPush]
    /\ life = 0 /\ seeded = FALSE /\ touched = FALSE /\ straddled = {}
    /\ loads = 0 /\ logins = 0

-----------------------------------------------------------------------------
(* traffic-admin.                                                          *)

Start(flags) ==
    /\ todo = <<>>
    /\ flags \in {"init", "init-with-demo", "reset"} => life < MaxResets
    /\ todo' = Plan(flags)
    /\ UNCHANGED <<lyVars, database, api, requests, history>>

\* The next statement of the command is this one.
Sends(op) == todo # <<>> /\ Head(todo).op = op
Done == todo' = Tail(todo)

\* A statement fails or the command is stopped: what it has sent stays.
Interrupted ==
    /\ todo # <<>>
    /\ todo' = <<>>
    /\ UNCHANGED <<lyVars, database, api, requests, history>>

\* The events that a round of agents or a push is at work on.
UnderWay ==
    {e \in {round.event} : round # NoRound}
    \cup {push[p].event : p \in {q \in Pushers : push[q] # NoPush}}

MutantDropped == Tables \ {"actions", "commands", "pushed_events"}

Dropped == Tables \ {"actions", "commands"}

\* One string of DROP TABLE ... CASCADE, which PostgreSQL runs as a
\* transaction.
ResetSchema ==
    /\ Sends("reset") /\ Done
    /\ tables' = tables \ Dropped
    /\ users' = {} /\ prompts' = {}
    /\ events' = [e \in EventIds |-> Absent]
    /\ rows' = {r \in rows : r.table \notin Dropped}
    /\ life' = life + 1 /\ seeded' = FALSE /\ loads' = 0
    /\ straddled' = UnderWay
    /\ UNCHANGED <<lyVars, api, requests, touched, logins>>

\* PostgresSchema only creates what is missing.
CreateSchema ==
    /\ Sends("schema") /\ Done
    /\ tables' = Tables
    /\ UNCHANGED <<lyVars, users, prompts, events, rows, api, requests, history>>

\* SeedBase sends a statement for each prompt, in the order of a Go map.
SeedPrompt(r) ==
    /\ Sends("prompts") /\ "prompts" \in tables /\ r \notin prompts
    /\ prompts' = prompts \cup {r}
    /\ IF prompts' = Roles THEN Done ELSE todo' = todo
    /\ UNCHANGED <<lyVars, tables, users, events, rows, api, requests, history>>

SeedUser(password) ==
    [id |-> "admin", name |-> "admin", password |-> password]

MutantUpsertAdmin ==
    IF \E u \in users : Called(u, "admin") THEN users
    ELSE users \cup {SeedUser("admin123")}

\* ON CONFLICT (username) DO UPDATE.  (is_active goes the way of the password.)
UpsertAdmin ==
    {IF Called(u, "admin") THEN [u EXCEPT !.password = "admin123"]
                           ELSE u : u \in users}
    \cup (IF \E u \in users : Called(u, "admin") THEN {} ELSE {SeedUser("admin123")})

\* Nobody is called admin and a user of another name has the user_id: the
\* insert would meet a conflict that ON CONFLICT (username) does not name.
IdIsTaken ==
    /\ \A u \in users : ~Called(u, "admin")
    /\ \E u \in users : u.id = "admin"

SeedAdmin ==
    /\ Sends("admin") /\ Done
    /\ "users" \in tables /\ ~IdIsTaken
    /\ users' = UpsertAdmin
    /\ seeded' = TRUE
    /\ touched' = (\E u \in users' : Called(u, "admin") /\ u.id = update.id)
    /\ UNCHANGED <<lyVars, tables, prompts, events, rows, api, requests,
                   life, straddled, loads, logins>>

\* The event is put back to pending when it exists.
SeedDemoEvent ==
    /\ Sends("event") /\ Done
    /\ "events" \in tables
    /\ events' = [events EXCEPT ![DemoEvent] = "pending"]
    /\ UNCHANGED <<lyVars, tables, users, prompts, rows, api, requests, history>>

Missing(table, key) == \A r \in rows : r.table # table \/ r.key # key

SeedDemoRow ==
    LET table == Head(todo).key[1]
        key == Head(todo).key[2]
    IN  /\ Sends("row") /\ Done
        /\ table \in tables /\ events[DemoEvent] # Absent
        /\ rows' = IF Missing(table, key) THEN rows \cup {Row(table, key, DemoEvent)} ELSE rows
        /\ UNCHANGED <<lyVars, tables, users, prompts, events, api, requests, history>>

\* The summary has no key to conflict with: every load adds one.
SeedSummary ==
    /\ Sends("summary") /\ Done
    /\ "summaries" \in tables /\ events[DemoEvent] # Absent
    /\ loads < MaxLoads
    /\ loads' = loads + 1
    /\ rows' = rows \cup {Row("summaries", ToString(loads'), DemoEvent)}
    /\ UNCHANGED <<lyVars, tables, users, prompts, events, api, requests,
                   life, seeded, touched, straddled, logins>>

LySchema ==
    /\ Sends("ly-schema") /\ Done
    /\ CreateLySchema
    /\ UNCHANGED <<database, api, requests, history>>

LySeed ==
    /\ Sends("ly-seed") /\ Done
    /\ SeedObjects(DemoAsset)
    /\ UNCHANGED <<database, api, requests, history>>

Admin ==
    \/ \E flags \in Commands[crowd] : Start(flags)
    \/ Interrupted \/ ResetSchema \/ CreateSchema
    \/ \E r \in Roles : SeedPrompt(r)
    \/ SeedAdmin \/ SeedDemoEvent \/ SeedDemoRow \/ SeedSummary
    \/ LySchema \/ LySeed

-----------------------------------------------------------------------------
(* traffic-api and the people who use it.                                  *)

\* AUTO_MIGRATE: the schema, then the administrator unless there is one.
ApiMigrates ==
    /\ api = "down"
    /\ api' = "seeding"
    /\ tables' = Tables
    /\ UNCHANGED <<lyVars, users, prompts, events, rows, todo, requests, history>>

ApiSeeds ==
    /\ api = "seeding" /\ "users" \in tables
    /\ IF \E u \in users : Called(u, "admin")
         THEN users' = users
         ELSE /\ ~IdIsTaken
              /\ users' = users \cup {SeedUser("admin")}
    /\ api' = "up"
    /\ UNCHANGED <<lyVars, tables, prompts, events, rows, todo, requests, history>>

\* The process is stopped, or does not come up.
ApiStops ==
    /\ api # "down"
    /\ api' = "down"
    /\ update' = NoUpdate /\ round' = NoRound /\ push' = [p \in Pushers |-> NoPush]
    /\ UNCHANGED <<lyVars, database, todo, history>>

CountUserChange == logins < MaxLogins /\ logins' = logins + 1

CreateUser(i, n) ==
    /\ "users" \in tables /\ CountUserChange
    /\ \A u \in users : u.id # i /\ ~Called(u, n)
    /\ users' = users \cup {[id |-> i, name |-> n, password |-> "own"]}
    /\ UNCHANGED <<lyVars, tables, prompts, events, rows, todo, api, requests,
                   life, seeded, touched, straddled, loads>>

DeleteUser(u) ==
    /\ CountUserChange
    /\ users' = users \ {u}
    /\ touched' = (touched \/ Called(u, "admin"))
    /\ UNCHANGED <<lyVars, tables, prompts, events, rows, todo, api, requests,
                   life, seeded, straddled, loads>>

\* A login, or a change of the password, reads the row of a user_id ...
ReadUser(u) ==
    /\ update = NoUpdate /\ CountUserChange
    /\ update' = [id |-> u.id, password |-> u.password]
    /\ UNCHANGED <<lyVars, database, todo, api, round, push,
                   life, seeded, touched, straddled, loads>>

\* ... and writes all of it back, to the row that has the user_id by then.
WriteUser(password) ==
    LET Written(u) == u.id = update.id IN
    /\ update # NoUpdate
    /\ users' = {IF Written(u) THEN [u EXCEPT !.password = password] ELSE u : u \in users}
    /\ touched' = \/ touched
                  \/ password # update.password /\ \E u \in users : Written(u) /\ Called(u, "admin")
    /\ update' = NoUpdate
    /\ UNCHANGED <<lyVars, tables, prompts, events, rows, todo, api, round, push,
                   life, seeded, straddled, loads, logins>>

CreateEvent(e) ==
    /\ "events" \in tables /\ events[e] = Absent
    /\ events' = [events EXCEPT ![e] = "pending"]
    /\ UNCHANGED <<lyVars, tables, users, prompts, rows, todo, api, requests, history>>

\* RunAgentWorkflow for an event that has no task and no execution.
StartRound(e) ==
    /\ round = NoRound /\ events[e] # Absent
    /\ \A r \in rows : r.event = e => r.table \notin {"tasks", "executions"}
    /\ round' = [event |-> e, left |-> RoundTables]
    /\ UNCHANGED <<lyVars, database, todo, api, update, push, history>>

MutantAccepts(table) == table \in tables

\* The event_id of a table REFERENCES events; DROP ... CASCADE takes that
\* away from the tables that stay.
Accepts(table) ==
    table \in tables /\ (table \in Dropped => events[round.event] # Absent)

FillsTable ==
    LET table == Head(round.left) IN
    /\ round.left # <<>> /\ Accepts(table)
    /\ rows' = rows \cup {Row(table, "round", round.event)}
    /\ round' = IF Len(round.left) = 1 THEN NoRound ELSE [round EXCEPT !.left = Tail(@)]
    /\ events' = IF Len(round.left) = 1 /\ events[round.event] # Absent
                   THEN [events EXCEPT ![round.event] = "finished"] ELSE events
    /\ UNCHANGED <<lyVars, tables, users, prompts, todo, api, update, push, history>>

\* An insert fails: the round ends.
RoundFails ==
    /\ round # NoRound
    /\ round' = NoRound
    /\ UNCHANGED <<lyVars, database, todo, api, update, push, history>>

-----------------------------------------------------------------------------
(* RunSyncOnce for one alert: ProcessLyEvent and SavePushedEvent.  The      *)
(* alert is named for the event it becomes.  Any statement may end in an    *)
(* error, before or after it has taken effect.                              *)

At(p, step) == push[p].step = step
Goto(p, step) == push' = [push EXCEPT ![p].step = step]
Saves(p, key) == push' = [push EXCEPT ![p].step = "save", ![p].key = key]
RowsOf(table, e) == {r \in rows : r.table = table /\ r.event = e}

\* An insert ON CONFLICT DO UPDATE.
Upsert(table, key, e) == (rows \ RowsOf(table, e)) \cup {Row(table, key, e)}

\* AlreadyPushed is false: there is no row, or the select fails.
StartPush(p, e) ==
    /\ push[p] = NoPush
    /\ push' = [push EXCEPT ![p] = Pushing("reserve", e, "empty")]
    /\ UNCHANGED <<lyVars, database, todo, api, update, round, history>>

\* ReserveFingerprint; without its reply it goes for a duplicate.
Reserve(p) ==
    /\ At(p, "reserve")
    /\ "event_maps" \in tables /\ RowsOf("event_maps", push[p].event) = {}
    /\ rows' = rows \cup {Row("event_maps", "empty", push[p].event)}
    /\ Goto(p, "create") \/ Goto(p, "lookup")
    /\ UNCHANGED <<lyVars, tables, users, prompts, events, todo, api, update, round, history>>

\* There is a row, or the insert fails.
NotReserved(p) ==
    /\ At(p, "reserve")
    /\ Goto(p, "lookup")
    /\ UNCHANGED <<lyVars, database, todo, api, update, round, history>>

\* GetEventMap; the push is done.
LookUp(p) ==
    /\ At(p, "lookup")
    /\ \/ Saves(p, "empty")
       \/ \E r \in RowsOf("event_maps", push[p].event) :
             Saves(p, IF Names(r) THEN "bound" ELSE "empty")
    /\ UNCHANGED <<lyVars, database, todo, api, update, round, history>>

\* After an error the alert is tried again, or given up.
TriesAgain(p) == Goto(p, "reserve") \/ Saves(p, "empty")

LocalCreate(p) ==
    /\ At(p, "create")
    /\ "events" \in tables /\ events[push[p].event] = Absent
    /\ events' = [events EXCEPT ![push[p].event] = "pending"]
    /\ Goto(p, "bind") \/ TriesAgain(p)
    /\ UNCHANGED <<lyVars, tables, users, prompts, rows, todo, api, update, round, history>>

LocalCreateFails(p) ==
    /\ At(p, "create")
    /\ TriesAgain(p)
    /\ UNCHANGED <<lyVars, database, todo, api, update, round, history>>

\* BindEventMap is an UPDATE: without a row it changes nothing.
BindEventMap(p) ==
    LET e == push[p].event IN
    /\ At(p, "bind")
    /\ rows' \in {rows} \cup {Upsert("event_maps", "bound", e) : r \in RowsOf("event_maps", e)}
    /\ Saves(p, "bound")
    /\ UNCHANGED <<lyVars, tables, users, prompts, events, todo, api, update, round, history>>

\* The insert needs no event; its error is dropped.
SavePushedEvent(p) ==
    LET e == push[p].event IN
    /\ At(p, "save")
    /\ \/ rows' = rows
       \/ "pushed_events" \in tables /\ rows' = Upsert("pushed_events", push[p].key, e)
    /\ push' = [push EXCEPT ![p] = NoPush]
    /\ UNCHANGED <<lyVars, tables, users, prompts, events, todo, api, update, round, history>>

Pushes(p) ==
    \/ Reserve(p) \/ NotReserved(p) \/ LookUp(p) \/ LocalCreate(p) \/ LocalCreateFails(p)
    \/ BindEventMap(p) \/ SavePushedEvent(p)

Requests(kind) == api = "up" /\ kind \in crowd

Api ==
    \/ ApiMigrates \/ ApiSeeds \/ ApiStops
    \/ /\ Requests("users")
       /\ \/ \E i, n \in UserIds : CreateUser(i, n)
          \/ \E u \in users : DeleteUser(u) \/ ReadUser(u)
    \/ \E password \in {update.password, "own"} : WriteUser(password)
    \/ /\ Requests("events")
       /\ \E e \in EventIds : CreateEvent(e) \/ StartRound(e)
    \/ FillsTable \/ RoundFails
    \/ /\ Requests("alerts")
       /\ \E p \in Pushers, e \in EventIds : StartPush(p, e)
    \/ \E p \in Pushers : Pushes(p)
    \/ /\ Requests("lists") /\ LyRequest
       /\ UNCHANGED <<database, todo, api, requests, history>>

Next == (Admin \/ Api) /\ crowd' = crowd

Spec == Init /\ [][Next]_vars

-----------------------------------------------------------------------------
(* Properties.                                                             *)

\* Every variable keeps the shape the code gives it.
TypeOK ==
    /\ LyTypeOK /\ crowd \in Crowds
    /\ tables \subseteq Tables
    /\ users \subseteq Users
    /\ prompts \subseteq Roles
    /\ events \in [EventIds -> {Absent, "pending", "finished"}]
    /\ \A r \in rows : r.table \in ChildTables /\ r.event \in EventIds /\ r.life \in 0..life
    /\ api \in {"down", "seeding", "up"}
    /\ update \in [id : UserIds, password : Passwords] \cup {NoUpdate}
    /\ push \in [Pushers -> [step : Steps, event : EventIds, key : {"empty", "bound"}]]
    /\ life \in 0..MaxResets /\ loads \in 0..MaxLoads /\ logins \in 0..MaxLogins
    /\ seeded \in BOOLEAN /\ touched \in BOOLEAN /\ straddled \subseteq EventIds

\* Once SeedBase has ended every prompt is there and the administrator logs in
\* with the password it has set, whatever an earlier command left undone and
\* wherever traffic-api started and seeded its own administrator, until a
\* person changes or deletes that user; except for an update that had read
\* the user before.
SeededAdminLogsIn ==
    seeded /\ ~touched =>
        /\ prompts = Roles
        /\ \E u \in users : Called(u, "admin") /\ u.password = "admin123"

\* Rows of an earlier life are in the two tables that ResetSchema does not
\* drop.  A row of this life that names an event which is gone is in one of
\* the four tables that take it, and a round of agents or a push that was at
\* work on that event at the last reset has left it there.
StraysHaveCauses ==
    \A r \in rows :
        /\ r.life # life => r.table \in {"actions", "commands"}
        /\ r.life = life /\ Names(r) /\ events[r.event] = Absent =>
              /\ r.table \in {"actions", "commands", "event_maps", "pushed_events"}
              /\ r.event \in straddled

\* A summary of the demo load stands for a whole load: every row of the demo
\* is there, and there are as many summaries as loads that have ended, however
\* many loads were interrupted.
SummaryClosesDemo ==
    LET Summaries == {r \in rows : r.table = "summaries" /\ r.key # "round"} IN
    /\ Summaries # {} =>
          \A i \in 1..Len(DemoRows) : ~Missing(DemoRows[i][1], DemoRows[i][2])
    /\ Summaries = {Row("summaries", ToString(n), DemoEvent) : n \in 1..loads}

\* Resetting and seeding leave alone what people have set with the /d/*
\* requests: entries of the lists, the configuration, the place of an object.
SeedKeepsWhatPeopleSet ==
    [][Admin => /\ lists' = lists /\ config' = config
                /\ \A o \in Assets : objects[o] # NoRow =>
                      objects'[o] # NoRow /\ objects'[o].place = objects[o].place]_vars
=============================================================================
