----------------------------- MODULE DrivingMode -----------------------------
(***************************************************************************)
(* The switch that decides whether the agents work on an event of their    *)
(* own accord.  It is kept twice: in the memory of the process and, when   *)
(* DATABASE_URL is set, in the row "driving_mode" of app_states.  A request *)
(* reads it (GET), sets it (PUT), or has created an event: then the hook   *)
(* reads the switch, may turn it on, and may run the agents.  Requests are *)
(* served concurrently; memory and database are touched in separate steps. *)
(*                                                                         *)
(* A database call may fail, also after the server has done it.  The       *)
(* process may stop and start again with an empty memory.                  *)
(***************************************************************************)
EXTENDS Naturals

CONSTANTS
    Handlers,    \* goroutines that serve requests
    None,        \* no value of the switch
    Configs,     \* configurations the process may be started with
    MaxRestarts  \* bound: times the process stops

\* STORE_BACKEND=postgres does not start without DATABASE_URL.
ASSUME ConfigAssumption ==
    /\ Configs \subseteq [url : BOOLEAN, postgres : BOOLEAN]
    /\ \A c \in Configs : c.postgres => c.url
    /\ None \notin BOOLEAN
    /\ MaxRestarts \in Nat

VARIABLES
    cfg,        \* the configuration of the process
    req,        \* what each goroutine is doing
    states,     \* Server.states["driving_mode"]
    app_states, \* the value in the database; a missing row reads as false
    acked,      \* history: the value last set and acknowledged
    contested,  \* history: a request that may set the other value was served
                \* at the time of that acknowledgement or since
    underOff,   \* history: requests that began while an acknowledged off stood
    unstored,   \* history: that acknowledgement hid a write that failed
    disturbed,  \* history: requests between the two copies at the time another
                \* one was, and one of the two sets the switch
    outOfStep,  \* history: the last request that brought a value from one copy
                \* to the other was disturbed or failed, or there was none
    restarts

vars == <<cfg, req, states, app_states, acked, contested, underOff, unstored,
          disturbed, outOfStep, restarts>>

Steps == {"idle", "read", "cache", "decide", "setMemory", "setDatabase", "run"}

\* kind: the route; force: the hook was told to run the agents whatever the
\* switch says; value: what was read, or what is to be set.
Requests == [kind : {"get", "put", "hook"}, pc : Steps, force : BOOLEAN, value : BOOLEAN]
Idle == [kind |-> "get", pc |-> "idle", force |-> FALSE, value |-> FALSE]

At(h, step) == req[h].pc = step
Goto(h, step, value) == req' = [req EXCEPT ![h].pc = step, ![h].value = value]
Finish(h) == req' = [req EXCEPT ![h] = Idle]

\* The requests that may set the switch to v.
MaySet(r, v) ==
    /\ r.pc # "idle"
    /\ \/ r.kind = "put" /\ r.value = v
       \/ r.kind = "hook" /\ r.force /\ v

\* A request between its use of one copy and its use of the other.
Halfway(h) == At(h, "cache") \/ At(h, "setDatabase")

\* h goes halfway while the requests in others are.
Overlap(h, others) ==
    disturbed' = disturbed \cup others \cup {g \in {h} : others # {}}

\* h has used both copies, and nothing failed.
BroughtAcross(h) ==
    /\ disturbed' = disturbed \ {h}
    /\ outOfStep' = (h \in disturbed)

Init ==
    /\ cfg \in Configs
    /\ req = [h \in Handlers |-> Idle]
    /\ states = FALSE
    /\ app_states = FALSE
    /\ acked = None
    /\ contested = FALSE
    /\ underOff = {}
    /\ unstored = FALSE
    /\ disturbed = {}
    /\ outOfStep = FALSE
    /\ restarts = 0

-----------------------------------------------------------------------------
(* Requests.                                                               *)

Begin(h, r) ==
    /\ At(h, "idle")
    /\ req' = [req EXCEPT ![h] = r]
    /\ LET against == acked # None /\ MaySet(r, ~acked)
       IN  /\ contested' = (contested \/ against)
           /\ underOff' = IF against THEN {}
                          ELSE IF acked = FALSE /\ ~contested THEN underOff \cup {h}
                          ELSE underOff \ {h}
    /\ UNCHANGED <<cfg, states, app_states, acked, unstored, disturbed, outOfStep, restarts>>

Get(h) == Begin(h, [kind |-> "get", pc |-> "read", force |-> FALSE, value |-> FALSE])

Put(h, v) == Begin(h, [kind |-> "put", pc |-> "setMemory", force |-> FALSE, value |-> v])

\* The handler under the hook has answered 2xx and named an event.
Created(h, force) ==
    Begin(h, [kind |-> "hook", pc |-> "read", force |-> force, value |-> FALSE])

-----------------------------------------------------------------------------
(* getDrivingMode.                                                         *)

MutantReadDatabase(h) ==
    /\ At(h, "read") /\ cfg.url
    /\ Goto(h, "cache", states)
    /\ Overlap(h, {g \in Handlers : At(g, "setDatabase")})
    /\ UNCHANGED <<cfg, states, app_states, acked, contested, underOff, unstored, outOfStep,
                   restarts>>

ReadDatabase(h) ==
    /\ At(h, "read") /\ cfg.url
    /\ Goto(h, "cache", app_states)
    /\ Overlap(h, {g \in Handlers : At(g, "setDatabase")})
    /\ UNCHANGED <<cfg, states, app_states, acked, contested, underOff, unstored, outOfStep,
                   restarts>>

\* What was read goes to memory, over whatever came there meanwhile.
CacheRead(h) ==
    /\ At(h, "cache")
    /\ states' = req[h].value
    /\ Goto(h, "decide", req[h].value)
    /\ BroughtAcross(h)
    /\ UNCHANGED <<cfg, app_states, acked, contested, underOff, unstored, restarts>>

\* Without a database, or when a memory store hides that it failed.
ReadMemory(h) ==
    /\ At(h, "read") /\ ~cfg.postgres
    /\ Goto(h, "decide", states)
    /\ UNCHANGED <<cfg, states, app_states, acked, contested, underOff, unstored, disturbed,
                   outOfStep, restarts>>

\* GET answers 500; the hook logs the error and runs nothing.
ReadFails(h) ==
    /\ At(h, "read") /\ cfg.postgres
    /\ Finish(h)
    /\ UNCHANGED <<cfg, states, app_states, acked, contested, underOff, unstored, disturbed,
                   outOfStep, restarts>>

-----------------------------------------------------------------------------
(* setDrivingMode.                                                         *)

\* The value is set for its caller, who goes on: the hook to run the agents,
\* PUT to its answer.
Acknowledge(h) ==
    /\ acked' = req[h].value
    /\ contested' = \E g \in Handlers \ {h} : MaySet(req[g], ~req[h].value)
    /\ underOff' = underOff \ {h}
    /\ IF req[h].kind = "hook" THEN Goto(h, "run", TRUE) ELSE Finish(h)

MutantSetMemory(h) ==
    /\ At(h, "setMemory")
    /\ states' = req[h].value
    /\ IF cfg.postgres
         THEN /\ Goto(h, "setDatabase", req[h].value)
              /\ Overlap(h, {g \in Handlers : Halfway(g)})
              /\ UNCHANGED <<acked, contested, underOff>>
         ELSE Acknowledge(h) /\ UNCHANGED disturbed
    /\ UNCHANGED <<cfg, app_states, unstored, outOfStep, restarts>>

SetMemory(h) ==
    /\ At(h, "setMemory")
    /\ states' = req[h].value
    /\ IF cfg.url
         THEN /\ Goto(h, "setDatabase", req[h].value)
              /\ Overlap(h, {g \in Handlers : Halfway(g)})
              /\ UNCHANGED <<acked, contested, underOff>>
         ELSE Acknowledge(h) /\ UNCHANGED disturbed
    /\ UNCHANGED <<cfg, app_states, unstored, outOfStep, restarts>>

SetDatabase(h) ==
    /\ At(h, "setDatabase")
    /\ app_states' = req[h].value
    /\ Acknowledge(h)
    /\ unstored' = FALSE
    /\ BroughtAcross(h)
    /\ UNCHANGED <<cfg, states, restarts>>

MutantSetDatabaseFails(h) ==
    /\ At(h, "setDatabase")
    /\ app_states' \in {app_states, req[h].value}
    /\ outOfStep' = TRUE
    /\ disturbed' = disturbed \ {h}
    /\ Acknowledge(h)
    /\ UNCHANGED <<cfg, states, unstored, restarts>>

\* PUT answers 500 on PostgreSQL only: a memory store acknowledges what it
\* could not store.  The hook goes on in any case.
SetDatabaseFails(h) ==
    /\ At(h, "setDatabase")
    /\ app_states' \in {app_states, req[h].value}
    /\ outOfStep' = TRUE
    /\ disturbed' = disturbed \ {h}
    /\ IF cfg.postgres
         THEN /\ IF req[h].kind = "hook" THEN Goto(h, "run", TRUE) ELSE Finish(h)
              /\ UNCHANGED <<acked, contested, underOff, unstored>>
         ELSE /\ Acknowledge(h)
              /\ unstored' = (app_states' # req[h].value)
    /\ UNCHANGED <<cfg, states, restarts>>

-----------------------------------------------------------------------------
(* withDrivingModeAutomation, and the answer of GET.                       *)

Decide(h) ==
    /\ At(h, "decide")
    /\ IF req[h].kind = "get" THEN Finish(h)
       ELSE IF req[h].value THEN Goto(h, "run", TRUE)
       ELSE IF req[h].force THEN Goto(h, "setMemory", TRUE)
       ELSE Finish(h)
    /\ UNCHANGED <<cfg, states, app_states, acked, contested, underOff, unstored, disturbed,
                   outOfStep, restarts>>

\* RunAgentWorkflow has returned (module AgentWorkflow).
EndRound(h) ==
    /\ At(h, "run")
    /\ Finish(h)
    /\ UNCHANGED <<cfg, states, app_states, acked, contested, underOff, unstored, disturbed,
                   outOfStep, restarts>>

\* The process stops between two steps; a statement it had sent may count.
\* Without a database nothing was promised beyond it.
Restart ==
    /\ restarts < MaxRestarts
    /\ restarts' = restarts + 1
    /\ req' = [h \in Handlers |-> Idle]
    /\ states' = FALSE
    /\ app_states' \in {app_states} \cup
          {req[h].value : h \in {g \in Handlers : At(g, "setDatabase")}}
    /\ acked' = IF cfg.url THEN acked ELSE None
    /\ underOff' = {}
    /\ disturbed' = {}
    /\ outOfStep' = TRUE
    /\ UNCHANGED <<cfg, contested, unstored>>

Serve(h) ==
    \/ ReadDatabase(h) \/ CacheRead(h) \/ ReadMemory(h) \/ ReadFails(h)
    \/ SetMemory(h) \/ SetDatabase(h) \/ SetDatabaseFails(h)
    \/ Decide(h) \/ EndRound(h)

Next ==
    \/ \E h \in Handlers : Get(h) \/ Serve(h)
    \/ \E h \in Handlers, b \in BOOLEAN : Put(h, b) \/ Created(h, b)
    \/ Restart

Spec == Init /\ [][Next]_vars

-----------------------------------------------------------------------------
(* Properties.                                                             *)

\* Every variable keeps the shape the code gives it.
TypeOK ==
    /\ cfg \in Configs
    /\ req \in [Handlers -> Requests]
    /\ states \in BOOLEAN /\ app_states \in BOOLEAN
    /\ acked \in BOOLEAN \cup {None}
    /\ contested \in BOOLEAN
    /\ underOff \subseteq Handlers
    /\ unstored \in BOOLEAN
    /\ disturbed \subseteq Handlers
    /\ outOfStep \in BOOLEAN
    /\ restarts \in 0..MaxRestarts

\* What the next reader is told when nothing fails.
Switch == IF cfg.url THEN app_states ELSE states

\* Once a PUT, or the hook of a created event, has been told that the switch
\* is set, it stays so until a request that asks for the other value is
\* served: no reader that copies an old value, no failing write and, with a
\* database, no restart undoes it.  The one exception is a memory store with
\* a database beside it that acknowledged a write the database refused; it
\* ends with the next write that succeeds.
AcknowledgedStands ==
    acked # None /\ ~contested /\ ~unstored => Switch = acked

\* When an acknowledged off stands while an event is created that does not
\* ask for automation, the agents do not work on it, although other requests
\* copy old values of the switch about.
OffMeansNoRound ==
    cfg.postgres => \A h \in underOff : ~At(h, "run")

\* The copy a failing database is replaced with is the stored value whenever
\* nobody is about to store one.  A read that raced with a write may leave
\* the two different (its old value comes to memory last), and so may a
\* failing write or a restart, but not for longer than until the next read or
\* write that no other disturbs.
CopiesAgree ==
    cfg.url /\ ~outOfStep /\ (\A h \in Handlers : ~At(h, "setDatabase"))
        => states = app_states
=============================================================================
