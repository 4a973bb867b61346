---------------------------- MODULE AgentWorkflow ----------------------------
(***************************************************************************)
(* RunAgentWorkflow for one stored event.  The driving-mode hook calls it  *)
(* inside every request that created or repeated the event, so several     *)
(* runs can overlap, each working through a plan of NPlans tasks: a task   *)
(* gets an action, the action a command, the command an execution; then a  *)
(* summary closes the round.  Five roles comment the stages in the event's *)
(* chat.  A run that finds rows of an earlier one does not plan again; if  *)
(* no role has spoken yet it restores the missing messages.                *)
(*                                                                         *)
(* Every store call is one step.  The process may stop between any two,    *)
(* and with StoreErrors any call may fail, before or after the database    *)
(* has done it: a failed insert ends the run, whether its row is there or  *)
(* not; a failed update or message goes unnoticed.                         *)
(***************************************************************************)
EXTENDS Naturals, Sequences, FiniteSets

CONSTANTS
    Runners,      \* goroutines that may run the workflow
    NPlans,       \* tasks that buildTaskPlans makes for the event, 1 to 3
    StoreErrors,  \* a store call may fail
    MaxFailures   \* bound: stops of the process and failed store calls

ASSUME WorkflowAssumption ==
    /\ NPlans \in 1..3
    /\ StoreErrors \in BOOLEAN
    /\ MaxFailures \in Nat

VARIABLES
    event,     \* events.event_status
    rows,      \* the tasks, actions, commands, executions and summaries
    messages,  \* agent messages stored for the stage of each table
    told,      \* Socket.IO and queue notifications of those messages
    updates,   \* execution_update and status broadcasts
    voiced,    \* somebody else has posted in the name of a role
    run,       \* what each goroutine is doing
    failures   \* stops and failed store calls so far

store == <<event, rows, messages, voiced>>
outside == <<told, updates>>
vars == <<store, outside, run, failures>>

Task == 1
Action == 2
Command == 3
Execution == 4
Summary == 5
Tables == Task..Summary

Statuses == {"pending", "processing", "completed"}
\* parent is the place of the row above in its table, 0 for none.
Rows == [parent : Nat, status : Statuses]

Steps == {"idle", "list", "inspect", "begin", "add", "mark", "close", "say",
          "tell", "notify", "summarize", "finish", "status"}
\* table and i are the loop variables, made the rows this run has created,
\* seen the tables that were not empty when it listed them.
Runs == [pc : Steps, restoring : BOOLEAN, table : Tables, i : 1..NPlans,
         made : [Task..Execution -> Seq(Nat)], seen : [Tables -> BOOLEAN]]

Idle == [pc |-> "idle", restoring |-> FALSE, table |-> Task, i |-> 1,
         made |-> [t \in Task..Execution |-> <<>>],
         seen |-> [t \in Tables |-> FALSE]]

At(r, step) == run[r].pc = step
Goto(r, step, t, n) ==
    run' = [run EXCEPT ![r].pc = step, ![r].table = t, ![r].i = n]
Return(r) == run' = [run EXCEPT ![r] = Idle]

Init ==
    /\ event = "pending"
    /\ rows = [t \in Tables |-> <<>>]
    /\ messages = [t \in Tables |-> 0]
    /\ told = [t \in Tables |-> 0]
    /\ updates = [execution |-> 0, status |-> 0]
    /\ voiced = FALSE
    /\ run = [r \in Runners |-> Idle]
    /\ failures = 0

\* A store call ends in an error.
CallFails == /\ StoreErrors
             /\ failures < MaxFailures
             /\ failures' = failures + 1

-----------------------------------------------------------------------------
(* What is there already.                                                  *)

\* The hook of a request runs the workflow; GetEvent finds the event.
Trigger(r) ==
    /\ At(r, "idle")
    /\ Goto(r, "list", Task, 1)
    /\ UNCHANGED <<store, outside, failures>>

\* The mutants, named for the mistake, each stand for a definition below.
MutantListRowsPlansAgain(r) ==
    LET t == run[r].table
        filled == rows[t] # <<>>
        Seen(found) ==
            LET seen == [run[r].seen EXCEPT ![t] = found] IN
            run' = [run EXCEPT
                      ![r].seen = seen,
                      ![r].table = IF t = Summary THEN Task ELSE t + 1,
                      ![r].pc = IF t # Summary THEN "list"
                                ELSE IF seen[Execution]
                                THEN "inspect" ELSE "begin"]
    IN
    /\ At(r, "list")
    /\ \/ Seen(filled) /\ failures' = failures
       \/ filled /\ Seen(FALSE) /\ CallFails
    /\ UNCHANGED <<store, outside>>

\* The five lists are five queries; a failed one is an empty list.  A plan
\* is made when the run saw neither tasks nor executions.
ListRows(r) ==
    LET t == run[r].table
        filled == rows[t] # <<>>
        Seen(found) ==
            LET seen == [run[r].seen EXCEPT ![t] = found] IN
            run' = [run EXCEPT
                      ![r].seen = seen,
                      ![r].table = IF t = Summary THEN Task ELSE t + 1,
                      ![r].pc = IF t # Summary THEN "list"
                                ELSE IF seen[Task] \/ seen[Execution]
                                THEN "inspect" ELSE "begin"]
    IN
    /\ At(r, "list")
    /\ \/ Seen(filled) /\ failures' = failures
       \/ filled /\ Seen(FALSE) /\ CallFails
    /\ UNCHANGED <<store, outside>>

\* The tables from t on that the restoring run has a message for; a missing
\* summary is made up for when there are executions.
Restorable(seen, t) ==
    {u \in t..Summary : seen[u] \/ (u = Summary /\ seen[Execution])}

MutantRestoreWithoutSummary(r, t) ==
    LET todo == Restorable(run[r].seen, t)
        u == CHOOSE x \in todo : \A y \in todo : x <= y
    IN
    IF todo = {} THEN Return(r)
    ELSE run' = [run EXCEPT
                   ![r].restoring = TRUE,
                   ![r].table = u,
                   ![r].pc = "say"]

RestoreFrom(r, t) ==
    LET todo == Restorable(run[r].seen, t)
        u == CHOOSE x \in todo : \A y \in todo : x <= y
    IN
    IF todo = {} THEN Return(r)
    ELSE run' = [run EXCEPT
                   ![r].restoring = TRUE,
                   ![r].table = u,
                   ![r].pc = IF run[r].seen[u] THEN "say" ELSE "summarize"]

HasAgentWorkflowMessages == voiced \/ \E t \in Tables : messages[t] > 0

\* Nothing is left to do when a role has spoken.
InspectMessages(r) ==
    /\ At(r, "inspect")
    /\ \/ /\ IF HasAgentWorkflowMessages THEN Return(r) ELSE RestoreFrom(r, Task)
          /\ failures' = failures
       \/ HasAgentWorkflowMessages /\ RestoreFrom(r, Task) /\ CallFails
    /\ UNCHANGED <<store, outside>>

-----------------------------------------------------------------------------
(* The round.                                                              *)

BeginProcessing(r) ==
    /\ At(r, "begin")
    /\ \/ event' = "processing" /\ failures' = failures
       \/ event' = event /\ CallFails
    /\ Goto(r, "add", Task, 1)
    /\ UNCHANGED <<rows, messages, voiced, outside>>

MutantAddRowBelowLatest(r) ==
    LET t == run[r].table
        i == run[r].i
        row == [parent |-> IF t = Task THEN 0 ELSE Len(rows[t - 1]),
                status |-> IF t = Execution THEN "completed" ELSE "pending"]
    IN
    /\ At(r, "add")
    /\ rows' = [rows EXCEPT ![t] = Append(@, row)]
    /\ run' = [run EXCEPT
                 ![r].made[t] = Append(@, Len(rows[t]) + 1),
                 ![r].pc = IF t # Task THEN "mark"
                           ELSE IF i < NPlans THEN "add" ELSE "say",
                 ![r].i = IF t = Task /\ i < NPlans THEN i + 1 ELSE i]
    /\ UNCHANGED <<event, messages, voiced, outside, failures>>

\* AddTask, AddAction, AddCommand and AddExecution for item i of the plan.
AddRow(r) ==
    LET t == run[r].table
        i == run[r].i
        row == [parent |-> IF t = Task THEN 0 ELSE run[r].made[t - 1][i],
                status |-> IF t = Execution THEN "completed" ELSE "pending"]
    IN
    /\ At(r, "add")
    /\ rows' = [rows EXCEPT ![t] = Append(@, row)]
    /\ run' = [run EXCEPT
                 ![r].made[t] = Append(@, Len(rows[t]) + 1),
                 ![r].pc = IF t # Task THEN "mark"
                           ELSE IF i < NPlans THEN "add" ELSE "say",
                 ![r].i = IF t = Task /\ i < NPlans THEN i + 1 ELSE i]
    /\ UNCHANGED <<event, messages, voiced, outside, failures>>

MutantAddRowFailsGoesOn(r) ==
    /\ At(r, "add") \/ At(r, "summarize")
    /\ CallFails
    /\ IF At(r, "summarize") THEN Goto(r, "say", Summary, 1) ELSE Return(r)
    /\ UNCHANGED <<store, outside>>

\* An insert failed: the error return leaves everything as it is.
AddRowFails(r) ==
    /\ At(r, "add") \/ At(r, "summarize")
    /\ CallFails
    /\ Return(r)
    /\ UNCHANGED <<store, outside>>

\* The insert was done and its reply was lost: the run ends and leaves a row
\* that it does not know of.
AddRowUnseen(r) ==
    LET t == run[r].table IN
    /\ At(r, "add") \/ At(r, "summarize")
    /\ CallFails
    /\ rows' = [rows EXCEPT ![t] = Append(@,
                  [parent |-> IF t \in {Task, Summary} THEN 0 ELSE run[r].made[t - 1][run[r].i],
                   status |-> IF t \in {Execution, Summary} THEN "completed" ELSE "pending"])]
    /\ Return(r)
    /\ UNCHANGED <<event, messages, voiced, outside>>

\* UpdateTask, UpdateAction, UpdateCommand; the error is dropped.
UpdateStatus(t, n, status) ==
    /\ \/ rows' = [rows EXCEPT ![t][n].status = status] /\ failures' = failures
       \/ rows' = rows /\ CallFails
    /\ UNCHANGED <<event, messages, voiced, outside>>

MutantMarkParentEarly(r) ==
    LET t == run[r].table
        i == run[r].i
    IN
    /\ At(r, "mark")
    /\ UpdateStatus(t - 1, run[r].made[t - 1][i],
                    IF t >= Command THEN "completed" ELSE "processing")
    /\ IF i < NPlans THEN Goto(r, "add", t, i + 1)
       ELSE IF t = Execution THEN Goto(r, "close", Action, 1)
       ELSE Goto(r, "say", t, i)

\* The row above the new one moves on; a command is done by its execution.
MarkParent(r) ==
    LET t == run[r].table
        i == run[r].i
    IN
    /\ At(r, "mark")
    /\ UpdateStatus(t - 1, run[r].made[t - 1][i],
                    IF t = Execution THEN "completed" ELSE "processing")
    /\ IF i < NPlans THEN Goto(r, "add", t, i + 1)
       ELSE IF t = Execution THEN Goto(r, "close", Action, 1)
       ELSE Goto(r, "say", t, i)

\* All actions are completed, then all tasks.
Close(r) ==
    LET t == run[r].table
        i == run[r].i
    IN
    /\ At(r, "close")
    /\ UpdateStatus(t, run[r].made[t][i], "completed")
    /\ IF i < NPlans THEN Goto(r, "close", t, i + 1)
       ELSE IF t = Action THEN Goto(r, "close", Task, 1)
       ELSE Goto(r, "say", Execution, i)

\* Where a run goes after the message of stage t.
AfterMessage(r, t) ==
    IF run[r].restoring
      THEN IF t = Summary THEN Return(r) ELSE RestoreFrom(r, t + 1)
      ELSE Goto(r, IF t = Summary THEN "finish"
                   ELSE IF t = Execution THEN "notify" ELSE "add",
                IF t < Execution THEN t + 1 ELSE t, 1)

\* addAgentMessage stores the message; after an error nobody is told.
Say(r) ==
    LET t == run[r].table IN
    /\ At(r, "say")
    /\ \/ /\ messages' = [messages EXCEPT ![t] = @ + 1]
          /\ Goto(r, "tell", t, 1)
          /\ failures' = failures
       \/ /\ messages' \in {messages, [messages EXCEPT ![t] = @ + 1]}
          /\ AfterMessage(r, t)
          /\ CallFails
    /\ UNCHANGED <<event, rows, voiced, outside>>

\* BroadcastMessage, then publish to notifications.frontend.
Tell(r) ==
    LET t == run[r].table IN
    /\ At(r, "tell")
    /\ told' = [told EXCEPT ![t] = @ + 1]
    /\ AfterMessage(r, t)
    /\ UNCHANGED <<store, updates, failures>>

\* One execution_update per execution of the run.
BroadcastExecutions(r) ==
    /\ At(r, "notify")
    /\ updates' = [updates EXCEPT !.execution = @ + NPlans]
    /\ Goto(r, "summarize", Summary, 1)
    /\ UNCHANGED <<store, told, failures>>

AddSummary(r) ==
    /\ At(r, "summarize")
    /\ rows' = [rows EXCEPT ![Summary] =
                  Append(@, [parent |-> 0, status |-> "completed"])]
    /\ Goto(r, "say", Summary, 1)
    /\ UNCHANGED <<event, messages, voiced, outside, failures>>

MutantFinishOnce(r) ==
    /\ At(r, "finish")
    /\ event' = IF updates.status = 0 THEN "round_finished" ELSE event
    /\ Goto(r, "status", Summary, 1)
    /\ UNCHANGED <<rows, messages, voiced, outside, failures>>

FinishRound(r) ==
    /\ At(r, "finish")
    /\ \/ event' = "round_finished" /\ failures' = failures
       \/ event' = event /\ CallFails
    /\ Goto(r, "status", Summary, 1)
    /\ UNCHANGED <<rows, messages, voiced, outside>>

BroadcastStatus(r) ==
    /\ At(r, "status")
    /\ updates' = [updates EXCEPT !.status = @ + 1]
    /\ Return(r)
    /\ UNCHANGED <<store, told, failures>>

-----------------------------------------------------------------------------
\* A message of somebody else that counts as one of a role: the queue worker
\* writes as the executor, and send_message takes any message_from.
PostAsRole ==
    /\ ~voiced
    /\ voiced' = TRUE
    /\ UNCHANGED <<event, rows, messages, outside, run, failures>>

\* The process stops; the rows are in PostgreSQL.
Crash ==
    /\ failures < MaxFailures
    /\ failures' = failures + 1
    /\ run' = [r \in Runners |-> Idle]
    /\ \E r \in Runners : run[r] # Idle
    /\ UNCHANGED <<store, outside>>

Work(r) ==
    \/ ListRows(r) \/ InspectMessages(r) \/ BeginProcessing(r)
    \/ AddRow(r) \/ AddRowFails(r) \/ AddRowUnseen(r) \/ MarkParent(r) \/ Close(r)
    \/ Say(r) \/ Tell(r) \/ BroadcastExecutions(r) \/ AddSummary(r)
    \/ FinishRound(r) \/ BroadcastStatus(r)

Next == (\E r \in Runners : Trigger(r) \/ Work(r)) \/ PostAsRole \/ Crash

Spec == Init /\ [][Next]_vars

\* The run is in a broadcast, which ends when the hub has written to the last
\* browser of the room (module SocketHub); no write has a deadline.
Broadcasting(r) == run[r].pc \in {"tell", "notify", "status"}

\* A run that has started goes on until it returns or a broadcast keeps it.
FairSpec == Spec /\ \A r \in Runners : WF_vars(~Broadcasting(r) /\ Work(r))

-----------------------------------------------------------------------------
(* Properties.                                                             *)

\* The rows, the loop variables and the counters keep their shape, and a
\* run only refers to rows that exist.
TypeOK ==
    /\ event \in {"pending", "processing", "round_finished"}
    /\ rows \in [Tables -> Seq(Rows)]
    /\ messages \in [Tables -> Nat]
    /\ told \in [Tables -> Nat]
    /\ updates \in [{"execution", "status"} -> Nat]
    /\ voiced \in BOOLEAN
    /\ run \in [Runners -> Runs]
    /\ failures \in 0..MaxFailures
    /\ \A r \in Runners, t \in Task..Execution :
          \A n \in DOMAIN run[r].made[t] : run[r].made[t][n] \in DOMAIN rows[t]

Children(t, n) == {c \in DOMAIN rows[t + 1] : rows[t + 1][c].parent = n}

\* A task, action or command shown as completed has an execution under it,
\* whatever else was running, failing or stopping when it was marked.
CompletionIsEarned ==
    \A t \in Task..Command : \A n \in DOMAIN rows[t] :
        rows[t][n].status = "completed" =>
            CASE t = Command -> Children(Command, n) # {}
              [] t = Action -> \E c \in Children(Action, n) : Children(Command, c) # {}
              [] OTHER -> \E a \in Children(Task, n) : \E c \in Children(Action, a) :
                             Children(Command, c) # {}

\* Overlapping runs do not work on each other's rows: a row has at most one
\* row under it, and it belongs to one that exists.
LineageIsTidy ==
    \A t \in Task..Command :
        /\ \A n \in DOMAIN rows[t + 1] : rows[t + 1][n].parent \in DOMAIN rows[t]
        /\ \A m, n \in DOMAIN rows[t + 1] :
              rows[t + 1][m].parent = rows[t + 1][n].parent => m = n

\* The event is shown as finished only with a summary and a whole plan
\* executed, also when another run has put it back to processing in between.
FinishedRoundIsWhole ==
    event = "round_finished" =>
        rows[Summary] # <<>> /\ Len(rows[Execution]) >= NPlans

\* The chat never speaks of tasks, actions, commands, executions or a summary
\* that are not stored, nor is anybody notified of a message that is not.
SpokenIsStored ==
    \A t \in Tables : /\ messages[t] > 0 => rows[t] # <<>>
                      /\ told[t] <= messages[t]

\* However often the event is repeated, a goroutine plans at most once, and
\* speaks for each role at most once: with one request at a time the event
\* gets one round, with overlapping ones no more rounds than goroutines.
OneRoundPerRunner ==
    LET MaxRounds == Cardinality(Runners) IN
    \A t \in Tables :
        /\ Len(rows[t]) <= MaxRounds * (IF t = Summary THEN 1 ELSE NPlans)
        /\ messages[t] <= MaxRounds

\* A round that a stop has interrupted stays open: no later request takes it
\* up, restoring the messages is all that is done for it.
InterruptedStaysOpen ==
    [](/\ event = "processing" /\ rows[Task] # <<>>
       /\ \A r \in Runners : At(r, "idle")
       => [](event = "processing"))

\* Once the process stops no more, a planned round brings the event to
\* round_finished for good, unless a run hangs in a broadcast for ever: of
\* overlapping runs the last one ends it.
RoundFinishes ==
    (failures = MaxFailures /\ \E r \in Runners : At(r, "begin"))
        ~> ([](event = "round_finished") \/ \E r \in Runners : []Broadcasting(r))
=============================================================================
