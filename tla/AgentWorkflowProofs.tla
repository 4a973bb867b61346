------------------------- MODULE AgentWorkflowProofs -------------------------
(***************************************************************************)
(* Theorems about the agent workflow, for any number of goroutines, plans  *)
(* of one to three tasks, and any number of stops and failed store calls:  *)
(* overlapping runs build separate lineages, what is completed was         *)
(* executed, what is said is stored; and, when no store call fails, as     *)
(* many rounds are planned as goroutines run, at most.                     *)
(***************************************************************************)
EXTENDS AgentWorkflow, TLAPS, SequenceTheorems, FiniteSetTheorems

\* The constants of the module, for the arithmetic.
LEMMA Numbers ==
    /\ Task = 1 /\ Action = 2 /\ Command = 3 /\ Execution = 4 /\ Summary = 5
    /\ Tables = 1..5 /\ NPlans \in Nat /\ NPlans >= 1
BY WorkflowAssumption DEF Task, Action, Command, Execution, Summary, Tables

\* Numbers go on.
LEMMA Successor == \A n \in Nat : n + 1 \in Nat
OBVIOUS

\* The next item of the plan.
LEMMA NextPlan == \A n \in 1..NPlans : n < NPlans => n + 1 \in 1..NPlans
BY Numbers

-----------------------------------------------------------------------------
(* What a step does to the rows.                                           *)

\* The rows of the lineage are the same, up to their status.
SameLineage ==
    \A t \in Task..Execution :
        /\ DOMAIN rows'[t] = DOMAIN rows[t]
        /\ \A n \in DOMAIN rows[t] : rows'[t][n].parent = rows[t][n].parent

\* No row goes away or changes its parent.
RowsStay ==
    \A t \in Tables :
        /\ DOMAIN rows[t] \subseteq DOMAIN rows'[t]
        /\ Len(rows[t]) \in Nat /\ Len(rows'[t]) \in Nat
        /\ Len(rows[t]) <= Len(rows'[t])
        /\ rows[t] # <<>> => rows'[t] # <<>>
        /\ \A n \in DOMAIN rows[t] : rows'[t][n].parent = rows[t][n].parent

\* An insert adds one row at the end of one table.
LEMMA RowAppended ==
    ASSUME rows \in [Tables -> Seq(Rows)], NEW t \in Tables, NEW row \in Rows,
           rows' = [rows EXCEPT ![t] = Append(@, row)]
    PROVE  /\ rows' \in [Tables -> Seq(Rows)] /\ RowsStay
           /\ \A u \in Tables \ {t} : rows'[u] = rows[u]
           /\ Len(rows'[t]) = Len(rows[t]) + 1
           /\ DOMAIN rows'[t] = DOMAIN rows[t] \cup {Len(rows[t]) + 1}
           /\ Len(rows[t]) + 1 \notin DOMAIN rows[t]
           /\ \A n \in DOMAIN rows[t] : rows'[t][n] = rows[t][n]
           /\ rows'[t][Len(rows[t]) + 1] = row
           /\ rows'[t] # <<>>
<1> DEFINE q == rows[t]
           a == Append(q, row)
           n == Len(q)
<1>1. /\ q \in Seq(Rows) /\ n \in Nat /\ DOMAIN q = 1..n
      /\ a \in Seq(Rows) /\ Len(a) = n + 1 /\ DOMAIN a = 1..n + 1
      /\ \A i \in 1..n : a[i] = q[i]
      /\ a[n + 1] = row /\ a # <<>>
  BY AppendProperties, LenProperties
<1>2. rows'[t] = a /\ \A u \in Tables \ {t} : rows'[u] = rows[u]
  OBVIOUS
<1> HIDE DEF a
<1>3. rows' \in [Tables -> Seq(Rows)]
  BY <1>1, <1>2
<1>4. 1..n + 1 = 1..n \cup {n + 1} /\ n + 1 \notin 1..n
  BY <1>1
<1>5. RowsStay
  <2> SUFFICES ASSUME NEW u \in Tables
               PROVE  /\ DOMAIN rows[u] \subseteq DOMAIN rows'[u]
                      /\ Len(rows[u]) \in Nat /\ Len(rows'[u]) \in Nat
                      /\ Len(rows[u]) <= Len(rows'[u])
                      /\ rows[u] # <<>> => rows'[u] # <<>>
                      /\ \A k \in DOMAIN rows[u] : rows'[u][k].parent = rows[u][k].parent
    BY DEF RowsStay
  <2>1. CASE u = t
    BY <1>1, <1>2, <1>4, <2>1
  <2>2. CASE u # t
    BY <1>2, <2>2, LenProperties
  <2> QED
    BY <2>1, <2>2
<1> QED
  BY <1>1, <1>2, <1>3, <1>4, <1>5

\* An update, successful or not, changes at most the status of its row.
LEMMA StatusUpdated ==
    ASSUME rows \in [Tables -> Seq(Rows)], NEW t \in Tables,
           NEW n \in DOMAIN rows[t], NEW status \in Statuses,
           UpdateStatus(t, n, status)
    PROVE  /\ rows' \in [Tables -> Seq(Rows)]
           /\ \A u \in Tables :
                 /\ DOMAIN rows'[u] = DOMAIN rows[u]
                 /\ \A k \in DOMAIN rows[u] :
                       /\ rows'[u][k].parent = rows[u][k].parent
                       /\ \/ rows'[u][k].status = rows[u][k].status
                          \/ u = t /\ k = n /\ rows'[u][k].status = status
           /\ SameLineage /\ RowsStay
           /\ UNCHANGED <<event, messages, voiced, told, updates>>
<1> DEFINE q == rows[t]
           a == [q EXCEPT ![n].status = status]
<1>1. /\ q \in Seq(Rows) /\ Len(q) \in Nat /\ DOMAIN q = 1..Len(q)
      /\ \A k \in DOMAIN q : q[k] \in Rows
  BY LenProperties, ElementOfSeq
<1>2. /\ DOMAIN a = DOMAIN q
      /\ \A k \in DOMAIN q \ {n} : a[k] = q[k]
      /\ a[n] = [q[n] EXCEPT !.status = status]
  OBVIOUS
<1>3. a[n] \in Rows /\ a[n].parent = q[n].parent /\ a[n].status = status
  BY <1>1, <1>2 DEF Rows
<1>4. a \in Seq(Rows)
  BY <1>1, <1>2, <1>3, SeqDef
<1>5. rows' = rows \/ (rows'[t] = a /\ \A u \in Tables \ {t} : rows'[u] = rows[u])
  BY DEF UpdateStatus
<1>6. rows' \in [Tables -> Seq(Rows)]
  <2>1. rows' = rows \/ rows' = [rows EXCEPT ![t] = a]
    BY DEF UpdateStatus
  <2> HIDE DEF a
  <2> QED
    BY <1>4, <2>1
<1> HIDE DEF a
<1>7. ASSUME NEW u \in Tables
      PROVE  /\ DOMAIN rows'[u] = DOMAIN rows[u]
             /\ \A k \in DOMAIN rows[u] :
                   /\ rows'[u][k].parent = rows[u][k].parent
                   /\ \/ rows'[u][k].status = rows[u][k].status
                      \/ u = t /\ k = n /\ rows'[u][k].status = status
  <2>1. CASE rows'[u] = rows[u]
    BY <2>1
  <2>2. CASE u = t /\ rows'[t] = a
    BY <1>2, <1>3, <2>2
  <2> QED
    BY <1>5, <2>1, <2>2
<1>8. ASSUME NEW u \in Tables
      PROVE  /\ Len(rows[u]) \in Nat /\ Len(rows'[u]) = Len(rows[u])
             /\ rows[u] # <<>> => rows'[u] # <<>>
  <2>1. /\ rows[u] \in Seq(Rows) /\ rows'[u] \in Seq(Rows)
        /\ DOMAIN rows'[u] = DOMAIN rows[u]
    BY <1>6, <1>7
  <2> QED
    BY <2>1, LenProperties, EmptySeq
<1>9. SameLineage
  BY <1>7, Numbers DEF SameLineage
<1>10. RowsStay
  BY <1>7, <1>8 DEF RowsStay
<1> QED
  BY <1>6, <1>7, <1>9, <1>10 DEF UpdateStatus, outside

\* Nothing happens to the rows.
LEMMA RowsUnchanged ==
    ASSUME rows \in [Tables -> Seq(Rows)], UNCHANGED rows
    PROVE  SameLineage /\ RowsStay
BY LenProperties, Numbers DEF SameLineage, RowsStay

-----------------------------------------------------------------------------
(* What a step does to the runs.                                           *)

NoneMade == [t \in Task..Execution |-> <<>>]

\* Nobody but r moves.
OthersWait(r) == \A s \in Runners \ {r} : run'[s] = run[s]

\* The stages of a run record and what they are made of.
LEMMA RunTyped ==
    ASSUME NEW q \in Runs
    PROVE  /\ q.pc \in Steps /\ q.restoring \in BOOLEAN /\ q.table \in Tables
           /\ q.i \in 1..NPlans /\ q.i \in Nat /\ q.i >= 1 /\ q.i <= NPlans
           /\ q.made \in [Task..Execution -> Seq(Nat)] /\ q.seen \in [Tables -> BOOLEAN]
BY Numbers DEF Runs

\* A run that is not at work has nothing in hand.
LEMMA IdleTyped ==
    /\ Idle \in Runs /\ Idle.pc = "idle" /\ Idle.restoring = FALSE
    /\ Idle.made = NoneMade /\ \A t \in Tables : Idle.seen[t] = FALSE
<1>1. NoneMade \in [Task..Execution -> Seq(Nat)]
  BY DEF NoneMade
<1> QED
  BY <1>1, Numbers DEF Idle, Runs, Steps, NoneMade

\* What going to a step changes of a run, and what it leaves alone.
LEMMA GotoEffect ==
    ASSUME run \in [Runners -> Runs], NEW r \in Runners, NEW step \in Steps,
           NEW t \in Tables, NEW n \in 1..NPlans, Goto(r, step, t, n)
    PROVE  /\ run' \in [Runners -> Runs] /\ OthersWait(r)
           /\ run'[r].pc = step /\ run'[r].table = t /\ run'[r].i = n
           /\ run'[r].restoring = run[r].restoring
           /\ run'[r].made = run[r].made /\ run'[r].seen = run[r].seen
<1> DEFINE q == [run[r] EXCEPT !.pc = step, !.table = t, !.i = n]
<1>1. q \in Runs
  BY DEF Runs
<1>2. run' = [run EXCEPT ![r] = q]
  BY DEF Goto
<1>3. /\ q.pc = step /\ q.table = t /\ q.i = n /\ q.restoring = run[r].restoring
      /\ q.made = run[r].made /\ q.seen = run[r].seen
  BY DEF Runs
<1> HIDE DEF q
<1> QED
  BY <1>1, <1>2, <1>3 DEF OthersWait

\* A run that returns is idle, and the others wait.
LEMMA ReturnEffect ==
    ASSUME run \in [Runners -> Runs], NEW r \in Runners, Return(r)
    PROVE  run' \in [Runners -> Runs] /\ OthersWait(r) /\ run'[r] = Idle
BY IdleTyped DEF Return, OthersWait

\* The first table of a list of tables.
LEMMA FirstTable ==
    ASSUME NEW T \in SUBSET Tables, T # {}
    PROVE  LET u == CHOOSE x \in T : \A y \in T : x <= y
           IN  u \in T /\ \A y \in T : u <= y
<1>1. \E x \in T : \A y \in T : x <= y
  <2>1. \A y \in T : y \in 1..5
    BY Numbers
  <2>2. CASE 1 \in T
    BY <2>1, <2>2
  <2>3. CASE 1 \notin T /\ 2 \in T
    BY <2>1, <2>3
  <2>4. CASE 1 \notin T /\ 2 \notin T /\ 3 \in T
    BY <2>1, <2>4
  <2>5. CASE 1 \notin T /\ 2 \notin T /\ 3 \notin T /\ 4 \in T
    BY <2>1, <2>5
  <2>6. CASE 1 \notin T /\ 2 \notin T /\ 3 \notin T /\ 4 \notin T
    BY <2>1, <2>6
  <2> QED
    BY <2>2, <2>3, <2>4, <2>5, <2>6
<1> QED
  BY <1>1

\* A run that restores goes to the message of a table it has seen, or to
\* the summary.
LEMMA RestoreEffect ==
    ASSUME run \in [Runners -> Runs], NEW r \in Runners, NEW t \in Tables,
           RestoreFrom(r, t)
    PROVE  /\ run' \in [Runners -> Runs] /\ OthersWait(r)
           /\ \/ run'[r] = Idle
              \/ /\ run'[r].restoring = TRUE
                 /\ run'[r].made = run[r].made /\ run'[r].seen = run[r].seen
                 /\ run'[r].table \in t..Summary
                 /\ \/ run'[r].pc = "say" /\ run[r].seen[run'[r].table]
                    \/ /\ run'[r].pc = "summarize" /\ run'[r].table = Summary
                       /\ run[r].seen[Execution] /\ ~run[r].seen[Summary]
<1> DEFINE todo == Restorable(run[r].seen, t)
           u == CHOOSE x \in todo : \A y \in todo : x <= y
           step == IF run[r].seen[u] THEN "say" ELSE "summarize"
           q == [run[r] EXCEPT !.restoring = TRUE, !.table = u, !.pc = step]
<1>1. CASE todo = {}
  BY <1>1, ReturnEffect DEF RestoreFrom
<1>2. CASE todo # {}
  <2>1. todo \in SUBSET Tables
    BY Numbers DEF Restorable
  <2>2. u \in todo
    BY <1>2, <2>1, FirstTable
  <2>3. /\ u \in t..Summary /\ u \in Tables
        /\ run[r].seen[u] \/ (u = Summary /\ run[r].seen[Execution])
    BY <2>1, <2>2 DEF Restorable
  <2>4. run' = [run EXCEPT ![r] = q]
    BY <1>2 DEF RestoreFrom
  <2> HIDE DEF todo, u
  <2>5. q \in Runs
    BY <2>3 DEF Runs, Steps
  <2>6. /\ q.restoring = TRUE /\ q.table = u /\ q.pc = step
        /\ q.made = run[r].made /\ q.seen = run[r].seen
    BY DEF Runs
  <2> HIDE DEF q
  <2>7. /\ run' \in [Runners -> Runs] /\ OthersWait(r) /\ run'[r] = q
    BY <2>4, <2>5 DEF OthersWait
  <2> QED
    BY <2>3, <2>6, <2>7
<1> QED
  BY <1>1, <1>2

\* A list sees only what is there, notes it, and goes on to the next table.
LEMMA ListEffect ==
    ASSUME run \in [Runners -> Runs], NEW r \in Runners, ListRows(r)
    PROVE  /\ run' \in [Runners -> Runs] /\ OthersWait(r)
           /\ run'[r].restoring = run[r].restoring /\ run'[r].made = run[r].made
           /\ run[r].table # Summary => /\ run'[r].pc = "list"
                                        /\ run'[r].table = run[r].table + 1
           /\ run[r].table = Summary =>
                 /\ run'[r].table = Task
                 /\ run'[r].pc = IF run'[r].seen[Task] \/ run'[r].seen[Execution]
                                 THEN "inspect" ELSE "begin"
           /\ \A u \in Tables \ {run[r].table} : run'[r].seen[u] = run[r].seen[u]
           /\ run'[r].seen[run[r].table] => rows[run[r].table] # <<>>
           /\ ~StoreErrors => (run'[r].seen[run[r].table] <=> rows[run[r].table] # <<>>)
<1> DEFINE t == run[r].table
           Next1(found) == [run[r].seen EXCEPT ![t] = found]
           Step1(found) == IF t # Summary THEN "list"
                           ELSE IF Next1(found)[Task] \/ Next1(found)[Execution]
                                THEN "inspect" ELSE "begin"
           Q(found) == [run[r] EXCEPT !.seen = Next1(found),
                                      !.table = IF t = Summary THEN Task ELSE t + 1,
                                      !.pc = Step1(found)]
<1>0. run[r] \in Runs /\ t \in Tables
  BY RunTyped
<1>1. PICK found \in BOOLEAN : /\ run' = [run EXCEPT ![r] = Q(found)]
                               /\ found => rows[t] # <<>>
                               /\ ~StoreErrors => (found <=> rows[t] # <<>>)
  BY DEF ListRows, CallFails
<1>2. Next1(found) \in [Tables -> BOOLEAN]
  BY <1>0, RunTyped
<1>3. (IF t = Summary THEN Task ELSE t + 1) \in Tables
  BY <1>0, Numbers
<1>4. Step1(found) \in Steps
  BY DEF Steps
<1>5. /\ Next1(found)[t] = found
      /\ \A u \in Tables \ {t} : Next1(found)[u] = run[r].seen[u]
  BY <1>0, RunTyped
<1>6. Step1(found) = IF t # Summary THEN "list"
                     ELSE IF Next1(found)[Task] \/ Next1(found)[Execution]
                          THEN "inspect" ELSE "begin"
  OBVIOUS
<1> HIDE DEF Next1, Step1
<1>7. Q(found) \in Runs
  BY <1>0, <1>2, <1>3, <1>4 DEF Runs
<1>8. /\ Q(found).seen = Next1(found) /\ Q(found).pc = Step1(found)
      /\ Q(found).table = IF t = Summary THEN Task ELSE t + 1
      /\ Q(found).made = run[r].made /\ Q(found).restoring = run[r].restoring
  BY <1>0 DEF Runs
<1> HIDE DEF Q
<1>9. /\ run' \in [Runners -> Runs] /\ OthersWait(r) /\ run'[r] = Q(found)
  BY <1>1, <1>7 DEF OthersWait
<1> QED
  BY <1>1, <1>5, <1>6, <1>8, <1>9

\* An insert for the plan is noted at the end of what the run has made.
LEMMA AddEffect ==
    ASSUME run \in [Runners -> Runs], rows \in [Tables -> Seq(Rows)],
           NEW r \in Runners, AddRow(r), run[r].table # Summary
    PROVE  LET t == run[r].table
               i == run[r].i
           IN  /\ run' \in [Runners -> Runs] /\ OthersWait(r)
               /\ run'[r].restoring = run[r].restoring /\ run'[r].seen = run[r].seen
               /\ run'[r].table = t
               /\ run'[r].made[t] = Append(run[r].made[t], Len(rows[t]) + 1)
               /\ \A u \in (Task..Execution) \ {t} : run'[r].made[u] = run[r].made[u]
               /\ t = Task /\ i < NPlans => run'[r].pc = "add" /\ run'[r].i = i + 1
               /\ t = Task /\ i = NPlans => run'[r].pc = "say" /\ run'[r].i = i
               /\ t # Task => run'[r].pc = "mark" /\ run'[r].i = i
<1> DEFINE t == run[r].table
           i == run[r].i
           made == [run[r].made EXCEPT ![t] = Append(@, Len(rows[t]) + 1)]
           step == IF t # Task THEN "mark" ELSE IF i < NPlans THEN "add" ELSE "say"
           j == IF t = Task /\ i < NPlans THEN i + 1 ELSE i
           q == [run[r] EXCEPT !.made = made, !.pc = step, !.i = j]
<1>0. /\ run[r] \in Runs /\ t \in Task..Execution /\ i \in 1..NPlans
      /\ i \in Nat /\ i <= NPlans
      /\ run[r].made \in [Task..Execution -> Seq(Nat)]
  BY RunTyped, Numbers
<1>1. run' = [run EXCEPT ![r] = q]
  BY DEF AddRow
<1>2. Len(rows[t]) \in Nat
  BY <1>0, LenProperties, Numbers
<1>3. /\ made \in [Task..Execution -> Seq(Nat)]
      /\ made[t] = Append(run[r].made[t], Len(rows[t]) + 1)
      /\ \A u \in (Task..Execution) \ {t} : made[u] = run[r].made[u]
  <2>1. Append(run[r].made[t], Len(rows[t]) + 1) \in Seq(Nat)
    <3>1. run[r].made[t] \in Seq(Nat)
      BY <1>0
    <3>2. Len(rows[t]) + 1 \in Nat
      BY <1>2, Successor
    <3> QED
      BY <3>1, <3>2, AppendProperties
  <2> QED
    BY <1>0, <2>1
<1>4. step \in Steps
  BY DEF Steps
<1>5. j \in 1..NPlans
  <2>1. i < NPlans => i + 1 \in 1..NPlans
    BY <1>0, NextPlan
  <2> QED
    BY <1>0, <2>1
<1>6. /\ t = Task /\ i < NPlans => step = "add" /\ j = i + 1
      /\ t = Task /\ i = NPlans => step = "say" /\ j = i
      /\ t # Task => step = "mark" /\ j = i
  BY <1>0
<1> HIDE DEF made, step, j
<1>7. q \in Runs
  BY <1>0, <1>3, <1>4, <1>5 DEF Runs
<1>8. /\ q.made = made /\ q.pc = step /\ q.i = j /\ q.table = t
      /\ q.restoring = run[r].restoring /\ q.seen = run[r].seen
  BY <1>0 DEF Runs
<1> HIDE DEF q
<1>9. run' \in [Runners -> Runs] /\ OthersWait(r) /\ run'[r] = q
  BY <1>1, <1>7 DEF OthersWait
<1> QED
  BY <1>3, <1>6, <1>8, <1>9

-----------------------------------------------------------------------------
(* The stages of a run.                                                    *)

Working == {"add", "mark", "close", "say", "tell", "notify", "summarize",
            "finish", "status"}

\* The run works through a plan of its own.
Begun(q) == q.pc \in Working /\ ~q.restoring

\* The rows of table u that a run in this place has created.
Planned(q, u) ==
    IF ~Begun(q) THEN 0
    ELSE IF q.pc \in {"close", "notify", "summarize", "finish", "status"} \/ u < q.table
         THEN NPlans
    ELSE IF u > q.table THEN 0
    ELSE IF q.pc = "add" THEN q.i - 1
    ELSE IF q.pc = "mark" THEN q.i
    ELSE NPlans

\* Where a run can be.  It has seen, and speaks of, tables with rows only.
Stage(q) ==
    /\ q.restoring => q.pc \in {"say", "tell", "summarize"}
    /\ q.pc = "add" => q.table # Summary
    /\ q.pc = "mark" => q.table \in Action..Execution
    /\ q.pc = "close" => q.table \in Task..Action
    /\ q.pc = "notify" => q.table = Execution
    /\ q.pc \in {"summarize", "finish", "status"} => q.table = Summary
    /\ \A u \in Task..Execution : Len(q.made[u]) = Planned(q, u)
    /\ \A u \in Tables : q.seen[u] => rows[u] # <<>>
    /\ q.pc \in {"say", "tell", "finish", "status"} => rows[q.table] # <<>>

StageInv == \A r \in Runners : Stage(run[r])

\* The created rows of a run stay with it until it returns.
MadeKept == \A r \in Runners : run'[r].made = run[r].made \/ run'[r].made = NoneMade

\* A run that does not move stays where it is, whatever is added.
LEMMA StageWaits ==
    ASSUME NEW r \in Runners, run[r] \in Runs, Stage(run[r]), RowsStay, run'[r] = run[r]
    PROVE  Stage(run[r])'
<1>1. /\ \A u \in Tables : rows[u] # <<>> => rows'[u] # <<>>
      /\ run[r].table \in Tables
  BY RunTyped DEF RowsStay
<1>2. \A u \in Task..Execution : Planned(run[r], u)' = Planned(run[r], u)
  BY DEF Planned, Begun
<1> QED
  BY <1>1, <1>2 DEF Stage

\* One that returns is where it was in the beginning.
LEMMA StageIdle ==
    ASSUME NEW r \in Runners, run'[r] = Idle
    PROVE  Stage(run[r])'
<1>1. \A u \in Task..Execution : Len(NoneMade[u]) = 0
  BY EmptySeq DEF NoneMade
<1>2. \A u \in Task..Execution : Planned(run[r], u)' = 0
  BY IdleTyped DEF Planned, Begun, Working
<1> QED
  BY <1>1, <1>2, IdleTyped DEF Stage

\* The rows that its place requires are those of the run.
LEMMA ItemMade ==
    ASSUME TypeOK, NEW r \in Runners, Stage(run[r]), NEW u \in Task..Execution,
           NEW n \in Nat, 1 <= n, n <= Planned(run[r], u)
    PROVE  /\ n \in DOMAIN run[r].made[u]
           /\ run[r].made[u][n] \in DOMAIN rows[u] /\ run[r].made[u][n] \in Nat
<1>1. run[r].made[u] \in Seq(Nat) /\ Len(run[r].made[u]) = Planned(run[r], u)
  BY RunTyped DEF TypeOK, Stage
<1>2. n \in DOMAIN run[r].made[u]
  BY <1>1, LenProperties
<1> QED
  BY <1>1, <1>2, ElementOfSeq, LenProperties DEF TypeOK

\* Rows that stay keep the rows of a run stored.
LEMMA MadeStored ==
    ASSUME TypeOK, RowsStay, MadeKept
    PROVE  \A r \in Runners, t \in Task..Execution : \A n \in DOMAIN run'[r].made[t] :
               run'[r].made[t][n] \in DOMAIN rows'[t]
<1> SUFFICES ASSUME NEW r \in Runners, NEW t \in Task..Execution,
                    NEW n \in DOMAIN run'[r].made[t]
             PROVE  run'[r].made[t][n] \in DOMAIN rows'[t]
  OBVIOUS
<1>1. CASE run'[r].made = run[r].made
  <2>1. t \in Tables
    BY Numbers
  <2>2. \A m \in DOMAIN run[r].made[t] : run[r].made[t][m] \in DOMAIN rows[t]
    BY DEF TypeOK
  <2> QED
    BY <1>1, <2>1, <2>2 DEF RowsStay
<1>2. CASE run'[r].made = NoneMade
  BY <1>2, EmptySeq DEF NoneMade
<1> QED
  BY <1>1, <1>2 DEF MadeKept

\* What the steps of one runner have to show.
Good(r) ==
    /\ run' \in [Runners -> Runs] /\ OthersWait(r)
    /\ rows' \in [Tables -> Seq(Rows)] /\ RowsStay
    /\ Stage(run[r])'

\* Where a run goes after a message.
LEMMA AfterEffect ==
    ASSUME TypeOK, NEW r \in Runners, Stage(run[r]), run[r].pc \in {"say", "tell"},
           UNCHANGED rows, AfterMessage(r, run[r].table)
    PROVE  Good(r) /\ (run'[r].made = run[r].made \/ run'[r].made = NoneMade)
<1> DEFINE t == run[r].table
<1>0. /\ run \in [Runners -> Runs] /\ run[r] \in Runs /\ t \in Tables
      /\ rows \in [Tables -> Seq(Rows)] /\ rows' = rows /\ RowsStay
  BY RunTyped, RowsUnchanged DEF TypeOK
<1>1. ASSUME Return(r)
      PROVE  Good(r) /\ run'[r].made = NoneMade
  BY <1>0, <1>1, ReturnEffect, StageIdle, IdleTyped DEF Good
<1>2. CASE run[r].restoring
  <2>1. CASE t = Summary
    BY <1>1, <1>2, <2>1 DEF AfterMessage
  <2>2. CASE t # Summary
    <3>1. RestoreFrom(r, t + 1) /\ t + 1 \in Tables
      BY <1>0, <1>2, <2>2, Numbers DEF AfterMessage
    <3>2. \A u \in Task..Execution : Len(run[r].made[u]) = 0
      BY <1>2 DEF Stage, Planned, Begun
    <3>3. CASE run'[r] = Idle
      BY <1>0, <3>1, <3>3, RestoreEffect, StageIdle, IdleTyped DEF Good
    <3>4. CASE run'[r] # Idle
      <4>1. /\ run' \in [Runners -> Runs] /\ OthersWait(r)
            /\ run'[r].restoring = TRUE
            /\ run'[r].made = run[r].made /\ run'[r].seen = run[r].seen
            /\ \/ run'[r].pc = "say" /\ run[r].seen[run'[r].table]
               \/ run'[r].pc = "summarize" /\ run'[r].table = Summary
        BY <1>0, <3>1, <3>4, RestoreEffect
      <4>2. run'[r].table \in Tables
        BY <4>1, RunTyped
      <4>3. Stage(run[r])'
        BY <1>0, <3>2, <4>1, <4>2 DEF Stage, Planned, Begun
      <4> QED
        BY <1>0, <4>1, <4>3 DEF Good
    <3> QED
      BY <3>3, <3>4
  <2> QED
    BY <2>1, <2>2
<1>3. CASE ~run[r].restoring
  <2> DEFINE step == IF t = Summary THEN "finish"
                     ELSE IF t = Execution THEN "notify" ELSE "add"
             u == IF t < Execution THEN t + 1 ELSE t
  <2>1. step \in Steps /\ u \in Tables /\ 1 \in 1..NPlans
    BY <1>0, Numbers DEF Steps
  <2>2. Goto(r, step, u, 1)
    BY <1>3 DEF AfterMessage
  <2>3. /\ run' \in [Runners -> Runs] /\ OthersWait(r)
        /\ run'[r].pc = step /\ run'[r].table = u /\ run'[r].i = 1
        /\ run'[r].restoring = run[r].restoring
        /\ run'[r].made = run[r].made /\ run'[r].seen = run[r].seen
    BY <1>0, <2>1, <2>2, GotoEffect
  <2>4. Begun(run[r]) /\ Begun(run[r])'
    BY <1>3, <2>3 DEF Begun, Working
  <2>5. ASSUME NEW v \in Task..Execution
        PROVE  Planned(run[r], v)' = Planned(run[r], v)
    <3>1. t \in 1..5 /\ v \in 1..4
      BY <1>0, Numbers
    <3>2. Planned(run[r], v) = IF v <= t THEN NPlans ELSE 0
      BY <2>4, <3>1 DEF Planned
    <3>3. Planned(run[r], v)' = IF t \in 4..5 \/ v < t + 1 THEN NPlans ELSE 0
      BY <2>3, <2>4, <3>1, Numbers DEF Planned
    <3> QED
      BY <3>1, <3>2, <3>3
  <2>6. Stage(run[r])'
    BY <1>0, <1>3, <2>3, <2>5, Numbers DEF Stage
  <2> QED
    BY <1>0, <2>3, <2>6 DEF Good
<1> QED
  BY <1>2, <1>3

\* The places of a run that goes on without restoring.
LEMMA StageMoves ==
    ASSUME TypeOK, NEW r \in Runners, Stage(run[r]), run[r].restoring = FALSE,
           NEW step \in Steps, NEW t \in Tables, NEW n \in 1..NPlans,
           Goto(r, step, t, n), rows' \in [Tables -> Seq(Rows)], RowsStay,
           step = "add" => t # Summary,
           step = "mark" => t \in Action..Execution,
           step = "close" => t \in Task..Action,
           step = "notify" => t = Execution,
           step \in {"summarize", "finish", "status"} => t = Summary,
           step \in {"say", "tell", "finish", "status"} => rows'[t] # <<>>,
           \A u \in Task..Execution : Planned(run[r], u)' = Planned(run[r], u)
    PROVE  Good(r) /\ run'[r].made = run[r].made
<1>1. /\ run' \in [Runners -> Runs] /\ OthersWait(r)
      /\ run'[r].pc = step /\ run'[r].table = t /\ run'[r].i = n
      /\ run'[r].restoring = run[r].restoring
      /\ run'[r].made = run[r].made /\ run'[r].seen = run[r].seen
  BY GotoEffect DEF TypeOK
<1>2. \A u \in Tables : rows[u] # <<>> => rows'[u] # <<>>
  BY DEF RowsStay
<1>3. Stage(run[r])'
  BY <1>1, <1>2 DEF Stage
<1> QED
  BY <1>1, <1>3 DEF Good

\* The steps of a round but the inserts: the rows of the plan stay, the run
\* is where it should be.
LEMMA RoundStep ==
    ASSUME TypeOK, NEW r \in Runners, Stage(run[r]),
           \/ BeginProcessing(r) \/ MarkParent(r) \/ Close(r)
           \/ BroadcastExecutions(r) \/ FinishRound(r)
    PROVE  Good(r) /\ run'[r].made = run[r].made
<1> DEFINE t == run[r].table
           i == run[r].i
<1>0. /\ run \in [Runners -> Runs] /\ run[r] \in Runs /\ t \in Tables /\ t \in 1..5
      /\ i \in 1..NPlans /\ i \in Nat /\ i >= 1 /\ i <= NPlans /\ 1 \in 1..NPlans
      /\ rows \in [Tables -> Seq(Rows)]
      /\ run[r].restoring = FALSE
  <2>1. run[r].restoring = FALSE
    BY RunTyped DEF TypeOK, Stage, BeginProcessing, MarkParent, Close,
                    BroadcastExecutions, FinishRound, At
  <2>2. run \in [Runners -> Runs] /\ rows \in [Tables -> Seq(Rows)] /\ run[r] \in Runs
    BY DEF TypeOK
  <2>3. t \in Tables /\ i \in 1..NPlans /\ i \in Nat /\ i >= 1 /\ i <= NPlans
    BY <2>2, RunTyped
  <2> HIDE DEF t, i
  <2>4. t \in 1..5 /\ 1 \in 1..NPlans
    BY <2>3, Numbers
  <2> QED
    BY <2>1, <2>2, <2>3, <2>4 DEF t, i
<1>1. CASE BeginProcessing(r)
  <2>1. Goto(r, "add", Task, 1) /\ rows' = rows /\ At(r, "begin")
    BY <1>1 DEF BeginProcessing
  <2>2. RowsStay /\ Task \in Tables /\ Task # Summary /\ "add" \in Steps
    BY <1>0, <2>1, RowsUnchanged, Numbers DEF Steps
  <2>3. /\ run'[r].pc = "add" /\ run'[r].table = Task /\ run'[r].i = 1
        /\ run'[r].restoring = FALSE
    BY <1>0, <2>1, <2>2, GotoEffect
  <2>4. \A u \in Task..Execution : Planned(run[r], u)' = Planned(run[r], u)
    BY <1>0, <2>1, <2>3, Numbers DEF Planned, Begun, Working, At
  <2> QED
    BY <1>0, <2>1, <2>2, <2>4, StageMoves
<1>2. CASE MarkParent(r)
  <2>1. /\ At(r, "mark") /\ t \in Action..Execution /\ t \in 2..4
        /\ t - 1 \in Tables /\ t - 1 \in Task..Execution
    BY <1>0, <1>2, Numbers DEF MarkParent, Stage, At
  <2>2. Planned(run[r], t - 1) = NPlans
    BY <1>0, <2>1 DEF Planned, Begun, Working, At
  <2>3. run[r].made[t - 1][i] \in DOMAIN rows[t - 1]
    BY <1>0, <2>1, <2>2, ItemMade
  <2>4. rows' \in [Tables -> Seq(Rows)] /\ RowsStay
    <3> DEFINE s == IF t = Execution THEN "completed" ELSE "processing"
    <3>1. s \in Statuses /\ UpdateStatus(t - 1, run[r].made[t - 1][i], s)
      BY <1>2 DEF MarkParent, Statuses
    <3> HIDE DEF s
    <3> QED
      BY <1>0, <2>1, <2>3, <3>1, StatusUpdated
  <2>5. rows[t] # <<>>
    <3>1. Planned(run[r], t) = i /\ t \in Task..Execution
      BY <1>0, <2>1, Numbers DEF Planned, Begun, Working, At
    <3>2. run[r].made[t][i] \in DOMAIN rows[t]
      BY <1>0, <3>1, ItemMade
    <3> QED
      BY <3>2, EmptySeq
  <2>6. rows'[t] # <<>>
    BY <1>0, <2>4, <2>5 DEF RowsStay
  <2>7. /\ "add" \in Steps /\ "close" \in Steps /\ "say" \in Steps
        /\ Action \in Tables /\ Action \in Task..Action
    BY Numbers DEF Steps
  <2>8. CASE i < NPlans
    <3>1. Goto(r, "add", t, i + 1) /\ i + 1 \in 1..NPlans /\ t # Summary
      BY <1>0, <1>2, <2>1, <2>8, NextPlan, Numbers DEF MarkParent
    <3>2. /\ run'[r].pc = "add" /\ run'[r].table = t /\ run'[r].i = i + 1
          /\ run'[r].restoring = FALSE
      BY <1>0, <2>7, <3>1, GotoEffect
    <3>3. \A u \in Task..Execution : Planned(run[r], u)' = Planned(run[r], u)
      BY <1>0, <2>1, <3>2 DEF Planned, Begun, Working, At
    <3> QED
      BY <1>0, <2>4, <2>7, <3>1, <3>3, StageMoves
  <2>9. CASE ~(i < NPlans) /\ t = Execution
    <3>1. Goto(r, "close", Action, 1)
      BY <1>2, <2>9 DEF MarkParent
    <3>2. /\ run'[r].pc = "close" /\ run'[r].table = Action /\ run'[r].restoring = FALSE
      BY <1>0, <2>7, <3>1, GotoEffect
    <3>3. i = NPlans
      BY <1>0, <2>9, Numbers
    <3>4. \A u \in Task..Execution : Planned(run[r], u)' = Planned(run[r], u)
      BY <1>0, <2>1, <2>9, <3>2, <3>3, Numbers DEF Planned, Begun, Working, At
    <3> QED
      BY <1>0, <2>4, <2>7, <3>1, <3>4, StageMoves
  <2>10. CASE ~(i < NPlans) /\ t # Execution
    <3>1. Goto(r, "say", t, i)
      BY <1>2, <2>10 DEF MarkParent
    <3>2. /\ run'[r].pc = "say" /\ run'[r].table = t /\ run'[r].restoring = FALSE
      BY <1>0, <2>7, <3>1, GotoEffect
    <3>3. i = NPlans
      BY <1>0, <2>10, Numbers
    <3>4. \A u \in Task..Execution : Planned(run[r], u)' = Planned(run[r], u)
      BY <1>0, <2>1, <3>2, <3>3, Numbers DEF Planned, Begun, Working, At
    <3> QED
      BY <1>0, <2>4, <2>6, <2>7, <3>1, <3>4, StageMoves
  <2> QED
    BY <2>8, <2>9, <2>10
<1>3. CASE Close(r)
  <2>1. At(r, "close") /\ t \in Task..Action /\ t \in 1..2 /\ t \in Task..Execution
    BY <1>0, <1>3, Numbers DEF Close, Stage, At
  <2>2. \A u \in Task..Execution : Planned(run[r], u) = NPlans
    BY <1>0, <2>1 DEF Planned, Begun, Working, At
  <2>3. run[r].made[t][i] \in DOMAIN rows[t]
    BY <1>0, <2>1, <2>2, ItemMade
  <2>4. rows' \in [Tables -> Seq(Rows)] /\ RowsStay
    <3>1. UpdateStatus(t, run[r].made[t][i], "completed") /\ "completed" \in Statuses
      BY <1>3 DEF Close, Statuses
    <3> QED
      BY <1>0, <2>3, <3>1, StatusUpdated
  <2>5. rows'[Execution] # <<>>
    <3>1. Execution \in Task..Execution /\ Execution \in Tables
      BY Numbers
    <3>2. run[r].made[Execution][i] \in DOMAIN rows[Execution]
      BY <1>0, <2>2, <3>1, ItemMade
    <3> QED
      BY <2>4, <3>1, <3>2, EmptySeq DEF RowsStay
  <2>6. /\ "close" \in Steps /\ "say" \in Steps /\ Execution \in Tables
        /\ Task \in Tables /\ Task \in Task..Action
    BY Numbers DEF Steps
  <2>7. CASE i < NPlans
    <3>1. Goto(r, "close", t, i + 1) /\ i + 1 \in 1..NPlans
      BY <1>0, <1>3, <2>7, NextPlan DEF Close
    <3>2. run'[r].pc = "close" /\ run'[r].restoring = FALSE
      BY <1>0, <2>6, <3>1, GotoEffect
    <3>3. \A u \in Task..Execution : Planned(run[r], u)' = Planned(run[r], u)
      BY <2>2, <3>2 DEF Planned, Begun, Working
    <3> QED
      BY <1>0, <2>1, <2>4, <2>6, <3>1, <3>3, StageMoves
  <2>8. CASE ~(i < NPlans) /\ t = Action
    <3>1. Goto(r, "close", Task, 1)
      BY <1>3, <2>8 DEF Close
    <3>2. run'[r].pc = "close" /\ run'[r].restoring = FALSE
      BY <1>0, <2>6, <3>1, GotoEffect
    <3>3. \A u \in Task..Execution : Planned(run[r], u)' = Planned(run[r], u)
      BY <2>2, <3>2 DEF Planned, Begun, Working
    <3> QED
      BY <1>0, <2>4, <2>6, <3>1, <3>3, StageMoves
  <2>9. CASE ~(i < NPlans) /\ t # Action
    <3>1. Goto(r, "say", Execution, i)
      BY <1>3, <2>9 DEF Close
    <3>2. run'[r].pc = "say" /\ run'[r].table = Execution /\ run'[r].restoring = FALSE
      BY <1>0, <2>6, <3>1, GotoEffect
    <3>3. \A u \in Task..Execution : Planned(run[r], u)' = Planned(run[r], u)
      BY <2>2, <3>2, Numbers DEF Planned, Begun, Working
    <3> QED
      BY <1>0, <2>4, <2>5, <2>6, <3>1, <3>3, StageMoves
  <2> QED
    BY <2>7, <2>8, <2>9
<1>4. CASE BroadcastExecutions(r)
  <2>1. /\ Goto(r, "summarize", Summary, 1) /\ rows' = rows /\ At(r, "notify")
        /\ RowsStay /\ Summary \in Tables /\ "summarize" \in Steps
    BY <1>0, <1>4, RowsUnchanged, Numbers DEF BroadcastExecutions, store, Steps
  <2>2. run'[r].pc = "summarize" /\ run'[r].restoring = FALSE
    BY <1>0, <2>1, GotoEffect
  <2>3. \A u \in Task..Execution : Planned(run[r], u)' = Planned(run[r], u)
    BY <1>0, <2>1, <2>2 DEF Planned, Begun, Working, At
  <2> QED
    BY <1>0, <2>1, <2>3, StageMoves
<1>5. CASE FinishRound(r)
  <2>1. /\ Goto(r, "status", Summary, 1) /\ rows' = rows /\ At(r, "finish")
        /\ RowsStay /\ Summary \in Tables /\ "status" \in Steps
    BY <1>0, <1>5, RowsUnchanged, Numbers DEF FinishRound, Steps
  <2>2. run'[r].pc = "status" /\ run'[r].restoring = FALSE
    BY <1>0, <2>1, GotoEffect
  <2>3. rows[Summary] # <<>>
    BY <2>1 DEF Stage, At
  <2>4. \A u \in Task..Execution : Planned(run[r], u)' = Planned(run[r], u)
    BY <1>0, <2>1, <2>2 DEF Planned, Begun, Working, At
  <2> QED
    BY <1>0, <2>1, <2>3, <2>4, StageMoves
<1> QED
  BY <1>1, <1>2, <1>3, <1>4, <1>5

\* The steps before a round, and the one after it: no rows of the run.
LEMMA LookingStep ==
    ASSUME TypeOK, NEW r \in Runners, Stage(run[r]),
           \/ Trigger(r) \/ ListRows(r) \/ InspectMessages(r)
           \/ AddRowFails(r) \/ BroadcastStatus(r)
    PROVE  Good(r) /\ (run'[r].made = run[r].made \/ run'[r].made = NoneMade)
<1>0. /\ run \in [Runners -> Runs] /\ run[r] \in Runs
      /\ rows \in [Tables -> Seq(Rows)] /\ 1 \in 1..NPlans
      /\ Task \in Tables /\ Execution \in Tables
  BY Numbers DEF TypeOK
<1>1. rows' = rows /\ RowsStay
  BY <1>0, RowsUnchanged
     DEF Trigger, ListRows, InspectMessages, AddRowFails, BroadcastStatus, store
<1>2. ASSUME Return(r)
      PROVE  Good(r) /\ run'[r].made = NoneMade
  BY <1>0, <1>1, <1>2, ReturnEffect, StageIdle, IdleTyped DEF Good
<1>3. CASE Trigger(r)
  <2>1. Goto(r, "list", Task, 1) /\ At(r, "idle") /\ "list" \in Steps
    BY <1>3 DEF Trigger, Steps
  <2>2. run[r].restoring = FALSE
    BY <1>0, <2>1, RunTyped DEF Stage, At
  <2>3. run'[r].pc = "list" /\ run'[r].restoring = FALSE
    BY <1>0, <2>1, <2>2, GotoEffect
  <2>4. \A u \in Task..Execution : Planned(run[r], u)' = Planned(run[r], u)
    BY <2>1, <2>3 DEF Planned, Begun, Working, At
  <2> QED
    BY <1>0, <1>1, <2>1, <2>2, <2>4, StageMoves
<1>4. CASE ListRows(r)
  <2>1. /\ run' \in [Runners -> Runs] /\ OthersWait(r)
        /\ run'[r].restoring = run[r].restoring /\ run'[r].made = run[r].made
        /\ run'[r].pc \in {"list", "inspect", "begin"}
    BY <1>0, <1>4, ListEffect
  <2>2. /\ \A u \in Tables \ {run[r].table} : run'[r].seen[u] = run[r].seen[u]
        /\ run'[r].seen[run[r].table] => rows[run[r].table] # <<>>
    BY <1>0, <1>4, ListEffect
  <2>3. \A u \in Tables : run'[r].seen[u] => rows[u] # <<>>
    BY <2>2 DEF Stage
  <2>4. run[r].pc = "list" /\ run[r].restoring = FALSE
    BY <1>0, <1>4, RunTyped DEF ListRows, At, Stage
  <2>5. Stage(run[r])'
    BY <1>1, <2>1, <2>3, <2>4 DEF Stage, Planned, Begun, Working
  <2> QED
    BY <1>0, <1>1, <2>1, <2>5 DEF Good
<1>5. CASE InspectMessages(r)
  <2>1. Return(r) \/ RestoreFrom(r, Task)
    BY <1>5 DEF InspectMessages
  <2>2. CASE RestoreFrom(r, Task) /\ run'[r] # Idle
    <3>1. /\ run' \in [Runners -> Runs] /\ OthersWait(r)
          /\ run'[r].restoring = TRUE
          /\ run'[r].made = run[r].made /\ run'[r].seen = run[r].seen
          /\ \/ run'[r].pc = "say" /\ run[r].seen[run'[r].table]
             \/ run'[r].pc = "summarize" /\ run'[r].table = Summary
      BY <1>0, <2>2, RestoreEffect
    <3>2. run'[r].table \in Tables
      BY <3>1, RunTyped
    <3>3. \A u \in Task..Execution : Len(run[r].made[u]) = 0
      BY <1>5 DEF InspectMessages, At, Stage, Planned, Begun, Working
    <3>4. Stage(run[r])'
      BY <1>1, <3>1, <3>2, <3>3 DEF Stage, Planned, Begun
    <3> QED
      BY <1>0, <1>1, <3>1, <3>4 DEF Good
  <2>3. CASE RestoreFrom(r, Task) /\ run'[r] = Idle
    BY <1>0, <1>1, <2>3, RestoreEffect, StageIdle, IdleTyped DEF Good
  <2> QED
    BY <1>2, <2>1, <2>2, <2>3
<1>6. CASE AddRowFails(r) \/ BroadcastStatus(r)
  BY <1>2, <1>6 DEF AddRowFails, BroadcastStatus
<1> QED
  BY <1>3, <1>4, <1>5, <1>6

\* The messages of a run and its summary.
LEMMA SpeakingStep ==
    ASSUME TypeOK, NEW r \in Runners, Stage(run[r]),
           Say(r) \/ Tell(r) \/ AddSummary(r)
    PROVE  Good(r) /\ (run'[r].made = run[r].made \/ run'[r].made = NoneMade)
<1> DEFINE t == run[r].table
<1>0. /\ run \in [Runners -> Runs] /\ run[r] \in Runs /\ t \in Tables
      /\ rows \in [Tables -> Seq(Rows)] /\ 1 \in 1..NPlans
      /\ Summary \in Tables
  <2>1. run \in [Runners -> Runs] /\ run[r] \in Runs /\ rows \in [Tables -> Seq(Rows)]
    BY DEF TypeOK
  <2>2. 1 \in 1..NPlans /\ Summary \in Tables
    BY Numbers
  <2> QED
    BY <2>1, <2>2, RunTyped
<1>1. ASSUME AfterMessage(r, t), Say(r) \/ Tell(r)
      PROVE  Good(r) /\ (run'[r].made = run[r].made \/ run'[r].made = NoneMade)
  <2>1. run[r].pc \in {"say", "tell"} /\ UNCHANGED rows
    BY <1>1 DEF Say, Tell, At, store
  <2> QED
    BY <1>1, <2>1, AfterEffect
<1>2. CASE Say(r) /\ Goto(r, "tell", t, 1)
  <2>1. At(r, "say") /\ rows' = rows /\ "tell" \in Steps /\ RowsStay /\ rows[t] # <<>>
    BY <1>0, <1>2, RowsUnchanged DEF Say, Steps, Stage, At
  <2>2. /\ run' \in [Runners -> Runs] /\ OthersWait(r)
        /\ run'[r].pc = "tell" /\ run'[r].table = t
        /\ run'[r].restoring = run[r].restoring
        /\ run'[r].made = run[r].made /\ run'[r].seen = run[r].seen
    BY <1>0, <1>2, <2>1, GotoEffect
  <2>3. \A u \in Task..Execution : Planned(run[r], u)' = Planned(run[r], u)
    BY <2>1, <2>2 DEF Planned, Begun, Working, At
  <2>4. Stage(run[r])'
    BY <2>1, <2>2, <2>3 DEF Stage
  <2> QED
    BY <1>0, <2>1, <2>2, <2>4 DEF Good
<1>3. CASE AddSummary(r)
  <2> DEFINE row == [parent |-> 0, status |-> "completed"]
  <2>1. /\ At(r, "summarize") /\ Goto(r, "say", Summary, 1) /\ "say" \in Steps
        /\ rows' = [rows EXCEPT ![Summary] = Append(@, row)]
        /\ row \in Rows /\ t = Summary
    BY <1>3 DEF AddSummary, Rows, Statuses, Steps, Stage, At
  <2> HIDE DEF row
  <2>2. rows' \in [Tables -> Seq(Rows)] /\ RowsStay /\ rows'[Summary] # <<>>
    BY <1>0, <2>1, RowAppended
  <2>3. /\ run' \in [Runners -> Runs] /\ OthersWait(r)
        /\ run'[r].pc = "say" /\ run'[r].table = Summary
        /\ run'[r].restoring = run[r].restoring
        /\ run'[r].made = run[r].made /\ run'[r].seen = run[r].seen
    BY <1>0, <2>1, GotoEffect
  <2>4. \A u \in Task..Execution : Planned(run[r], u)' = Planned(run[r], u)
    BY <2>1, <2>3, Numbers DEF Planned, Begun, Working, At
  <2>5. Stage(run[r])'
    BY <2>2, <2>3, <2>4, Numbers DEF Stage, RowsStay
  <2> QED
    BY <2>2, <2>3, <2>5 DEF Good
<1>4. Say(r) => AfterMessage(r, t) \/ Goto(r, "tell", t, 1)
  BY DEF Say
<1>5. Tell(r) => AfterMessage(r, t)
  BY DEF Tell
<1> QED
  BY <1>1, <1>2, <1>3, <1>4, <1>5

\* An insert for the plan: one row more, for the table and in the run.
LEMMA AddRowStep ==
    ASSUME TypeOK, NEW r \in Runners, Stage(run[r]), AddRow(r)
    PROVE  LET t == run[r].table
               row == rows'[t][Len(rows[t]) + 1]
           IN  /\ Good(r) /\ t \in Task..Execution /\ run[r].restoring = FALSE
               /\ Len(run[r].made[t]) = run[r].i - 1
               /\ \A u \in Tables \ {t} : rows'[u] = rows[u]
               /\ Len(rows'[t]) = Len(rows[t]) + 1
               /\ DOMAIN rows'[t] = DOMAIN rows[t] \cup {Len(rows[t]) + 1}
               /\ Len(rows[t]) + 1 \notin DOMAIN rows[t]
               /\ \A n \in DOMAIN rows[t] : rows'[t][n] = rows[t][n]
               /\ row.status = "completed" => t = Execution
               /\ t # Task => /\ row.parent = run[r].made[t - 1][run[r].i]
                              /\ row.parent \in DOMAIN rows[t - 1]
                              /\ run[r].i \in DOMAIN run[r].made[t - 1]
               /\ run'[r].made[t] = Append(run[r].made[t], Len(rows[t]) + 1)
               /\ \A u \in (Task..Execution) \ {t} : run'[r].made[u] = run[r].made[u]
<1> DEFINE t == run[r].table
           i == run[r].i
           row == [parent |-> IF t = Task THEN 0 ELSE run[r].made[t - 1][i],
                   status |-> IF t = Execution THEN "completed" ELSE "pending"]
<1>1. /\ run \in [Runners -> Runs] /\ run[r] \in Runs /\ t \in Tables
      /\ rows \in [Tables -> Seq(Rows)]
      /\ i \in 1..NPlans /\ i \in Nat /\ 1 <= i /\ i <= NPlans
  BY RunTyped DEF TypeOK
<1>2. /\ run[r].pc = "add" /\ t # Summary /\ run[r].restoring = FALSE
  BY <1>1, RunTyped DEF AddRow, At, Stage
<1>3. t \in Task..Execution /\ t \in 1..4
  BY <1>1, <1>2, Numbers
<1>4. \A u \in Task..Execution : Len(run[r].made[u]) = Planned(run[r], u)
  BY DEF Stage
<1>5. \A u \in Task..Execution :
          Planned(run[r], u) = IF u < t THEN NPlans ELSE IF u = t THEN i - 1 ELSE 0
  BY <1>2, <1>3, Numbers DEF Planned, Begun, Working
<1>6. ASSUME t # Task
      PROVE  /\ i \in DOMAIN run[r].made[t - 1] /\ run[r].made[t - 1][i] \in Nat
             /\ run[r].made[t - 1][i] \in DOMAIN rows[t - 1]
  <2>1. t - 1 \in Task..Execution /\ Planned(run[r], t - 1) = NPlans
    BY <1>3, <1>5, <1>6, Numbers
  <2> HIDE DEF t, i
  <2> DEFINE u == t - 1
  <2>2. u \in Task..Execution /\ i <= Planned(run[r], u)
    BY <1>1, <2>1
  <2> HIDE DEF u
  <2>3. /\ i \in DOMAIN run[r].made[u] /\ run[r].made[u][i] \in Nat
        /\ run[r].made[u][i] \in DOMAIN rows[u]
    BY <1>1, <2>2, ItemMade
  <2> QED
    BY <2>3 DEF u
<1>7. row \in Rows
  BY <1>6 DEF Rows, Statuses
<1>8. /\ t # Task => row.parent = run[r].made[t - 1][i]
      /\ row.status = "completed" => t = Execution
  OBVIOUS
<1>9. rows' = [rows EXCEPT ![t] = Append(@, row)]
  BY DEF AddRow
<1> HIDE DEF row
<1>10. /\ rows' \in [Tables -> Seq(Rows)] /\ RowsStay
       /\ \A u \in Tables \ {t} : rows'[u] = rows[u]
       /\ Len(rows'[t]) = Len(rows[t]) + 1
       /\ DOMAIN rows'[t] = DOMAIN rows[t] \cup {Len(rows[t]) + 1}
       /\ Len(rows[t]) + 1 \notin DOMAIN rows[t]
       /\ \A n \in DOMAIN rows[t] : rows'[t][n] = rows[t][n]
       /\ rows'[t][Len(rows[t]) + 1] = row
       /\ rows'[t] # <<>>
  BY <1>1, <1>7, <1>9, RowAppended
<1>11. /\ run' \in [Runners -> Runs] /\ OthersWait(r)
       /\ run'[r].restoring = FALSE /\ run'[r].seen = run[r].seen
       /\ run'[r].table = t
       /\ run'[r].made[t] = Append(run[r].made[t], Len(rows[t]) + 1)
       /\ \A u \in (Task..Execution) \ {t} : run'[r].made[u] = run[r].made[u]
       /\ t = Task /\ i < NPlans => run'[r].pc = "add" /\ run'[r].i = i + 1
       /\ t = Task /\ i = NPlans => run'[r].pc = "say" /\ run'[r].i = i
       /\ t # Task => run'[r].pc = "mark" /\ run'[r].i = i
  BY <1>1, <1>2, AddEffect
<1>12. Len(run'[r].made[t]) = i
  <2> DEFINE q == run[r].made[t]
             x == Len(rows[t]) + 1
  <2>1. q \in Seq(Nat) /\ Len(rows[t]) \in Nat
    BY <1>1, <1>3, RunTyped, LenProperties
  <2>2. x \in Nat
    BY <2>1, Successor
  <2>3. Len(q) = i - 1
    BY <1>3, <1>4, <1>5, Numbers
  <2> HIDE DEF q, x
  <2>4. Len(Append(q, x)) = Len(q) + 1
    BY <2>1, <2>2, AppendProperties
  <2> QED
    BY <1>1, <1>11, <2>3, <2>4 DEF q, x
<1>13. ASSUME NEW u \in Task..Execution
       PROVE  Len(run'[r].made[u]) = Planned(run[r], u)'
  <2>1. Planned(run[r], u)' = IF u < t THEN NPlans ELSE IF u = t THEN i ELSE 0
    <3>0. t \in 1..4 /\ u \in 1..4 /\ (i + 1) - 1 = i
      BY <1>1, <1>3, Numbers
    <3>1. CASE t = Task /\ i < NPlans
      <4>1. /\ run'[r].pc = "add" /\ run'[r].i - 1 = i /\ run'[r].table = t
            /\ run'[r].restoring = FALSE
        BY <1>11, <3>0, <3>1
      <4> QED
        BY <3>0, <4>1 DEF Planned, Begun, Working
    <3>2. CASE t = Task /\ i = NPlans
      BY <1>1, <1>3, <1>11, <3>2, Numbers DEF Planned, Begun, Working
    <3>3. CASE t # Task
      <4>1. /\ run'[r].pc = "mark" /\ run'[r].i = i /\ run'[r].table = t
            /\ run'[r].restoring = FALSE
        BY <1>11, <3>3
      <4> QED
        BY <3>0, <4>1 DEF Planned, Begun, Working
    <3> QED
      BY <1>1, <3>1, <3>2, <3>3, Numbers
  <2>2. u # t => Len(run'[r].made[u]) = Planned(run[r], u)
    BY <1>4, <1>11
  <2> QED
    BY <1>3, <1>5, <1>12, <2>1, <2>2, Numbers
<1>14. run'[r].pc = "add" \/ run'[r].pc = "say" \/ (run'[r].pc = "mark" /\ t # Task)
  BY <1>1, <1>11, Numbers
<1>15. Stage(run[r])'
  <2>1. \A u \in Tables : run'[r].seen[u] => rows'[u] # <<>>
    BY <1>10, <1>11 DEF Stage, RowsStay
  <2>2. t # Task => t \in Action..Execution
    BY <1>3, Numbers
  <2> QED
    BY <1>2, <1>3, <1>10, <1>11, <1>13, <1>14, <2>1, <2>2 DEF Stage
<1>16. Len(run[r].made[t]) = i - 1
  BY <1>3, <1>4, <1>5, Numbers
<1> QED
  BY <1>2, <1>3, <1>6, <1>8, <1>10, <1>11, <1>15, <1>16 DEF Good

\* An insert whose reply was lost: the row is there, the run has returned.
LEMMA UnseenStep ==
    ASSUME TypeOK, NEW r \in Runners, Stage(run[r]), AddRowUnseen(r)
    PROVE  LET t == run[r].table
               row == rows'[t][Len(rows[t]) + 1]
           IN  /\ Good(r) /\ t \in Tables /\ run'[r].made = NoneMade
               /\ \A u \in Tables \ {t} : rows'[u] = rows[u]
               /\ DOMAIN rows'[t] = DOMAIN rows[t] \cup {Len(rows[t]) + 1}
               /\ \A n \in DOMAIN rows[t] : rows'[t][n] = rows[t][n]
               /\ row.status = "completed" => t = Execution \/ t = Summary
               /\ t \in Action..Execution =>
                      /\ row.parent = run[r].made[t - 1][run[r].i]
                      /\ row.parent \in DOMAIN rows[t - 1]
                      /\ run[r].i \in DOMAIN run[r].made[t - 1]
                      /\ run[r].i \notin DOMAIN run[r].made[t]
<1> DEFINE t == run[r].table
           i == run[r].i
           row == [parent |-> IF t \in {Task, Summary} THEN 0 ELSE run[r].made[t - 1][i],
                   status |-> IF t \in {Execution, Summary} THEN "completed" ELSE "pending"]
<1>1. /\ run \in [Runners -> Runs] /\ run[r] \in Runs /\ t \in Tables
      /\ rows \in [Tables -> Seq(Rows)]
      /\ i \in 1..NPlans /\ i \in Nat /\ 1 <= i /\ i <= NPlans
  BY RunTyped DEF TypeOK
<1>2. /\ rows' = [rows EXCEPT ![t] = Append(@, row)] /\ Return(r)
      /\ At(r, "add") \/ At(r, "summarize")
  BY DEF AddRowUnseen
<1>3. ASSUME t \in Action..Execution
      PROVE  /\ i \in DOMAIN run[r].made[t - 1] /\ run[r].made[t - 1][i] \in Nat
             /\ run[r].made[t - 1][i] \in DOMAIN rows[t - 1]
             /\ i \notin DOMAIN run[r].made[t]
  <2>1. t # Summary /\ t \in 2..4 /\ t \in Task..Execution
    BY <1>3, Numbers
  <2>2. run[r].pc = "add" /\ run[r].restoring = FALSE
    BY <1>1, <1>2, <2>1, RunTyped DEF At, Stage
  <2>3. \A u \in Task..Execution :
            Planned(run[r], u) = IF u < t THEN NPlans ELSE IF u = t THEN i - 1 ELSE 0
    BY <2>1, <2>2, Numbers DEF Planned, Begun, Working
  <2>4. run[r].made[t] \in Seq(Nat) /\ Len(run[r].made[t]) = i - 1
    <3>1. Planned(run[r], t) = i - 1
      BY <2>1, <2>3
    <3> QED
      BY <1>1, <2>1, <3>1, RunTyped DEF Stage
  <2>5. i \notin DOMAIN run[r].made[t]
    <3>1. DOMAIN run[r].made[t] = 1..i - 1
      BY <2>4, LenProperties
    <3> QED
      BY <1>1, <3>1
  <2>6. t - 1 \in Task..Execution /\ Planned(run[r], t - 1) = NPlans
    BY <2>1, <2>3, Numbers
  <2> HIDE DEF t, i
  <2> DEFINE u == t - 1
  <2>7. u \in Task..Execution /\ i <= Planned(run[r], u)
    BY <1>1, <2>6
  <2> HIDE DEF u
  <2>8. /\ i \in DOMAIN run[r].made[u] /\ run[r].made[u][i] \in Nat
        /\ run[r].made[u][i] \in DOMAIN rows[u]
    BY <1>1, <2>7, ItemMade
  <2> QED
    BY <2>5, <2>8 DEF u
<1>4. t \in {Task, Summary} \/ t \in Action..Execution
  <2>1. t \in Tables
    BY <1>1
  <2> HIDE DEF t
  <2> QED
    BY <2>1, Numbers
<1>5. row \in Rows
  <2>1. row.parent \in Nat
    BY <1>3, <1>4
  <2> QED
    BY <2>1 DEF Rows, Statuses
<1>6. /\ row.status = "completed" => t = Execution \/ t = Summary
      /\ t \in Action..Execution => row.parent = run[r].made[t - 1][i]
  <2>1. t \in Action..Execution => t \notin {Task, Summary}
    BY Numbers
  <2> QED
    BY <2>1
<1> HIDE DEF row
<1>7. /\ rows' \in [Tables -> Seq(Rows)] /\ RowsStay
      /\ \A u \in Tables \ {t} : rows'[u] = rows[u]
      /\ DOMAIN rows'[t] = DOMAIN rows[t] \cup {Len(rows[t]) + 1}
      /\ \A n \in DOMAIN rows[t] : rows'[t][n] = rows[t][n]
      /\ rows'[t][Len(rows[t]) + 1] = row
  BY <1>1, <1>2, <1>5, RowAppended
<1>8. Good(r) /\ run'[r].made = NoneMade
  BY <1>1, <1>2, <1>7, ReturnEffect, StageIdle, IdleTyped DEF Good
<1> QED
  BY <1>1, <1>3, <1>6, <1>7, <1>8

-----------------------------------------------------------------------------
(* Type correctness, and every run at its stage.                           *)

\* Every step of a runner.
LEMMA RunnerStep ==
    ASSUME TypeOK, StageInv, NEW r \in Runners, Trigger(r) \/ Work(r)
    PROVE  /\ Good(r) /\ \A s \in Runners : Stage(run[s])'
           /\ ~AddRow(r) => MadeKept
<1>1. Stage(run[r])
  BY DEF StageInv
<1>2. Good(r) /\ (~AddRow(r) => run'[r].made = run[r].made \/ run'[r].made = NoneMade)
  <2>1. CASE AddRowUnseen(r)
    BY <1>1, <2>1, UnseenStep
  <2>2. CASE ~AddRowUnseen(r)
    BY <1>1, <2>2, RoundStep, LookingStep, SpeakingStep, AddRowStep DEF Work
  <2> QED
    BY <2>1, <2>2
<1>3. ASSUME NEW s \in Runners, s # r
      PROVE  Stage(run[s])' /\ run'[s].made = run[s].made
  <2>1. run'[s] = run[s] /\ run[s] \in Runs /\ Stage(run[s]) /\ RowsStay
    BY <1>2, <1>3 DEF Good, OthersWait, TypeOK, StageInv
  <2> QED
    BY <2>1, StageWaits
<1> QED
  BY <1>2, <1>3 DEF Good, MadeKept

\* The rows that the runs have created are stored, also the new one.
LEMMA AddStored ==
    ASSUME TypeOK, StageInv, NEW r \in Runners, AddRow(r),
           NEW s \in Runners, NEW u \in Task..Execution, NEW n \in DOMAIN run'[s].made[u]
    PROVE  /\ run'[s].made[u][n] \in DOMAIN rows'[u]
           /\ \/ /\ n \in DOMAIN run[s].made[u]
                 /\ run'[s].made[u][n] = run[s].made[u][n]
              \/ /\ s = r /\ u = run[r].table /\ n = run[r].i
                 /\ run'[s].made[u][n] = Len(rows[u]) + 1
<1> DEFINE t == run[r].table
<1>0. Stage(run[r])
  BY DEF StageInv
<1>1. /\ Good(r) /\ t \in Task..Execution /\ Len(run[r].made[t]) = run[r].i - 1
      /\ DOMAIN rows'[t] = DOMAIN rows[t] \cup {Len(rows[t]) + 1}
      /\ run'[r].made[t] = Append(run[r].made[t], Len(rows[t]) + 1)
      /\ \A v \in (Task..Execution) \ {t} : run'[r].made[v] = run[r].made[v]
  BY <1>0, AddRowStep
<1>2. CASE s # r \/ u # t
  <2>1. run'[s].made[u] = run[s].made[u]
    BY <1>1, <1>2 DEF Good, OthersWait
  <2>2. n \in DOMAIN run[s].made[u] /\ run'[s].made[u][n] = run[s].made[u][n]
    BY <2>1
  <2>3. run[s].made[u][n] \in DOMAIN rows[u]
    BY <2>2 DEF TypeOK
  <2>4. u \in Tables
    BY Numbers
  <2> QED
    BY <1>1, <2>2, <2>3, <2>4 DEF Good, RowsStay
<1>3. CASE s = r /\ u = t
  <2> DEFINE q == run[r].made[t]
             x == Len(rows[t]) + 1
  <2>1. q \in Seq(Nat) /\ Len(rows[t]) \in Nat /\ run[r].i \in Nat
    <3>1. run[r] \in Runs /\ rows \in [Tables -> Seq(Rows)]
      BY DEF TypeOK
    <3>2. t \in Tables
      BY <3>1, RunTyped
    <3>3. rows[t] \in Seq(Rows)
      BY <3>1, <3>2
    <3> QED
      BY <1>1, <3>1, <3>3, RunTyped, LenProperties
  <2>2. x \in Nat
    BY <2>1, Successor
  <2>3. Len(q) = run[r].i - 1
    BY <1>1
  <2>4. run'[s].made[u] = Append(q, x)
    BY <1>1, <1>3
  <2> HIDE DEF q, x
  <2>5. /\ Len(q) \in Nat /\ DOMAIN q = 1..Len(q) /\ DOMAIN Append(q, x) = 1..Len(q) + 1
        /\ \A k \in 1..Len(q) : Append(q, x)[k] = q[k]
        /\ Append(q, x)[Len(q) + 1] = x
    BY <2>1, <2>2, AppendProperties, LenProperties
  <2>6. n \in 1..Len(q) + 1
    BY <2>4, <2>5
  <2>7. CASE n \in 1..Len(q)
    <3>1. n \in DOMAIN run[s].made[u] /\ run'[s].made[u][n] = run[s].made[u][n]
      BY <1>3, <2>4, <2>5, <2>7 DEF q
    <3>2. u \in Tables
      BY Numbers
    <3>3. \A m \in DOMAIN run[s].made[u] : run[s].made[u][m] \in DOMAIN rows[u]
      BY DEF TypeOK
    <3> QED
      BY <1>1, <3>1, <3>2, <3>3 DEF Good, RowsStay
  <2>8. CASE n = Len(q) + 1
    <3>1. n = run[r].i
      BY <2>1, <2>3, <2>5, <2>8
    <3>2. run'[s].made[u][n] = x
      BY <2>4, <2>5, <2>8
    <3> QED
      BY <1>1, <1>3, <3>1, <3>2 DEF x
  <2> QED
    BY <2>5, <2>6, <2>7, <2>8
<1> QED
  BY <1>2, <1>3

\* Every step keeps the types and what runs have in hand, and no row away.
LEMMA TypingStep ==
    ASSUME TypeOK, StageInv, [Next]_vars
    PROVE  TypeOK' /\ StageInv' /\ RowsStay
<1>0. /\ run \in [Runners -> Runs] /\ rows \in [Tables -> Seq(Rows)]
      /\ failures \in 0..MaxFailures /\ MaxFailures \in Nat
  BY WorkflowAssumption DEF TypeOK
<1>1. failures' \in 0..MaxFailures
  <2>1. failures' = failures \/ (failures < MaxFailures /\ failures' = failures + 1)
    BY DEF Next, Trigger, Work, ListRows, InspectMessages, BeginProcessing, AddRow,
           AddRowFails, AddRowUnseen, MarkParent, Close, Say, Tell, BroadcastExecutions,
           AddSummary, FinishRound, BroadcastStatus, PostAsRole, Crash, UpdateStatus, CallFails, vars
  <2> QED
    BY <1>0, <2>1
<1>2. ASSUME NEW r \in Runners, Trigger(r) \/ Work(r)
      PROVE  TypeOK' /\ StageInv' /\ RowsStay
  <2>1. Good(r) /\ StageInv'
    BY <1>2, RunnerStep DEF StageInv
  <2>2. \A s \in Runners, t \in Task..Execution : \A n \in DOMAIN run'[s].made[t] :
            run'[s].made[t][n] \in DOMAIN rows'[t]
    <3>1. CASE AddRow(r)
      BY <3>1, AddStored
    <3>2. CASE ~AddRow(r)
      BY <1>2, <2>1, <3>2, RunnerStep, MadeStored DEF Good
    <3> QED
      BY <3>1, <3>2
  <2>3. event' \in {"pending", "processing", "round_finished"} /\ voiced' \in BOOLEAN
    BY <1>2 DEF TypeOK, Trigger, Work, ListRows, InspectMessages, BeginProcessing, AddRow,
           AddRowFails, AddRowUnseen, MarkParent, Close, Say, Tell, BroadcastExecutions,
           AddSummary, FinishRound, BroadcastStatus, UpdateStatus, store
  <2>4. run[r].table \in Tables
    BY <1>0, RunTyped
  <2>5. messages' \in [Tables -> Nat] /\ told' \in [Tables -> Nat]
    <3>1. /\ messages' = messages \/ messages' = [messages EXCEPT ![run[r].table] = @ + 1]
          /\ told' = told \/ told' = [told EXCEPT ![run[r].table] = @ + 1]
      BY <1>2 DEF Trigger, Work, ListRows, InspectMessages, BeginProcessing, AddRow,
           AddRowFails, AddRowUnseen, MarkParent, Close, Say, Tell, BroadcastExecutions,
           AddSummary, FinishRound, BroadcastStatus, UpdateStatus, store, outside
    <3>2. messages \in [Tables -> Nat] /\ told \in [Tables -> Nat]
      BY DEF TypeOK
    <3>3. messages[run[r].table] + 1 \in Nat /\ told[run[r].table] + 1 \in Nat
      BY <2>4, <3>2
    <3> QED
      BY <3>1, <3>2, <3>3
  <2>6. updates' \in [{"execution", "status"} -> Nat]
    <3>1. \/ updates' = updates
          \/ updates' = [updates EXCEPT !["execution"] = @ + NPlans]
          \/ updates' = [updates EXCEPT !["status"] = @ + 1]
      BY <1>2 DEF Trigger, Work, ListRows, InspectMessages, BeginProcessing, AddRow,
           AddRowFails, AddRowUnseen, MarkParent, Close, Say, Tell, BroadcastExecutions,
           AddSummary, FinishRound, BroadcastStatus, UpdateStatus, store, outside
    <3>2. updates \in [{"execution", "status"} -> Nat]
      BY DEF TypeOK
    <3>3. updates["execution"] \in Nat /\ updates["status"] \in Nat
      BY <3>2
    <3>4. updates["execution"] + NPlans \in Nat /\ updates["status"] + 1 \in Nat
      BY <3>3, Numbers
    <3> QED
      BY <3>1, <3>2, <3>4
  <2> QED
    BY <1>1, <2>1, <2>2, <2>3, <2>5, <2>6 DEF TypeOK, Good
<1>3. CASE Crash
  <2>1. /\ run' = [r \in Runners |-> Idle] /\ rows' = rows
        /\ UNCHANGED <<event, messages, voiced, told, updates>>
    BY <1>3 DEF Crash, store, outside
  <2>2. RowsStay
    BY <1>0, <2>1, RowsUnchanged
  <2>3. StageInv'
    BY <2>1, StageIdle DEF StageInv
  <2>4. MadeKept /\ run' \in [Runners -> Runs]
    BY <2>1, IdleTyped DEF MadeKept
  <2>5. \A s \in Runners, t \in Task..Execution : \A n \in DOMAIN run'[s].made[t] :
            run'[s].made[t][n] \in DOMAIN rows'[t]
    BY <2>2, <2>4, MadeStored
  <2> QED
    BY <1>1, <2>1, <2>2, <2>3, <2>4, <2>5 DEF TypeOK
<1>4. CASE PostAsRole \/ UNCHANGED vars
  <2>1. /\ UNCHANGED <<event, rows, messages, told, updates, run>>
        /\ voiced' \in BOOLEAN
    BY <1>4 DEF PostAsRole, vars, store, outside, TypeOK
  <2>2. RowsStay
    BY <1>0, <2>1, RowsUnchanged
  <2>3. StageInv'
    BY <1>0, <2>1, <2>2, StageWaits DEF StageInv
  <2> QED
    BY <1>1, <2>1, <2>2, <2>3 DEF TypeOK
<1> QED
  BY <1>2, <1>3, <1>4 DEF Next

\* Rows, runs and counters keep their shape, a run only refers to rows that
\* exist, and every run is where its loop variables say (RunAgentWorkflow).
THEOREM Typing == Spec => [](TypeOK /\ StageInv)
<1>1. Init => TypeOK /\ StageInv
  <2> SUFFICES ASSUME Init PROVE TypeOK /\ StageInv
    OBVIOUS
  <2>1. /\ run = [r \in Runners |-> Idle] /\ run \in [Runners -> Runs]
        /\ rows \in [Tables -> Seq(Rows)]
        /\ failures \in 0..MaxFailures
    BY IdleTyped, EmptySeq, WorkflowAssumption DEF Init
  <2>2. \A u \in Task..Execution : NoneMade[u] = <<>>
    BY DEF NoneMade
  <2>3. StageInv
    BY <2>1, <2>2, IdleTyped, EmptySeq DEF StageInv, Stage, Planned, Begun, Working
  <2>4. \A r \in Runners, t \in Task..Execution :
            \A n \in DOMAIN run[r].made[t] : run[r].made[t][n] \in DOMAIN rows[t]
    BY <2>1, <2>2, IdleTyped, EmptySeq
  <2>5. /\ event \in {"pending", "processing", "round_finished"}
        /\ messages \in [Tables -> Nat] /\ told \in [Tables -> Nat]
        /\ updates \in [{"execution", "status"} -> Nat] /\ voiced \in BOOLEAN
    <3>1. [execution |-> 0, status |-> 0] \in [{"execution", "status"} -> Nat]
      OBVIOUS
    <3> QED
      BY <3>1 DEF Init
  <2> QED
    BY <2>1, <2>3, <2>4, <2>5 DEF TypeOK
<1>2. TypeOK /\ StageInv /\ [Next]_vars => (TypeOK /\ StageInv)'
  BY TypingStep
<1> QED
  BY <1>1, <1>2, PTL DEF Spec

-----------------------------------------------------------------------------
(* Every run has a lineage of its own.                                     *)

\* A row was created by at most one run, for one item of its plan.
Sole ==
    \A r, s \in Runners : \A u \in Task..Execution :
        \A m \in DOMAIN run[r].made[u], n \in DOMAIN run[s].made[u] :
            run[r].made[u][m] = run[s].made[u][n] => r = s /\ m = n

\* The n-th row of a run is at least the n-th of its table.
Numbered ==
    \A r \in Runners : \A u \in Task..Execution :
        \A n \in DOMAIN run[r].made[u] : run[r].made[u][n] >= n

\* The next row of an item is under the one before; while there is none,
\* nothing is under it.
Continued ==
    \A r \in Runners : \A u \in Task..Command : \A n \in DOMAIN run[r].made[u] :
        IF n \in DOMAIN run[r].made[u + 1]
        THEN rows[u + 1][run[r].made[u + 1][n]].parent = run[r].made[u][n]
        ELSE Children(u, run[r].made[u][n]) = {}

OwnInv == Sole /\ Numbered /\ Continued /\ LineageIsTidy

\* Tables with a table below.
LEMMA Below ==
    ASSUME NEW u \in Task..Command
    PROVE  /\ u \in Task..Execution /\ u + 1 \in Task..Execution /\ u + 1 # Task
           /\ u \in Tables /\ u + 1 \in Tables /\ (u + 1) - 1 = u /\ u # Execution
           /\ u + 1 > u
BY Numbers

\* Steps that insert nothing into the lineage.
LEMMA OwnKept ==
    ASSUME TypeOK, OwnInv, SameLineage, MadeKept
    PROVE  OwnInv'
<1>1. \A r \in Runners : \A u \in Task..Execution : \A n \in DOMAIN run'[r].made[u] :
          run'[r].made = run[r].made
  <2>1. \A u \in Task..Execution : DOMAIN NoneMade[u] = {}
    BY EmptySeq DEF NoneMade
  <2> QED
    BY <2>1 DEF MadeKept
<1>2. Sole'
  BY <1>1 DEF OwnInv, Sole
<1>3. Numbered'
  BY <1>1 DEF OwnInv, Numbered
<1>4. ASSUME NEW u \in Task..Command, NEW x
      PROVE  Children(u, x)' = Children(u, x)
  BY Below DEF Children, SameLineage
<1>5. Continued'
  <2> SUFFICES ASSUME NEW r \in Runners, NEW u \in Task..Command,
                      NEW n \in DOMAIN run'[r].made[u]
               PROVE  IF n \in DOMAIN run'[r].made[u + 1]
                      THEN rows'[u + 1][run'[r].made[u + 1][n]].parent = run'[r].made[u][n]
                      ELSE Children(u, run[r].made[u][n])' = {}
    BY DEF Continued
  <2>1. run'[r].made = run[r].made
    BY <1>1, Below
  <2> DEFINE x == run[r].made[u][n]
             y == run[r].made[u + 1][n]
  <2>2. CASE n \in DOMAIN run[r].made[u + 1]
    <3>1. rows[u + 1][y].parent = x
      BY <2>1, <2>2 DEF OwnInv, Continued
    <3>2. y \in DOMAIN rows[u + 1] => rows'[u + 1][y].parent = rows[u + 1][y].parent
      BY Below DEF SameLineage
    <3>3. y \in DOMAIN rows[u + 1]
      BY <2>2, Below DEF TypeOK
    <3> QED
      BY <2>1, <2>2, <3>1, <3>2, <3>3
  <2>3. CASE n \notin DOMAIN run[r].made[u + 1]
    <3>1. Children(u, x) = {}
      BY <2>1, <2>3 DEF OwnInv, Continued
    <3>2. ASSUME NEW z, z = x
          PROVE  Children(u, z)' = {}
      <4>1. Children(u, z) = {}
        BY <3>1, <3>2
      <4> HIDE DEF x
      <4> QED
        BY <1>4, <4>1
    <3> QED
      BY <2>1, <2>3, <3>2 DEF Children
  <2> QED
    BY <2>2, <2>3
<1>6. LineageIsTidy'
  BY Below DEF OwnInv, LineageIsTidy, SameLineage
<1> QED
  BY <1>2, <1>3, <1>5, <1>6 DEF OwnInv

\* The insert of a row for the plan.
LEMMA OwnAdded ==
    ASSUME TypeOK, StageInv, OwnInv, NEW r \in Runners, AddRow(r)
    PROVE  OwnInv'
<1> DEFINE t == run[r].table
           i == run[r].i
           k == Len(rows[t]) + 1
<1>0. Stage(run[r])
  BY DEF StageInv
<1>1. /\ Good(r) /\ t \in Task..Execution
      /\ Len(run[r].made[t]) = i - 1
      /\ \A u \in Tables \ {t} : rows'[u] = rows[u]
      /\ DOMAIN rows'[t] = DOMAIN rows[t] \cup {k}
      /\ k \notin DOMAIN rows[t]
      /\ \A n \in DOMAIN rows[t] : rows'[t][n] = rows[t][n]
      /\ t # Task => /\ rows'[t][k].parent = run[r].made[t - 1][i]
                     /\ rows'[t][k].parent \in DOMAIN rows[t - 1]
                     /\ i \in DOMAIN run[r].made[t - 1]
      /\ \A u \in (Task..Execution) \ {t} : run'[r].made[u] = run[r].made[u]
  BY <1>0, AddRowStep
<1>2. /\ run[r] \in Runs /\ t \in Tables /\ rows[t] \in Seq(Rows)
      /\ i \in 1..NPlans /\ i \in Nat /\ i >= 1
      /\ run[r].made[t] \in Seq(Nat)
  <2>1. run \in [Runners -> Runs] /\ rows \in [Tables -> Seq(Rows)]
    BY DEF TypeOK
  <2> QED
    BY <1>1, <2>1, RunTyped
<1>3. Len(rows[t]) \in Nat /\ DOMAIN rows[t] = 1..Len(rows[t])
  BY <1>2, LenProperties
<1>4. i \notin DOMAIN run[r].made[t]
  <2>1. DOMAIN run[r].made[t] = 1..i - 1
    BY <1>1, <1>2, LenProperties
  <2> QED
    BY <1>2, <2>1
\* What a run refers to is old and was there, or it is the new row.
<1>5. ASSUME NEW s \in Runners, NEW u \in Task..Execution, NEW n \in DOMAIN run'[s].made[u]
      PROVE  \/ /\ n \in DOMAIN run[s].made[u]
                /\ run'[s].made[u][n] = run[s].made[u][n]
                /\ run[s].made[u][n] \in DOMAIN rows[u]
             \/ s = r /\ u = t /\ n = i /\ run'[s].made[u][n] = k
  <2>1. n \in DOMAIN run[s].made[u] => run[s].made[u][n] \in DOMAIN rows[u]
    BY DEF TypeOK
  <2> QED
    BY <1>5, <2>1, AddStored
\* What it referred to, it still does.
<1>6. ASSUME NEW s \in Runners, NEW u \in Task..Execution, NEW n \in DOMAIN run[s].made[u]
      PROVE  n \in DOMAIN run'[s].made[u] /\ run'[s].made[u][n] = run[s].made[u][n]
  <2>1. CASE s # r \/ u # t
    BY <1>1, <2>1 DEF Good, OthersWait
  <2>2. CASE s = r /\ u = t
    <3>1. run'[r].made[t] = Append(run[r].made[t], k)
      BY <1>0, AddRowStep
    <3>2. k \in Nat
      BY <1>3, Successor
    <3> DEFINE q == run[r].made[t]
    <3>3. q \in Seq(Nat)
      BY <1>2
    <3> HIDE DEF q, k
    <3>4. /\ DOMAIN q = 1..Len(q) /\ DOMAIN Append(q, k) = 1..Len(q) + 1 /\ Len(q) \in Nat
          /\ \A j \in 1..Len(q) : Append(q, k)[j] = q[j]
      BY <3>2, <3>3, AppendProperties, LenProperties
    <3>5. n \in 1..Len(q) /\ n \in 1..Len(q) + 1
      BY <2>2, <3>4 DEF q
    <3> QED
      BY <2>2, <3>1, <3>4, <3>5 DEF q
  <2> QED
    BY <2>1, <2>2
<1> HIDE DEF k
<1>7. Sole'
  <2> SUFFICES ASSUME NEW s1 \in Runners, NEW s2 \in Runners, NEW u \in Task..Execution,
                      NEW m \in DOMAIN run'[s1].made[u], NEW n \in DOMAIN run'[s2].made[u],
                      run'[s1].made[u][m] = run'[s2].made[u][n]
               PROVE  s1 = s2 /\ m = n
    BY DEF Sole
  <2>1. CASE m \in DOMAIN run[s1].made[u] /\ n \in DOMAIN run[s2].made[u]
    <3>1. run[s1].made[u][m] = run[s2].made[u][n]
      BY <1>6, <2>1
    <3> QED
      BY <2>1, <3>1 DEF OwnInv, Sole
  <2>2. CASE ~(m \in DOMAIN run[s1].made[u] /\ n \in DOMAIN run[s2].made[u])
    BY <1>1, <1>5, <2>2
  <2> QED
    BY <2>1, <2>2
<1>8. Numbered'
  <2>1. k >= i
    <3>1. CASE i = 1
      BY <1>3, <3>1 DEF k
    <3>2. CASE i # 1
      <4>1. i - 1 \in 1..i - 1
        BY <1>2, <3>2
      <4>2. i - 1 \in DOMAIN run[r].made[t]
        BY <1>1, <1>2, <4>1, LenProperties
      <4>3. run[r].made[t][i - 1] >= i - 1
        BY <1>1, <4>2 DEF OwnInv, Numbered
      <4>4. run[r].made[t][i - 1] \in 1..Len(rows[t])
        BY <1>1, <1>3, <4>2 DEF TypeOK
      <4> DEFINE y == run[r].made[t][i - 1]
      <4> HIDE DEF y, i, t
      <4>5. y \in 1..Len(rows[t]) /\ y >= i - 1
        BY <4>3, <4>4 DEF y
      <4> QED
        BY <1>2, <1>3, <4>5 DEF k
    <3> QED
      BY <3>1, <3>2
  <2> SUFFICES ASSUME NEW s \in Runners, NEW u \in Task..Execution,
                      NEW n \in DOMAIN run'[s].made[u]
               PROVE  run'[s].made[u][n] >= n
    BY DEF Numbered
  <2>2. CASE n \in DOMAIN run[s].made[u] /\ run'[s].made[u][n] = run[s].made[u][n]
    BY <2>2 DEF OwnInv, Numbered
  <2>3. CASE n = i /\ run'[s].made[u][n] = k
    BY <2>1, <2>3
  <2> QED
    BY <1>5, <2>2, <2>3
\* Nothing is under the row that gets one now, nothing under the new one.
<1>9. ASSUME NEW u \in Task..Command, u + 1 = t
      PROVE  /\ u # t /\ u = t - 1 /\ u \in Tables \ {t}
             /\ i \in DOMAIN run[r].made[u]
             /\ rows'[t][k].parent = run[r].made[u][i]
             /\ rows'[t][k].parent \in DOMAIN rows[u]
             /\ Children(u, run[r].made[u][i]) = {}
  <2>1. u = t - 1 /\ u # t /\ t # Task /\ u \in Tables
    BY <1>9, Below, Numbers
  <2>2. /\ rows'[t][k].parent = run[r].made[u][i]
        /\ rows'[t][k].parent \in DOMAIN rows[u]
        /\ i \in DOMAIN run[r].made[u]
    BY <1>1, <2>1
  <2>3. i \notin DOMAIN run[r].made[u + 1]
    BY <1>4, <1>9
  <2>4. Children(u, run[r].made[u][i]) = {}
    BY <2>2, <2>3 DEF OwnInv, Continued
  <2> QED
    BY <2>1, <2>2, <2>4
<1>10. LineageIsTidy'
  <2> SUFFICES ASSUME NEW u \in Task..Command
               PROVE  /\ \A n \in DOMAIN rows'[u + 1] : rows'[u + 1][n].parent \in DOMAIN rows'[u]
                      /\ \A m, n \in DOMAIN rows'[u + 1] :
                            rows'[u + 1][m].parent = rows'[u + 1][n].parent => m = n
    BY DEF LineageIsTidy
  <2>0. /\ \A n \in DOMAIN rows[u + 1] : rows[u + 1][n].parent \in DOMAIN rows[u]
        /\ \A m, n \in DOMAIN rows[u + 1] :
              rows[u + 1][m].parent = rows[u + 1][n].parent => m = n
        /\ u \in Tables /\ u + 1 \in Tables
        /\ DOMAIN rows[u] \subseteq DOMAIN rows'[u]
    BY <1>1, Below DEF OwnInv, LineageIsTidy, Good, RowsStay
  <2>1. CASE u + 1 # t
    <3>1. rows'[u + 1] = rows[u + 1]
      BY <1>1, <2>0, <2>1
    <3> QED
      BY <2>0, <3>1
  <2>2. CASE u + 1 = t
    <3>1. \A n \in DOMAIN rows[u + 1] : rows'[u + 1][n].parent # rows'[t][k].parent
      BY <1>1, <1>9, <2>2 DEF Children
    <3> QED
      BY <1>1, <1>9, <2>0, <2>2, <3>1
  <2> QED
    BY <2>1, <2>2
<1>11. Continued'
  <2> SUFFICES ASSUME NEW s \in Runners, NEW u \in Task..Command,
                      NEW n \in DOMAIN run'[s].made[u],
                      NEW x, x = run'[s].made[u][n]
               PROVE  IF n \in DOMAIN run'[s].made[u + 1]
                      THEN rows'[u + 1][run'[s].made[u + 1][n]].parent = x
                      ELSE \A c \in DOMAIN rows'[u + 1] : rows'[u + 1][c].parent # x
    BY DEF Continued, Children
  <2>0. /\ u \in Task..Execution /\ u + 1 \in Task..Execution /\ u + 1 \in Tables
        /\ u \in Tables /\ u + 1 # u
    BY Below, Numbers
  <2>1. ASSUME n \in DOMAIN run[s].made[u], x = run[s].made[u][n],
               n \in DOMAIN run[s].made[u + 1]
        PROVE  /\ n \in DOMAIN run'[s].made[u + 1]
               /\ rows'[u + 1][run'[s].made[u + 1][n]].parent = x
    <3> DEFINE y == run[s].made[u + 1][n]
    <3>1. n \in DOMAIN run'[s].made[u + 1] /\ run'[s].made[u + 1][n] = y
      BY <1>6, <2>0, <2>1
    <3>2. rows[u + 1][y].parent = x
      BY <2>1 DEF OwnInv, Continued
    <3>3. y \in DOMAIN rows[u + 1]
      BY <2>0, <2>1 DEF TypeOK
    <3> HIDE DEF y
    <3>4. rows'[u + 1][y].parent = rows[u + 1][y].parent
      BY <1>1, <2>0, <3>3 DEF Good, RowsStay
    <3> QED
      BY <3>1, <3>2, <3>4
  <2>2. ASSUME n \in DOMAIN run[s].made[u], x = run[s].made[u][n],
               n \notin DOMAIN run[s].made[u + 1], n \in DOMAIN run'[s].made[u + 1]
        PROVE  rows'[u + 1][run'[s].made[u + 1][n]].parent = x
    <3>1. s = r /\ u + 1 = t /\ n = i /\ run'[s].made[u + 1][n] = k
      BY <1>5, <2>0, <2>2
    <3> QED
      BY <1>9, <2>2, <3>1
  <2>3. ASSUME n \in DOMAIN run[s].made[u], x = run[s].made[u][n],
               n \notin DOMAIN run'[s].made[u + 1],
               NEW c \in DOMAIN rows'[u + 1], rows'[u + 1][c].parent = x
        PROVE  FALSE
    <3>1. n \notin DOMAIN run[s].made[u + 1]
      BY <1>6, <2>0, <2>3
    <3>2. Children(u, run[s].made[u][n]) = {}
      BY <2>3, <3>1 DEF OwnInv, Continued
    <3>3. CASE c \in DOMAIN rows[u + 1]
      <4>1. rows[u + 1][c].parent = x
        BY <1>1, <2>0, <2>3, <3>3 DEF Good, RowsStay
      <4> QED
        BY <2>3, <3>2, <3>3, <4>1 DEF Children
    <3>4. CASE c \notin DOMAIN rows[u + 1]
      <4>1. u + 1 = t /\ c = k
        BY <1>1, <2>0, <2>3, <3>4
      <4>2. x = run[r].made[u][i] /\ i \in DOMAIN run[r].made[u]
        BY <1>9, <2>3, <4>1
      <4>3. s = r /\ n = i
        <5>1. run[s].made[u][n] = run[r].made[u][i] /\ n \in DOMAIN run[s].made[u]
          BY <2>3, <4>2
        <5> QED
          BY <2>0, <4>2, <5>1 DEF OwnInv, Sole
      <4>4. i \in DOMAIN run'[r].made[t]
        <5>1. run'[r].made[t] = Append(run[r].made[t], Len(rows[t]) + 1)
          BY <1>0, AddRowStep
        <5>2. Len(rows[t]) + 1 \in Nat
          BY <1>3, Successor
        <5> DEFINE q == run[r].made[t]
                   y == Len(rows[t]) + 1
        <5>3. q \in Seq(Nat) /\ y \in Nat /\ Len(q) = i - 1
          BY <1>1, <1>2, <5>2
        <5> HIDE DEF q, y
        <5>4. DOMAIN Append(q, y) = 1..Len(q) + 1
          BY <5>3, AppendProperties
        <5>5. i \in 1..Len(q) + 1
          BY <1>2, <5>3
        <5> QED
          BY <5>1, <5>4, <5>5 DEF q, y
      <4> QED
        BY <2>3, <4>1, <4>3, <4>4
    <3> QED
      BY <3>3, <3>4
  <2>4. ASSUME s = r, u = t, n = i, x = k
        PROVE  /\ n \notin DOMAIN run'[s].made[u + 1]
               /\ \A c \in DOMAIN rows'[u + 1] : rows'[u + 1][c].parent # x
    <3>1. rows'[u + 1] = rows[u + 1] /\ run'[s].made[u + 1] = run[s].made[u + 1]
      BY <1>1, <2>0, <2>4
    <3>2. \A c \in DOMAIN rows[u + 1] : rows[u + 1][c].parent \in DOMAIN rows[u]
      BY DEF OwnInv, LineageIsTidy
    <3>3. Planned(run[r], u + 1) = 0
      <4>1. At(r, "add") /\ u + 1 > u
        BY Below DEF AddRow
      <4>2. u \in 1..3 /\ run[r].table = u
        BY <2>4, Numbers
      <4> QED
        BY <4>1, <4>2 DEF Planned, Begun, Working, At
    <3>4. /\ Len(run[r].made[u + 1]) = 0 /\ run[r].made[u + 1] \in Seq(Nat)
      BY <1>0, <1>2, <2>0, <3>3, RunTyped DEF Stage
    <3>5. DOMAIN run[r].made[u + 1] = {}
      <4> DEFINE q == run[r].made[u + 1]
      <4> HIDE DEF q
      <4>1. q \in Seq(Nat) /\ Len(q) = 0
        BY <3>4 DEF q
      <4>2. DOMAIN q = {}
        BY <4>1, LenProperties
      <4> QED
        BY <4>2 DEF q
    <3> QED
      BY <1>1, <2>4, <3>1, <3>2, <3>5
  <2> QED
    BY <1>5, <2>0, <2>1, <2>2, <2>3, <2>4
<1> QED
  BY <1>7, <1>8, <1>10, <1>11 DEF OwnInv

\* The insert of a row for the plan whose reply was lost: its run returns.
LEMMA OwnUnseen ==
    ASSUME TypeOK, StageInv, OwnInv, NEW r \in Runners, AddRowUnseen(r)
    PROVE  OwnInv'
<1> DEFINE t == run[r].table
           i == run[r].i
           k == Len(rows[t]) + 1
<1>0. Stage(run[r])
  BY DEF StageInv
<1>1. /\ Good(r) /\ t \in Tables /\ run'[r].made = NoneMade
      /\ \A u \in Tables \ {t} : rows'[u] = rows[u]
      /\ DOMAIN rows'[t] = DOMAIN rows[t] \cup {k}
      /\ \A n \in DOMAIN rows[t] : rows'[t][n] = rows[t][n]
      /\ t \in Action..Execution =>
             /\ rows'[t][k].parent = run[r].made[t - 1][i]
             /\ rows'[t][k].parent \in DOMAIN rows[t - 1]
             /\ i \in DOMAIN run[r].made[t - 1]
             /\ i \notin DOMAIN run[r].made[t]
  BY <1>0, UnseenStep
<1> HIDE DEF k
\* What a run still refers to is as it was, and not of the one that returned.
<1>2. ASSUME NEW s \in Runners, NEW u \in Task..Execution, NEW n \in DOMAIN run'[s].made[u]
      PROVE  s # r /\ run'[s].made = run[s].made
  <2>1. DOMAIN NoneMade[u] = {}
    BY EmptySeq DEF NoneMade
  <2>2. s # r
    BY <1>1, <1>2, <2>1
  <2> QED
    BY <1>1, <2>2 DEF Good, OthersWait
<1>3. Sole'
  BY <1>2 DEF OwnInv, Sole
<1>4. Numbered'
  BY <1>2 DEF OwnInv, Numbered
\* Nothing was under the row that has a row under it now.
<1>5. ASSUME NEW u \in Task..Command, u + 1 = t
      PROVE  /\ u # t /\ u \in Tables \ {t}
             /\ i \in DOMAIN run[r].made[u]
             /\ rows'[t][k].parent = run[r].made[u][i]
             /\ rows'[t][k].parent \in DOMAIN rows[u]
             /\ Children(u, run[r].made[u][i]) = {}
  <2>1. u = t - 1 /\ u # t /\ t \in Action..Execution /\ u \in Tables
    BY <1>5, Below, Numbers
  <2>2. /\ rows'[t][k].parent = run[r].made[u][i]
        /\ rows'[t][k].parent \in DOMAIN rows[u]
        /\ i \in DOMAIN run[r].made[u] /\ i \notin DOMAIN run[r].made[u + 1]
    BY <1>1, <1>5, <2>1
  <2>3. Children(u, run[r].made[u][i]) = {}
    BY <2>2 DEF OwnInv, Continued
  <2> QED
    BY <2>1, <2>2, <2>3
<1>6. LineageIsTidy'
  <2> SUFFICES ASSUME NEW u \in Task..Command
               PROVE  /\ \A n \in DOMAIN rows'[u + 1] : rows'[u + 1][n].parent \in DOMAIN rows'[u]
                      /\ \A m, n \in DOMAIN rows'[u + 1] :
                            rows'[u + 1][m].parent = rows'[u + 1][n].parent => m = n
    BY DEF LineageIsTidy
  <2>0. /\ \A n \in DOMAIN rows[u + 1] : rows[u + 1][n].parent \in DOMAIN rows[u]
        /\ \A m, n \in DOMAIN rows[u + 1] :
              rows[u + 1][m].parent = rows[u + 1][n].parent => m = n
        /\ u \in Tables /\ u + 1 \in Tables
        /\ DOMAIN rows[u] \subseteq DOMAIN rows'[u]
    BY <1>1, Below DEF OwnInv, LineageIsTidy, Good, RowsStay
  <2>1. CASE u + 1 # t
    <3>1. rows'[u + 1] = rows[u + 1]
      BY <1>1, <2>0, <2>1
    <3> QED
      BY <2>0, <3>1
  <2>2. CASE u + 1 = t
    <3>1. \A n \in DOMAIN rows[u + 1] : rows'[u + 1][n].parent # rows'[t][k].parent
      BY <1>1, <1>5, <2>2 DEF Children
    <3> QED
      BY <1>1, <1>5, <2>0, <2>2, <3>1
  <2> QED
    BY <2>1, <2>2
<1>7. Continued'
  <2> SUFFICES ASSUME NEW s \in Runners, NEW u \in Task..Command,
                      NEW n \in DOMAIN run'[s].made[u],
                      NEW x, x = run'[s].made[u][n]
               PROVE  IF n \in DOMAIN run'[s].made[u + 1]
                      THEN rows'[u + 1][run'[s].made[u + 1][n]].parent = x
                      ELSE \A c \in DOMAIN rows'[u + 1] : rows'[u + 1][c].parent # x
    BY DEF Continued, Children
  <2>0. /\ u \in Task..Execution /\ u + 1 \in Task..Execution /\ u + 1 \in Tables
    BY Below
  <2>1. /\ s # r /\ run'[s].made = run[s].made
        /\ n \in DOMAIN run[s].made[u] /\ x = run[s].made[u][n]
    BY <1>2, <2>0
  <2>2. CASE n \in DOMAIN run[s].made[u + 1]
    <3> DEFINE y == run[s].made[u + 1][n]
    <3>1. rows[u + 1][y].parent = x /\ y \in DOMAIN rows[u + 1]
      BY <2>0, <2>1, <2>2 DEF OwnInv, Continued, TypeOK
    <3> HIDE DEF y
    <3>2. rows'[u + 1][y].parent = rows[u + 1][y].parent
      BY <1>1, <2>0, <3>1 DEF Good, RowsStay
    <3> QED
      BY <2>1, <2>2, <3>1, <3>2 DEF y
  <2>3. CASE n \notin DOMAIN run[s].made[u + 1]
    <3>1. Children(u, run[s].made[u][n]) = {}
      BY <2>1, <2>3 DEF OwnInv, Continued
    <3> SUFFICES ASSUME NEW c \in DOMAIN rows'[u + 1], rows'[u + 1][c].parent = x
                 PROVE  FALSE
      BY <2>1, <2>3
    <3>2. CASE c \in DOMAIN rows[u + 1]
      <4>1. rows[u + 1][c].parent = x
        BY <1>1, <2>0, <3>2 DEF Good, RowsStay
      <4> QED
        BY <2>1, <3>1, <3>2, <4>1 DEF Children
    <3>3. CASE c \notin DOMAIN rows[u + 1]
      <4>1. u + 1 = t /\ c = k
        BY <1>1, <2>0, <3>3
      <4>2. x = run[r].made[u][i] /\ i \in DOMAIN run[r].made[u]
        BY <1>5, <4>1
      <4>3. run[s].made[u][n] = run[r].made[u][i]
        BY <2>1, <4>2
      <4> QED
        BY <2>0, <2>1, <4>2, <4>3 DEF OwnInv, Sole
    <3> QED
      BY <3>2, <3>3
  <2> QED
    BY <2>2, <2>3
<1> QED
  BY <1>3, <1>4, <1>6, <1>7 DEF OwnInv

-----------------------------------------------------------------------------
(* What is completed was executed.                                         *)

Earned(t, n) ==
    CASE t = Command -> Children(Command, n) # {}
      [] t = Action -> \E c \in Children(Action, n) : Children(Command, c) # {}
      [] OTHER -> \E a \in Children(Task, n) : \E c \in Children(Action, a) :
                     Children(Command, c) # {}

\* What was executed stays so.
LEMMA EarnedStays ==
    ASSUME RowsStay, NEW t, NEW n, Earned(t, n)
    PROVE  Earned(t, n)'
<1>1. \A u \in Task..Command : \A x : Children(u, x) \subseteq Children(u, x)'
  BY Below DEF Children, RowsStay
<1>2. Task \in Task..Command /\ Action \in Task..Command /\ Command \in Task..Command
  BY Numbers
<1>3. Task # Command /\ Task # Action /\ Action # Command
  BY Numbers
<1>4. \A x : /\ Children(Task, x) \subseteq Children(Task, x)'
             /\ Children(Action, x) \subseteq Children(Action, x)'
             /\ Children(Command, x) \subseteq Children(Command, x)'
  BY <1>1, <1>2
<1>5. CASE t = Command
  BY <1>3, <1>4, <1>5 DEF Earned
<1>6. CASE t = Action
  <2>1. PICK c \in Children(Action, n) : Children(Command, c) # {}
    BY <1>3, <1>6 DEF Earned
  <2>2. c \in Children(Action, n)' /\ Children(Command, c)' # {}
    BY <1>4, <2>1
  <2> QED
    BY <1>3, <1>6, <2>2 DEF Earned
<1>7. CASE t # Command /\ t # Action
  <2>1. PICK a \in Children(Task, n) : \E c \in Children(Action, a) : Children(Command, c) # {}
    BY <1>3, <1>7 DEF Earned
  <2>2. PICK c \in Children(Action, a) : Children(Command, c) # {}
    BY <2>1
  <2>3. a \in Children(Task, n)' /\ c \in Children(Action, a)' /\ Children(Command, c)' # {}
    BY <1>4, <2>1, <2>2
  <2> QED
    BY <1>3, <1>7, <2>3 DEF Earned
<1> QED
  BY <1>5, <1>6, <1>7

\* The rows of one item are under each other.
LEMMA ChildMade ==
    ASSUME TypeOK, OwnInv, NEW r \in Runners, NEW u \in Task..Command,
           NEW n \in DOMAIN run[r].made[u], n \in DOMAIN run[r].made[u + 1]
    PROVE  run[r].made[u + 1][n] \in Children(u, run[r].made[u][n])
<1>1. rows[u + 1][run[r].made[u + 1][n]].parent = run[r].made[u][n]
  BY DEF OwnInv, Continued
<1>2. run[r].made[u + 1][n] \in DOMAIN rows[u + 1]
  BY Below DEF TypeOK
<1> QED
  BY <1>1, <1>2 DEF Children

\* An update leaves the lineage alone; it completes only what was executed.
LEMMA UpdateStep ==
    ASSUME TypeOK, StageInv, OwnInv, NEW r \in Runners, MarkParent(r) \/ Close(r)
    PROVE  /\ SameLineage
           /\ \A u \in Task..Command : \A n \in DOMAIN rows[u] :
                 \/ rows'[u][n].status = rows[u][n].status
                 \/ rows'[u][n].status = "processing"
                 \/ Earned(u, n)
           /\ UNCHANGED <<event, messages, voiced, told>>
<1> DEFINE t == run[r].table
           i == run[r].i
<1>0. Stage(run[r])
  BY DEF StageInv
<1>1. /\ run[r] \in Runs /\ t \in Tables /\ i \in Nat /\ i >= 1 /\ i <= NPlans
      /\ rows \in [Tables -> Seq(Rows)]
  <2>1. run \in [Runners -> Runs] /\ rows \in [Tables -> Seq(Rows)]
    BY DEF TypeOK
  <2> QED
    BY <2>1, RunTyped
<1>2. \A u \in Task..Command : u \in Tables
  BY Below
<1>3. CASE MarkParent(r)
  <2> DEFINE s == IF t = Execution THEN "completed" ELSE "processing"
             u == t - 1
             x == run[r].made[u][i]
  <2>1. At(r, "mark") /\ t \in Action..Execution /\ run[r].restoring = FALSE
    BY <1>0, <1>1, <1>3, RunTyped DEF MarkParent, Stage, At
  <2>2. /\ u \in Task..Command /\ u \in Task..Execution /\ t \in Task..Execution
        /\ t = u + 1 /\ t \in 2..4 /\ (t = Execution => u = Command)
    BY <2>1, Numbers
  <2>3. Planned(run[r], u) = NPlans /\ Planned(run[r], t) = i
    BY <2>1, <2>2, Numbers DEF Planned, Begun, Working, At
  <2>4. s \in Statuses /\ UpdateStatus(u, x, s)
    BY <1>3 DEF MarkParent, Statuses
  <2>5. s = "processing" \/ (s = "completed" /\ u = Command)
    BY <2>2
  <2> HIDE DEF t, u, s
  <2>6. i \in DOMAIN run[r].made[u] /\ x \in DOMAIN rows[u] /\ i \in DOMAIN run[r].made[t]
    BY <1>0, <1>1, <2>2, <2>3, ItemMade
  <2>7. i \in DOMAIN run[r].made[u + 1]
    BY <2>2, <2>6
  <2>8. u = Command => Earned(u, x)
    <3>1. run[r].made[u + 1][i] \in Children(u, x)
      BY <2>2, <2>6, <2>7, ChildMade
    <3> HIDE DEF x
    <3>2. u = Command => Children(Command, x) # {}
      BY <3>1
    <3> QED
      BY <3>2, Numbers DEF Earned
  <2> HIDE DEF x
  <2>9. /\ SameLineage /\ UNCHANGED <<event, messages, voiced, told>>
        /\ \A v \in Tables : \A n \in DOMAIN rows[v] :
              \/ rows'[v][n].status = rows[v][n].status
              \/ v = u /\ n = x /\ rows'[v][n].status = s
    BY <1>1, <1>2, <2>2, <2>4, <2>6, StatusUpdated
  <2> QED
    BY <1>2, <2>5, <2>8, <2>9
<1>4. CASE Close(r)
  <2> DEFINE x == run[r].made[t][i]
  <2>1. At(r, "close") /\ t \in Task..Action /\ run[r].restoring = FALSE
    BY <1>0, <1>1, <1>4, RunTyped DEF Close, Stage, At
  <2>2. /\ t \in Task..Command /\ t \in Task..Execution
        /\ t = Task \/ t = Action
        /\ Task + 1 = Action /\ Action + 1 = Command /\ Command + 1 = Execution
        /\ Action \in Task..Command /\ Command \in Task..Command /\ Task \in Task..Command
        /\ Execution \in Task..Execution
        /\ Action # Command /\ Task # Command /\ Task # Action
    BY <2>1, Numbers
  <2>3. \A u \in Task..Execution : Planned(run[r], u) = NPlans
    BY <2>1 DEF Planned, Begun, Working, At
  <2>4. \A u \in Task..Execution : i \in DOMAIN run[r].made[u]
    BY <1>0, <1>1, <2>3, ItemMade
  <2>5. \A u \in Task..Command : run[r].made[u + 1][i] \in Children(u, run[r].made[u][i])
    BY <2>4, ChildMade, Below
  <2>6. x \in DOMAIN rows[t]
    BY <1>0, <1>1, <2>2, <2>3, ItemMade
  <2>7. /\ run[r].made[Action][i] \in Children(Task, run[r].made[Task][i])
        /\ run[r].made[Command][i] \in Children(Action, run[r].made[Action][i])
        /\ Children(Command, run[r].made[Command][i]) # {}
    BY <2>2, <2>5
  <2>8. Earned(t, x)
    <3>1. CASE t = Action
      BY <2>2, <2>7, <3>1 DEF Earned
    <3>2. CASE t = Task
      BY <2>2, <2>7, <3>2 DEF Earned
    <3> QED
      BY <2>2, <3>1, <3>2
  <2>9. UpdateStatus(t, x, "completed") /\ "completed" \in Statuses
    BY <1>4 DEF Close, Statuses
  <2> HIDE DEF t, x
  <2>10. /\ SameLineage /\ UNCHANGED <<event, messages, voiced, told>>
         /\ \A v \in Tables : \A n \in DOMAIN rows[v] :
               \/ rows'[v][n].status = rows[v][n].status
               \/ v = t /\ n = x /\ rows'[v][n].status = "completed"
    BY <1>1, <1>2, <2>2, <2>6, <2>9, StatusUpdated
  <2> QED
    BY <1>2, <2>8, <2>10
<1> QED
  BY <1>3, <1>4

\* Every other step leaves the lineage as it is.
LEMMA OtherStep ==
    ASSUME TypeOK, [Next]_vars,
           ~\E r \in Runners : AddRow(r) \/ AddRowUnseen(r) \/ MarkParent(r) \/ Close(r)
    PROVE  \A u \in Task..Execution : rows'[u] = rows[u]
<1>1. rows' = rows \/ \E row : rows' = [rows EXCEPT ![Summary] = Append(@, row)]
  BY DEF Next, Trigger, Work, ListRows, InspectMessages, BeginProcessing,
         AddRowFails, Say, Tell, BroadcastExecutions, AddSummary,
         FinishRound, BroadcastStatus, PostAsRole, Crash, vars, store
<1>2. \A u \in Task..Execution : u # Summary /\ u \in Tables
  BY Numbers
<1>3. rows \in [Tables -> Seq(Rows)]
  BY DEF TypeOK
<1> QED
  BY <1>1, <1>2, <1>3

\* Only an insert for the plan adds to what the runs have created.
LEMMA MadeStep ==
    ASSUME TypeOK, StageInv, [Next]_vars, ~\E r \in Runners : AddRow(r)
    PROVE  MadeKept
<1>1. ASSUME NEW r \in Runners, Trigger(r) \/ Work(r)
      PROVE  MadeKept
  BY <1>1, RunnerStep
<1>2. CASE Crash
  BY <1>2, IdleTyped DEF Crash, MadeKept
<1>3. CASE PostAsRole \/ UNCHANGED vars
  BY <1>3 DEF PostAsRole, vars, MadeKept
<1> QED
  BY <1>1, <1>2, <1>3 DEF Next

\* Every step keeps rows with the one run that made them.
LEMMA OwnStep ==
    ASSUME TypeOK, StageInv, OwnInv, [Next]_vars
    PROVE  OwnInv'
<1>1. CASE \E r \in Runners : AddRow(r)
  BY <1>1, OwnAdded
<1>2. CASE \E r \in Runners : AddRowUnseen(r)
  BY <1>2, OwnUnseen
<1>3. CASE ~\E r \in Runners : AddRow(r) \/ AddRowUnseen(r)
  <2>1. MadeKept
    BY <1>3, MadeStep
  <2>2. SameLineage
    <3>1. CASE \E r \in Runners : MarkParent(r) \/ Close(r)
      BY <3>1, UpdateStep
    <3>2. CASE ~\E r \in Runners : MarkParent(r) \/ Close(r)
      BY <1>3, <3>2, OtherStep DEF SameLineage
    <3> QED
      BY <3>1, <3>2
  <2> QED
    BY <2>1, <2>2, OwnKept
<1> QED
  BY <1>1, <1>2, <1>3

\* Overlapping runs keep to lineages of their own (RunAgentWorkflow).
THEOREM OwnLineage == Spec => []OwnInv
<1>1. Init => OwnInv
  <2> SUFFICES ASSUME Init PROVE OwnInv
    OBVIOUS
  <2>1. \A r \in Runners : \A u \in Task..Execution : DOMAIN run[r].made[u] = {}
    <3>1. \A u \in Task..Execution : DOMAIN NoneMade[u] = {}
      BY EmptySeq DEF NoneMade
    <3>2. \A r \in Runners : run[r] = Idle
      BY DEF Init
    <3> QED
      BY <3>1, <3>2, IdleTyped
  <2>2. \A u \in Task..Command : DOMAIN rows[u + 1] = {}
    BY Below, EmptySeq DEF Init
  <2>3. \A u \in Task..Command : u \in Task..Execution
    BY Below
  <2> QED
    BY <2>1, <2>2, <2>3 DEF OwnInv, Sole, Numbered, Continued, LineageIsTidy
<1>2. TypeOK /\ StageInv /\ OwnInv /\ [Next]_vars => OwnInv'
  BY OwnStep
<1> QED
  BY <1>1, <1>2, Typing, PTL DEF Spec

\* A row has at most one row under it, and that one belongs to a row that
\* exists: no run works on the rows of another (AddAction, AddCommand,
\* AddExecution with the ids the run itself has got).
THEOREM TidyLineage == Spec => []LineageIsTidy
<1>1. OwnInv => LineageIsTidy
  BY DEF OwnInv
<1> QED
  BY <1>1, OwnLineage, PTL

\* Every step keeps completion earned.
LEMMA CompletionStep ==
    ASSUME TypeOK, StageInv, OwnInv, CompletionIsEarned, [Next]_vars
    PROVE  CompletionIsEarned'
<1>0. \A t \in Task..Command : \A n \in DOMAIN rows[t] :
          rows[t][n].status = "completed" => Earned(t, n)
  BY DEF CompletionIsEarned, Earned
<1>1. RowsStay
  BY TypingStep
<1> SUFFICES ASSUME NEW t \in Task..Command, NEW n \in DOMAIN rows'[t],
                    rows'[t][n].status = "completed"
             PROVE  Earned(t, n)'
  BY DEF CompletionIsEarned, Earned
<1>2. t \in Task..Execution /\ t \in Tables /\ t # Execution
  BY Below
<1>3. ASSUME n \in DOMAIN rows[t], rows[t][n].status = "completed" \/ Earned(t, n)
      PROVE  Earned(t, n)'
  BY <1>0, <1>1, <1>3, EarnedStays
<1>4. ASSUME NEW r \in Runners, AddRow(r)
      PROVE  Earned(t, n)'
  <2> DEFINE u == run[r].table
             k == Len(rows[u]) + 1
  <2>1. /\ \A v \in Tables \ {u} : rows'[v] = rows[v]
        /\ DOMAIN rows'[u] = DOMAIN rows[u] \cup {k}
        /\ \A m \in DOMAIN rows[u] : rows'[u][m] = rows[u][m]
        /\ rows'[u][k].status = "completed" => u = Execution
    BY <1>4, AddRowStep DEF StageInv
  <2> HIDE DEF u, k
  <2>2. n \in DOMAIN rows[t] /\ rows'[t][n] = rows[t][n]
    BY <1>2, <2>1
  <2> QED
    BY <1>3, <2>2
<1>5. ASSUME NEW r \in Runners, MarkParent(r) \/ Close(r)
      PROVE  Earned(t, n)'
  <2>1. n \in DOMAIN rows[t]
    BY <1>2, <1>5, UpdateStep DEF SameLineage
  <2>2. \/ rows'[t][n].status = rows[t][n].status
        \/ rows'[t][n].status = "processing"
        \/ Earned(t, n)
    BY <1>5, <2>1, UpdateStep
  <2> QED
    BY <1>3, <2>1, <2>2
<1>6. ASSUME NEW r \in Runners, AddRowUnseen(r)
      PROVE  Earned(t, n)'
  <2> DEFINE u == run[r].table
             k == Len(rows[u]) + 1
  <2>1. /\ \A v \in Tables \ {u} : rows'[v] = rows[v]
        /\ DOMAIN rows'[u] = DOMAIN rows[u] \cup {k}
        /\ \A m \in DOMAIN rows[u] : rows'[u][m] = rows[u][m]
        /\ rows'[u][k].status = "completed" => u = Execution \/ u = Summary
    BY <1>6, UnseenStep DEF StageInv
  <2> HIDE DEF u, k
  <2>2. t # Summary
    BY Numbers
  <2>3. n \in DOMAIN rows[t] /\ rows'[t][n] = rows[t][n]
    BY <1>2, <2>1, <2>2
  <2> QED
    BY <1>3, <2>3
<1>7. CASE ~\E r \in Runners : AddRow(r) \/ AddRowUnseen(r) \/ MarkParent(r) \/ Close(r)
  BY <1>2, <1>3, <1>7, OtherStep
<1> QED
  BY <1>4, <1>5, <1>6, <1>7

\* What is shown as completed was executed, whatever ran at the same time,
\* failed or stopped (UpdateTask, UpdateAction, UpdateCommand).
THEOREM CompletedWasExecuted == Spec => []CompletionIsEarned
<1>1. Init => CompletionIsEarned
  <2>1. Init => \A t \in Task..Command : DOMAIN rows[t] = {}
    BY Below, EmptySeq DEF Init
  <2> QED
    BY <2>1 DEF CompletionIsEarned
<1>2. TypeOK /\ StageInv /\ OwnInv /\ CompletionIsEarned /\ [Next]_vars
          => CompletionIsEarned'
  BY CompletionStep
<1> QED
  BY <1>1, <1>2, Typing, OwnLineage, PTL DEF Spec

\* The event is shown as finished only with a summary and a whole plan
\* executed (FinishRound at the end of RunAgentWorkflow).
THEOREM FinishedIsWhole == Spec => []FinishedRoundIsWhole
<1>1. Init => FinishedRoundIsWhole
  BY DEF Init, FinishedRoundIsWhole
<1>2. ASSUME TypeOK, StageInv, OwnInv, FinishedRoundIsWhole, [Next]_vars
      PROVE  FinishedRoundIsWhole'
  <2>0. Summary \in Tables /\ Execution \in Tables /\ Execution \in Task..Execution
    BY Numbers
  <2>1. /\ Len(rows[Execution]) \in Nat /\ Len(rows'[Execution]) \in Nat
        /\ Len(rows[Execution]) <= Len(rows'[Execution])
        /\ rows[Summary] # <<>> => rows'[Summary] # <<>>
    BY <1>2, <2>0, TypingStep DEF RowsStay
  <2>2. CASE \E r \in Runners : FinishRound(r)
    <3>1. PICK r \in Runners : FinishRound(r)
      BY <2>2
    <3>2. /\ Stage(run[r]) /\ At(r, "finish") /\ run[r].table = Summary
          /\ run[r].restoring = FALSE /\ run[r] \in Runs
      BY <1>2, <3>1, RunTyped DEF StageInv, FinishRound, At, Stage, TypeOK
    <3>3. rows[Summary] # <<>>
      BY <3>2 DEF Stage, At
    <3>4. NPlans <= Planned(run[r], Execution) /\ NPlans \in Nat /\ 1 <= NPlans
      BY <3>2, Numbers DEF Planned, Begun, Working, At
    <3> DEFINE x == run[r].made[Execution][NPlans]
    <3>5. /\ NPlans \in DOMAIN run[r].made[Execution]
          /\ x \in DOMAIN rows[Execution] /\ x \in Nat
      BY <1>2, <2>0, <3>2, <3>4, ItemMade
    <3>6. x >= NPlans
      BY <1>2, <2>0, <3>5 DEF OwnInv, Numbered
    <3>7. rows[Execution] \in Seq(Rows)
      BY <1>2, <2>0 DEF TypeOK
    <3>8. x \in 1..Len(rows[Execution])
      BY <3>5, <3>7, LenProperties
    <3> HIDE DEF x
    <3> QED
      BY <2>1, <3>3, <3>4, <3>6, <3>8 DEF FinishedRoundIsWhole
  <2>3. CASE ~\E r \in Runners : FinishRound(r)
    <3>1. event' = event \/ event' = "processing"
      BY <1>2, <2>3
         DEF Next, Trigger, Work, ListRows, InspectMessages, BeginProcessing, AddRow,
             AddRowFails, AddRowUnseen, MarkParent, Close, UpdateStatus, Say, Tell,
             BroadcastExecutions, AddSummary, BroadcastStatus, PostAsRole, Crash,
             vars, store
    <3> QED
      BY <1>2, <2>1, <3>1, Numbers DEF FinishedRoundIsWhole
  <2> QED
    BY <2>2, <2>3
<1> QED
  BY <1>1, <1>2, Typing, OwnLineage, PTL DEF Spec

-----------------------------------------------------------------------------
(* What is said is stored, what is told was said.                          *)

\* The runs about to tell of a message of table t.
Tellers(t) == {r \in Runners : At(r, "tell") /\ run[r].table = t}

TellInv ==
    \A t \in Tables :
        /\ IsFiniteSet(Tellers(t))
        /\ told[t] + Cardinality(Tellers(t)) <= messages[t]
        /\ messages[t] > 0 => rows[t] # <<>>

\* The place a run goes to.
LEMMA GotoPlace ==
    ASSUME run \in [Runners -> Runs], NEW r \in Runners, NEW s, NEW t, NEW n, Goto(r, s, t, n)
    PROVE  run'[r].pc = s /\ run'[r].table = t
BY DEF Goto, Runs

\* After a message a run goes on to the next thing to say or do.
LEMMA AfterQuiet ==
    ASSUME run \in [Runners -> Runs], NEW r \in Runners, AfterMessage(r, run[r].table)
    PROVE  run'[r].pc # "tell"
<1> DEFINE t == run[r].table
<1>1. t \in Tables /\ (t # Summary => t + 1 \in Tables)
  <2>1. t \in Tables
    BY RunTyped
  <2> HIDE DEF t
  <2> QED
    BY <2>1, Numbers
<1>2. CASE Return(r)
  BY <1>2, ReturnEffect, IdleTyped
<1>3. CASE t # Summary /\ RestoreFrom(r, t + 1)
  BY <1>1, <1>3, RestoreEffect, IdleTyped
<1>4. CASE \E s \in {"finish", "notify", "add"} : \E u : Goto(r, s, u, 1)
  BY <1>4, GotoPlace
<1> QED
  BY <1>2, <1>3, <1>4 DEF AfterMessage

\* Only a stored message makes a run tell of it.
LEMMA TellBegins ==
    ASSUME TypeOK, NEW r \in Runners, Trigger(r) \/ Work(r), run'[r].pc = "tell"
    PROVE  /\ At(r, "say") /\ run'[r].table = run[r].table
           /\ messages' = [messages EXCEPT ![run[r].table] = @ + 1]
           /\ told' = told
<1>0. run \in [Runners -> Runs] /\ Task \in Tables
  BY Numbers DEF TypeOK
<1>1. ASSUME Return(r) \/ RestoreFrom(r, Task) \/ ListRows(r) \/ AfterMessage(r, run[r].table)
      PROVE  FALSE
  BY <1>0, <1>1, ReturnEffect, RestoreEffect, ListEffect, IdleTyped, AfterQuiet
<1>2. ASSUME NEW s, NEW t, NEW n, Goto(r, s, t, n)
      PROVE  s = "tell" /\ run'[r].table = t
  BY <1>0, <1>2, GotoPlace
<1>3. CASE AddRow(r)
  <2>1. run'[r].pc \in {"mark", "add", "say"}
    BY <1>0, <1>3 DEF AddRow, Runs
  <2> QED
    BY <2>1
<1>4. CASE \/ Trigger(r) \/ InspectMessages(r) \/ BeginProcessing(r) \/ AddRowFails(r)
           \/ AddRowUnseen(r) \/ BroadcastExecutions(r) \/ AddSummary(r) \/ FinishRound(r) \/ BroadcastStatus(r)
  BY <1>1, <1>2, <1>4
     DEF Trigger, InspectMessages, BeginProcessing, AddRowFails, AddRowUnseen,
         BroadcastExecutions, AddSummary, FinishRound, BroadcastStatus
<1>5. CASE MarkParent(r) \/ Close(r)
  BY <1>2, <1>5 DEF MarkParent, Close
<1>6. CASE Tell(r)
  BY <1>1, <1>6 DEF Tell
<1>7. CASE Say(r)
  <2>1. /\ At(r, "say") /\ told' = told
        /\ \/ /\ messages' = [messages EXCEPT ![run[r].table] = @ + 1]
              /\ Goto(r, "tell", run[r].table, 1)
           \/ AfterMessage(r, run[r].table)
    BY <1>7 DEF Say, outside
  <2> QED
    BY <1>1, <1>2, <2>1
<1> QED
  BY <1>1, <1>3, <1>4, <1>5, <1>6, <1>7 DEF Work

\* Only Say adds to the messages, only Tell to the notifications.
LEMMA CountersStep ==
    ASSUME NEW r \in Runners, Trigger(r) \/ Work(r)
    PROVE  /\ messages' = messages \/ (Say(r) /\ messages' = [messages EXCEPT ![run[r].table] = @ + 1])
           /\ told' = told \/ (Tell(r) /\ told' = [told EXCEPT ![run[r].table] = @ + 1])
BY DEF Trigger, Work, ListRows, InspectMessages, BeginProcessing, AddRow,
       AddRowFails, AddRowUnseen, MarkParent, Close, Say, Tell, BroadcastExecutions,
       AddSummary, FinishRound, BroadcastStatus, UpdateStatus, store, outside

\* Every step keeps the count of messages told.
LEMMA TellStep ==
    ASSUME TypeOK, StageInv, TellInv, [Next]_vars
    PROVE  TellInv'
<1> SUFFICES ASSUME NEW t \in Tables
             PROVE  /\ IsFiniteSet(Tellers(t)')
                    /\ told'[t] + Cardinality(Tellers(t)') <= messages'[t]
                    /\ messages'[t] > 0 => rows'[t] # <<>>
  BY DEF TellInv
<1>1. /\ told[t] \in Nat /\ messages[t] \in Nat
      /\ IsFiniteSet(Tellers(t)) /\ Cardinality(Tellers(t)) \in Nat
      /\ told[t] + Cardinality(Tellers(t)) <= messages[t]
      /\ messages[t] > 0 => rows[t] # <<>>
  BY FS_CardinalityType DEF TypeOK, TellInv
<1>2. rows[t] # <<>> => rows'[t] # <<>>
  BY TypingStep DEF RowsStay
<1>3. run \in [Runners -> Runs] /\ messages \in [Tables -> Nat] /\ told \in [Tables -> Nat]
  BY DEF TypeOK
\* Nobody starts to tell or has told.
<1>4. ASSUME Tellers(t)' \subseteq Tellers(t), told'[t] = told[t],
             \/ messages'[t] = messages[t]
             \/ messages'[t] = messages[t] + 1 /\ rows[t] # <<>>
      PROVE  /\ IsFiniteSet(Tellers(t)')
             /\ told'[t] + Cardinality(Tellers(t)') <= messages'[t]
             /\ messages'[t] > 0 => rows'[t] # <<>>
  <2>1. /\ IsFiniteSet(Tellers(t)') /\ Cardinality(Tellers(t)') <= Cardinality(Tellers(t))
    BY <1>1, <1>4, FS_Subset
  <2>2. Cardinality(Tellers(t)') \in Nat
    BY <2>1, FS_CardinalityType
  <2> QED
    BY <1>1, <1>2, <1>4, <2>1, <2>2
<1>5. ASSUME NEW r \in Runners, Trigger(r) \/ Work(r)
      PROVE  /\ IsFiniteSet(Tellers(t)')
             /\ told'[t] + Cardinality(Tellers(t)') <= messages'[t]
             /\ messages'[t] > 0 => rows'[t] # <<>>
  <2>1. \A s \in Runners \ {r} : run'[s] = run[s]
    BY <1>5, RunnerStep DEF Good, OthersWait
  <2>2. CASE Say(r) /\ messages' # messages /\ AfterMessage(r, run[r].table)
    <3>1. /\ messages' = [messages EXCEPT ![run[r].table] = @ + 1] /\ told' = told
          /\ At(r, "say")
      BY <1>5, <2>2, CountersStep DEF Say, outside
    <3>2. Tellers(t)' \subseteq Tellers(t)
      BY <1>3, <2>1, <2>2, AfterQuiet DEF Tellers, At
    <3>3. told'[t] = told[t]
      BY <3>1
    <3>4. \/ messages'[t] = messages[t]
          \/ messages'[t] = messages[t] + 1 /\ t = run[r].table
      BY <1>3, <3>1
    <3>5. rows[run[r].table] # <<>>
      BY <3>1 DEF StageInv, Stage, At
    <3> QED
      BY <1>4, <3>2, <3>3, <3>4, <3>5
  <2>4. CASE Say(r) /\ messages' # messages /\ ~AfterMessage(r, run[r].table)
    <3>1. /\ messages' = [messages EXCEPT ![run[r].table] = @ + 1] /\ told' = told
          /\ Goto(r, "tell", run[r].table, 1) /\ At(r, "say")
      BY <2>4 DEF Say, outside
    <3>2. run'[r].pc = "tell" /\ run'[r].table = run[r].table
      BY <1>3, <3>1, GotoPlace
    <3>3. CASE t = run[r].table
      <4>1. Tellers(t)' = Tellers(t) \cup {r} /\ r \notin Tellers(t)
        BY <2>1, <3>1, <3>2, <3>3 DEF Tellers, At
      <4>2. /\ IsFiniteSet(Tellers(t)')
            /\ Cardinality(Tellers(t)') = Cardinality(Tellers(t)) + 1
        BY <1>1, <4>1, FS_AddElement
      <4>3. messages'[t] = messages[t] + 1 /\ told'[t] = told[t]
        BY <1>3, <3>1, <3>3
      <4>4. rows[t] # <<>>
        BY <3>1, <3>3 DEF StageInv, Stage, At
      <4> QED
        BY <1>1, <1>2, <4>2, <4>3, <4>4
    <3>4. CASE t # run[r].table
      <4>1. Tellers(t)' \subseteq Tellers(t)
        BY <2>1, <3>2, <3>4 DEF Tellers, At
      <4>2. messages'[t] = messages[t] /\ told'[t] = told[t]
        BY <1>3, <3>1, <3>4
      <4> QED
        BY <1>4, <4>1, <4>2
    <3> QED
      BY <3>3, <3>4
  <2>3. CASE messages' = messages
    <3>0. messages'[t] = messages[t]
      BY <2>3
    <3>1. run'[r].pc # "tell"
      <4>1. run[r].table \in Tables /\ messages[run[r].table] \in Nat
        BY <1>3, RunTyped
      <4>2. messages[run[r].table] + 1 # messages[run[r].table]
        BY <4>1
      <4> QED
        BY <1>3, <1>5, <2>3, <4>1, <4>2, TellBegins
    <3>2. Tellers(t)' \subseteq Tellers(t) \ {r}
      BY <2>1, <3>1 DEF Tellers, At
    <3>3. CASE told' = told
      BY <1>4, <3>0, <3>2, <3>3
    <3>4. CASE told' # told
      <4>1. Tell(r) /\ told' = [told EXCEPT ![run[r].table] = @ + 1]
        BY <1>5, <3>4, CountersStep
      <4>2. CASE t = run[r].table
        <5>1. r \in Tellers(t)
          BY <4>1, <4>2 DEF Tell, Tellers
        <5>2. /\ IsFiniteSet(Tellers(t) \ {r})
              /\ Cardinality(Tellers(t) \ {r}) = Cardinality(Tellers(t)) - 1
          BY <1>1, <5>1, FS_RemoveElement
        <5>3. /\ IsFiniteSet(Tellers(t)')
              /\ Cardinality(Tellers(t)') <= Cardinality(Tellers(t) \ {r})
          BY <3>2, <5>2, FS_Subset
        <5>4. Cardinality(Tellers(t)') \in Nat
          BY <5>3, FS_CardinalityType
        <5>5. told'[t] = told[t] + 1
          BY <1>3, <4>1, <4>2
        <5> QED
          BY <1>1, <1>2, <3>0, <5>2, <5>3, <5>4, <5>5
      <4>3. CASE t # run[r].table
        BY <1>3, <1>4, <3>0, <3>2, <4>1, <4>3
      <4> QED
        BY <4>2, <4>3
    <3> QED
      BY <3>3, <3>4
  <2> QED
    BY <1>5, <2>2, <2>3, <2>4, CountersStep
<1>6. CASE Crash
  <2>1. Tellers(t)' = {} /\ told' = told /\ messages' = messages
    BY <1>6, IdleTyped DEF Crash, store, outside, Tellers, At
  <2> QED
    BY <1>4, <2>1
<1>7. CASE PostAsRole \/ UNCHANGED vars
  <2>1. UNCHANGED <<run, told, messages>>
    BY <1>7 DEF PostAsRole, vars, store, outside
  <2>2. Tellers(t)' = Tellers(t)
    BY <2>1 DEF Tellers, At
  <2> QED
    BY <1>4, <2>1, <2>2
<1> QED
  BY <1>5, <1>6, <1>7 DEF Next

\* The chat speaks of what is stored, and nobody is notified of a message
\* that is not (addAgentMessage).
THEOREM WhatIsSaidIsStored == Spec => []SpokenIsStored
<1>1. Init => TellInv
  <2> SUFFICES ASSUME Init, NEW t \in Tables
               PROVE  /\ IsFiniteSet(Tellers(t))
                      /\ told[t] + Cardinality(Tellers(t)) <= messages[t]
                      /\ messages[t] > 0 => rows[t] # <<>>
    BY DEF TellInv
  <2>1. Tellers(t) = {} /\ told[t] = 0 /\ messages[t] = 0
    BY IdleTyped DEF Init, Tellers, At
  <2> QED
    BY <2>1, FS_EmptySet
<1>2. TypeOK /\ StageInv /\ TellInv /\ [Next]_vars => TellInv'
  BY TellStep
<1>3. TypeOK /\ TellInv => SpokenIsStored
  <2> SUFFICES ASSUME TypeOK, TellInv, NEW t \in Tables
               PROVE  /\ messages[t] > 0 => rows[t] # <<>>
                      /\ told[t] <= messages[t]
    BY DEF SpokenIsStored
  <2>1. /\ told[t] \in Nat /\ messages[t] \in Nat /\ Cardinality(Tellers(t)) \in Nat
        /\ told[t] + Cardinality(Tellers(t)) <= messages[t]
    BY FS_CardinalityType DEF TypeOK, TellInv
  <2> QED
    BY <2>1 DEF TellInv
<1> QED
  BY <1>1, <1>2, <1>3, Typing, PTL DEF Spec

-----------------------------------------------------------------------------
(* No more rounds than goroutines, when no store call fails.               *)

\* The run works through a plan, or will: it saw no task when it looked.
Committed(q) ==
    \/ Begun(q)
    \/ q.pc = "begin"
    \/ q.pc = "list" /\ q.table # Task /\ ~q.seen[Task]

\* A run in this place has said what there is to say of table t.
HasSaid(q, t) ==
    \/ q.pc \in {"add", "mark", "say"} /\ t < q.table
    \/ q.pc = "tell" /\ t <= q.table
    \/ q.pc = "close" /\ t < Execution
    \/ q.pc \in {"notify", "summarize"} /\ t < Summary
    \/ q.pc \in {"finish", "status"}

\* It has added its summary.
Concluded(q) ==
    q.pc \in {"finish", "status"} \/ (q.pc \in {"say", "tell"} /\ q.table = Summary)

\* Rows of the next table come after the message about this one, so a run
\* that finds no message has no more than the tasks to speak of.
ChatInv ==
    /\ \A t \in Task..Execution : rows[t + 1] # <<>> => messages[t] > 0
    /\ \A r \in Runners :
          /\ Begun(run[r]) => \A t \in Tables : HasSaid(run[r], t) => messages[t] > 0
          /\ run[r].restoring => /\ run[r].table = Task /\ run[r].pc # "summarize"
                                 /\ \A t \in Tables : run[r].seen[t] => t = Task

\* A step of a run from q to p within a round.
Moved(q, p) ==
    /\ p.restoring = q.restoring /\ p.seen = q.seen
    /\ \/ q.pc = "begin" /\ p.pc = "add" /\ p.table = Task
       \/ /\ q.pc = "add" /\ p.table = q.table
          /\ (q.table = Task /\ p.pc \in {"add", "say"}) \/ (q.table # Task /\ p.pc = "mark")
       \/ q.pc = "mark" /\ p.pc = "add" /\ p.table = q.table
       \/ q.pc = "mark" /\ q.table = Execution /\ p.pc = "close"
       \/ q.pc = "mark" /\ q.table # Execution /\ p.pc = "say" /\ p.table = q.table
       \/ q.pc = "close" /\ p.pc = "close"
       \/ q.pc = "close" /\ p.pc = "say" /\ p.table = Execution
       \/ q.pc = "say" /\ p.pc = "tell" /\ p.table = q.table
       \/ /\ q.pc = "tell" /\ ~q.restoring
          /\ \/ q.table < Execution /\ p.pc = "add" /\ p.table = q.table + 1
             \/ q.table = Execution /\ p.pc = "notify"
             \/ q.table = Summary /\ p.pc = "finish"
       \/ q.pc = "notify" /\ p.pc = "summarize"
       \/ q.pc = "summarize" /\ p.pc = "say" /\ p.table = Summary
       \/ q.pc = "finish" /\ p.pc = "status"

\* Going to a step changes the place only.
LEMMA GotoMoves ==
    ASSUME run \in [Runners -> Runs], NEW r \in Runners, NEW s, NEW t, NEW n, Goto(r, s, t, n)
    PROVE  /\ run'[r].pc = s /\ run'[r].table = t
           /\ run'[r].restoring = run[r].restoring /\ run'[r].seen = run[r].seen
BY DEF Goto, Runs

\* The steps of one runner, when no store call fails.
LEMMA Moves ==
    ASSUME ~StoreErrors, TypeOK, StageInv, ChatInv, NEW r \in Runners, Work(r)
    PROVE  \/ run'[r] = Idle
           \/ ListRows(r)
           \/ /\ InspectMessages(r) /\ \A t \in Tables : messages[t] = 0
              /\ run'[r].restoring = TRUE /\ run'[r].seen = run[r].seen
              /\ run'[r].pc = "say" /\ run'[r].table = Task
              /\ \A t \in Tables : run'[r].seen[t] => t = Task
           \/ Moved(run[r], run'[r])
<1> DEFINE q == run[r]
           t == q.table
<1>0. /\ run \in [Runners -> Runs] /\ q \in Runs /\ t \in Tables
      /\ messages \in [Tables -> Nat] /\ Stage(q)
      /\ Task \in Tables /\ Execution \in Tables /\ Summary \in Tables
  <2>1. Task \in Tables /\ Execution \in Tables /\ Summary \in Tables
    BY Numbers
  <2>2. run \in [Runners -> Runs] /\ messages \in [Tables -> Nat]
    BY DEF TypeOK
  <2> QED
    BY <2>1, <2>2, RunTyped DEF StageInv
<1>1. ~CallFails
  BY DEF CallFails
<1>2. ASSUME Return(r)
      PROVE  run'[r] = Idle
  BY <1>0, <1>2, ReturnEffect
<1>3. CASE InspectMessages(r) /\ ~Return(r)
  <2>1. ~HasAgentWorkflowMessages /\ RestoreFrom(r, Task)
    BY <1>1, <1>3 DEF InspectMessages
  <2>2. \A u \in Tables : messages[u] = 0
    BY <1>0, <2>1 DEF HasAgentWorkflowMessages
  <2>3. \A u \in Task..Execution : rows[u + 1] = <<>>
    <3>1. \A u \in Task..Execution : u \in Tables
      BY Numbers
    <3> QED
      BY <2>2, <3>1 DEF ChatInv
  <2>4. \A u \in Tables : u # Task => rows[u] = <<>>
    <3> SUFFICES ASSUME NEW u \in Tables, u # Task PROVE rows[u] = <<>>
      OBVIOUS
    <3>1. u - 1 \in Task..Execution /\ (u - 1) + 1 = u
      BY Numbers
    <3> QED
      BY <2>3, <3>1
  <2>5. \A u \in Tables : q.seen[u] => u = Task
    BY <1>0, <2>4 DEF Stage
  <2>6. \/ run'[r] = Idle
        \/ /\ run'[r].restoring = TRUE /\ run'[r].seen = q.seen
           /\ run'[r].table \in Task..Summary
           /\ \/ run'[r].pc = "say" /\ q.seen[run'[r].table]
              \/ q.seen[Execution]
    BY <1>0, <2>1, RestoreEffect
  <2>7. Task..Summary = Tables /\ Execution # Task
    BY Numbers DEF Tables
  <2> QED
    BY <1>0, <1>3, <2>2, <2>5, <2>6, <2>7
<1>4. CASE BeginProcessing(r) \/ BroadcastExecutions(r) \/ AddSummary(r) \/ FinishRound(r)
  BY <1>0, <1>4, GotoMoves
     DEF BeginProcessing, BroadcastExecutions, AddSummary, FinishRound, Moved, At
<1>5. CASE AddRow(r)
  <2>1. t # Summary
    BY <1>0, <1>5 DEF AddRow, At, Stage
  <2>2. /\ run'[r].restoring = q.restoring /\ run'[r].seen = q.seen
        /\ run'[r].table = t
        /\ t = Task /\ q.i < NPlans => run'[r].pc = "add"
        /\ t = Task /\ q.i = NPlans => run'[r].pc = "say"
        /\ t # Task => run'[r].pc = "mark"
    BY <1>0, <1>5, <2>1, AddEffect DEF TypeOK
  <2>3. q.i < NPlans \/ q.i = NPlans
    BY <1>0, RunTyped, Numbers
  <2> QED
    BY <1>5, <2>2, <2>3 DEF Moved, AddRow, At
<1>6. CASE MarkParent(r) \/ Close(r)
  BY <1>0, <1>6, GotoMoves DEF MarkParent, Close, Moved, At
<1>7. CASE Say(r)
  BY <1>0, <1>1, <1>7, GotoMoves DEF Say, Moved, At
<1>8. CASE Tell(r)
  <2>1. CASE q.restoring
    <3>1. t = Task /\ Task # Summary /\ Task + 1 \in Tables /\ Task + 1 > Task
      BY <2>1, Numbers DEF ChatInv
    <3>2. RestoreFrom(r, Task + 1)
      BY <1>8, <2>1, <3>1 DEF Tell, AfterMessage
    <3>3. \/ run'[r] = Idle
          \/ run'[r].table \in Task + 1..Summary /\ q.seen[run'[r].table]
          \/ q.seen[Execution]
      BY <1>0, <3>1, <3>2, RestoreEffect
    <3>4. /\ \A u \in Tables : q.seen[u] => u = Task
          /\ \A u \in Task + 1..Summary : u \in Tables /\ u # Task
          /\ Execution # Task
      BY <2>1, Numbers DEF ChatInv
    <3> QED
      BY <1>0, <3>3, <3>4
  <2>2. CASE ~q.restoring
    <3>1. Goto(r, IF t = Summary THEN "finish"
                  ELSE IF t = Execution THEN "notify" ELSE "add",
               IF t < Execution THEN t + 1 ELSE t, 1)
      BY <1>8, <2>2 DEF Tell, AfterMessage
    <3>2. At(r, "tell")
      BY <1>8 DEF Tell
    <3>3. t < Execution \/ t = Execution \/ t = Summary
      BY <1>0, Numbers
    <3>4. Execution # Summary /\ (t < Execution => t # Execution /\ t # Summary)
      BY <1>0, Numbers
    <3>5. /\ run'[r].restoring = q.restoring /\ run'[r].seen = q.seen
          /\ t = Summary => run'[r].pc = "finish"
          /\ t = Execution => run'[r].pc = "notify"
          /\ t < Execution => run'[r].pc = "add" /\ run'[r].table = t + 1
      BY <1>0, <3>1, <3>4, GotoMoves
    <3> QED
      BY <2>2, <3>2, <3>3, <3>5 DEF Moved, At
  <2> QED
    BY <2>1, <2>2
<1>9. CASE AddRowFails(r) \/ AddRowUnseen(r) \/ BroadcastStatus(r)
  BY <1>1, <1>2, <1>9 DEF AddRowFails, AddRowUnseen, BroadcastStatus
<1> QED
  BY <1>2, <1>3, <1>4, <1>5, <1>6, <1>7, <1>8, <1>9 DEF Work

\* A run returns, or keeps what it has made.
LEMMA MadeMoves ==
    ASSUME TypeOK, NEW r \in Runners, Trigger(r) \/ Work(r), ~AddRow(r)
    PROVE  run'[r] = Idle \/ run'[r].made = run[r].made
<1>0. /\ run \in [Runners -> Runs] /\ run[r].table \in Tables
      /\ Task \in Tables /\ (run[r].table # Summary => run[r].table + 1 \in Tables)
  <2>1. Task \in Tables /\ \A t \in Tables : t # Summary => t + 1 \in Tables
    BY Numbers
  <2> QED
    BY <2>1, RunTyped DEF TypeOK
<1>1. ASSUME NEW s, NEW t, NEW n, Goto(r, s, t, n)
      PROVE  run'[r].made = run[r].made
  BY <1>0, <1>1 DEF Goto, Runs
<1>2. ASSUME NEW t \in Tables, RestoreFrom(r, t)
      PROVE  run'[r] = Idle \/ run'[r].made = run[r].made
  BY <1>0, <1>2, RestoreEffect
<1>3. ASSUME Return(r)
      PROVE  run'[r] = Idle
  BY <1>0, <1>3, ReturnEffect
<1>4. ASSUME ListRows(r)
      PROVE  run'[r].made = run[r].made
  BY <1>0, <1>4, ListEffect
<1>5. ASSUME AfterMessage(r, run[r].table)
      PROVE  run'[r] = Idle \/ run'[r].made = run[r].made
  BY <1>0, <1>1, <1>2, <1>3, <1>5 DEF AfterMessage
<1>6. CASE MarkParent(r) \/ Close(r)
  BY <1>1, <1>6 DEF MarkParent, Close
<1>7. CASE Say(r) \/ Tell(r)
  BY <1>1, <1>5, <1>7 DEF Say, Tell
<1>8. CASE InspectMessages(r)
  BY <1>0, <1>2, <1>3, <1>8 DEF InspectMessages
<1>9. CASE \/ Trigger(r) \/ BeginProcessing(r) \/ AddRowFails(r) \/ AddRowUnseen(r)
           \/ BroadcastExecutions(r) \/ AddSummary(r) \/ FinishRound(r) \/ BroadcastStatus(r)
  BY <1>1, <1>3, <1>9
     DEF Trigger, BeginProcessing, AddRowFails, AddRowUnseen, BroadcastExecutions,
         AddSummary, FinishRound, BroadcastStatus
<1> QED
  BY <1>4, <1>6, <1>7, <1>8, <1>9 DEF Work

\* What a step within a round means for what the run has said and done.
LEMMA MovedOn ==
    ASSUME NEW q \in Runs, NEW p \in Runs, Moved(q, p),
           q.pc = "mark" => q.table \in Action..Execution,
           q.pc = "close" => q.table \in Task..Action,
           q.pc = "notify" => q.table = Execution,
           q.pc \in {"summarize", "finish", "status"} => q.table = Summary,
           p.pc \in {"finish", "status"} => p.table = Summary
    PROVE  /\ Committed(p) => Committed(q)
           /\ Concluded(q) => Concluded(p)
           /\ \A t \in Tables :
                 /\ HasSaid(q, t) => HasSaid(p, t)
                 /\ HasSaid(p, t) => \/ HasSaid(q, t)
                                     \/ q.pc = "say" /\ p.pc = "tell" /\ q.table = t
           /\ Begun(p) => Begun(q) \/ q.pc = "begin"
<1>0. q.table \in 1..5 /\ p.table \in 1..5 /\ p.restoring = q.restoring
  BY RunTyped, Numbers DEF Moved
<1>1. Committed(p) => Committed(q)
  BY DEF Moved, Committed, Begun, Working
<1>2. Begun(p) => Begun(q) \/ q.pc = "begin"
  BY DEF Moved, Begun, Working
<1>3. Concluded(q) => Concluded(p)
  BY <1>0, Numbers DEF Moved, Concluded
<1> SUFFICES ASSUME NEW t \in Tables
             PROVE  /\ HasSaid(q, t) => HasSaid(p, t)
                    /\ HasSaid(p, t) => \/ HasSaid(q, t)
                                        \/ q.pc = "say" /\ p.pc = "tell" /\ q.table = t
  BY <1>1, <1>2, <1>3
<1>4. t \in 1..5
  BY Numbers
<1>5. HasSaid(q, t) => HasSaid(p, t)
  BY <1>0, <1>4, Numbers DEF Moved, HasSaid
<1>6. HasSaid(p, t) => \/ HasSaid(q, t)
                       \/ q.pc = "say" /\ p.pc = "tell" /\ q.table = t
  BY <1>0, <1>4, Numbers DEF Moved, HasSaid
<1> QED
  BY <1>5, <1>6

\* What a step of a runner means, from outside of a round too: nobody plans
\* unless there was no task, nobody restores unless nothing was said.
LEMMA Calm ==
    ASSUME ~StoreErrors, TypeOK, StageInv, ChatInv, NEW r \in Runners,
           Trigger(r) \/ Work(r)
    PROVE  LET q == run[r]
               p == run'[r]
           IN  /\ Committed(p) => \/ Committed(q)
                                  \/ ListRows(r) /\ rows[Task] = <<>>
               /\ Committed(p) /\ Concluded(q) => Concluded(p)
               /\ \A t \in Tables :
                     /\ Committed(p) /\ HasSaid(q, t) => HasSaid(p, t)
                     /\ Begun(p) /\ HasSaid(p, t) =>
                           \/ Begun(q) /\ HasSaid(q, t)
                           \/ q.pc = "say" /\ p.pc = "tell" /\ q.table = t
               /\ p.restoring /\ p.pc = "say" =>
                     InspectMessages(r) /\ \A t \in Tables : messages[t] = 0
               /\ p.restoring => /\ p.table = Task /\ p.pc # "summarize"
                                 /\ \A t \in Tables : p.seen[t] => t = Task
<1> DEFINE q == run[r]
           p == run'[r]
<1>0. /\ run \in [Runners -> Runs] /\ run' \in [Runners -> Runs]
      /\ q \in Runs /\ p \in Runs /\ Stage(q) /\ Stage(q)'
  BY RunnerStep DEF Good, TypeOK, StageInv
<1>1. \A t \in Tables : ~HasSaid(Idle, t)
  BY IdleTyped DEF HasSaid
<1>2. CASE p = Idle
  BY <1>2, IdleTyped DEF Committed, Begun, Working
<1>3. CASE Trigger(r)
  <2>1. /\ q.pc = "idle" /\ p.pc = "list" /\ p.table = Task
        /\ p.restoring = q.restoring
    BY <1>0, <1>3, GotoMoves DEF Trigger, At
  <2>2. ~p.restoring
    BY <1>0, <2>1 DEF Stage
  <2> QED
    BY <2>1, <2>2 DEF Committed, Begun, Working, HasSaid, Concluded
<1>4. CASE ListRows(r)
  <2>1. /\ p.restoring = q.restoring
        /\ q.table # Summary => p.pc = "list" /\ p.table = q.table + 1
        /\ q.table = Summary =>
              /\ p.table = Task
              /\ p.pc = IF p.seen[Task] \/ p.seen[Execution] THEN "inspect" ELSE "begin"
        /\ \A u \in Tables \ {q.table} : p.seen[u] = q.seen[u]
        /\ p.seen[q.table] <=> rows[q.table] # <<>>
    BY <1>0, <1>4, ListEffect
  <2>2. q.pc = "list" /\ ~q.restoring /\ p.pc \in {"list", "inspect", "begin"}
    BY <1>0, <1>4, <2>1 DEF ListRows, At, Stage
  <2>3. Task \in Tables /\ Task # Summary
    BY Numbers
  <2>4. ASSUME Committed(p)
        PROVE  Committed(q) \/ rows[Task] = <<>>
    <3>1. ~p.seen[Task]
      BY <2>1, <2>2, <2>4 DEF Committed, Begun, Working
    <3>2. CASE q.table = Task
      BY <2>1, <3>1, <3>2
    <3>3. CASE q.table # Task
      BY <2>1, <2>2, <2>3, <3>1, <3>3 DEF Committed
    <3> QED
      BY <3>2, <3>3
  <2> QED
    BY <1>4, <2>1, <2>2, <2>4 DEF Begun, Working, HasSaid, Concluded
<1>5. CASE /\ InspectMessages(r) /\ \A t \in Tables : messages[t] = 0
           /\ p.restoring = TRUE /\ p.seen = q.seen
           /\ p.pc = "say" /\ p.table = Task
           /\ \A t \in Tables : p.seen[t] => t = Task
  <2>1. ~Committed(p) /\ ~Begun(p)
    BY <1>5 DEF Committed, Begun
  <2> QED
    BY <1>5, <2>1
<1>6. CASE Moved(q, p)
  <2>1. /\ q.pc = "mark" => q.table \in Action..Execution
        /\ q.pc = "close" => q.table \in Task..Action
        /\ q.pc = "notify" => q.table = Execution
        /\ q.pc \in {"summarize", "finish", "status"} => q.table = Summary
        /\ q.restoring => q.pc \in {"say", "tell", "summarize"}
    BY <1>0 DEF Stage
  <2>2. p.pc \in {"finish", "status"} => p.table = Summary
    BY <1>0 DEF Stage
  <2>3. /\ Committed(p) => Committed(q)
        /\ Concluded(q) => Concluded(p)
        /\ \A t \in Tables :
              /\ HasSaid(q, t) => HasSaid(p, t)
              /\ HasSaid(p, t) => \/ HasSaid(q, t)
                                  \/ q.pc = "say" /\ p.pc = "tell" /\ q.table = t
        /\ Begun(p) => Begun(q) \/ q.pc = "begin"
    BY <1>0, <1>6, <2>1, <2>2, MovedOn
  <2>4. q.pc = "begin" => \A t \in Tables : ~HasSaid(q, t)
    BY DEF HasSaid
  <2>5. q.restoring => q.table = Task /\ q.pc # "summarize" /\ \A t \in Tables : q.seen[t] => t = Task
    BY DEF ChatInv
  <2>6. p.restoring = q.restoring /\ p.seen = q.seen
    BY <1>6 DEF Moved
  <2>7. q.restoring => p.pc = "tell" /\ p.table = Task
    BY <1>6, <2>1, <2>5 DEF Moved
  <2> HIDE DEF q, p
  <2> QED
    BY <2>3, <2>4, <2>5, <2>6, <2>7 DEF q, p
<1> QED
  BY <1>2, <1>3, <1>4, <1>5, <1>6, Moves

\* Only inserts add rows, and without failing calls the runs know of them.
LEMMA NothingAdded ==
    ASSUME ~StoreErrors, TypeOK, StageInv, NEW r \in Runners, Trigger(r) \/ Work(r),
           ~AddRow(r), ~AddSummary(r)
    PROVE  \A t \in Tables : /\ Len(rows'[t]) = Len(rows[t])
                             /\ rows[t] = <<>> => rows'[t] = <<>>
<1> SUFFICES ASSUME NEW t \in Tables
             PROVE  /\ Len(rows'[t]) = Len(rows[t])
                    /\ rows[t] = <<>> => rows'[t] = <<>>
  OBVIOUS
<1>1. /\ rows \in [Tables -> Seq(Rows)] /\ rows[t] \in Seq(Rows) /\ rows'[t] \in Seq(Rows)
  BY RunnerStep DEF Good, TypeOK
<1>2. CASE MarkParent(r) \/ Close(r)
  <2>1. PICK u, n, s : UpdateStatus(u, n, s)
    BY <1>2 DEF MarkParent, Close
  <2>2. rows' = rows \/ rows' = [rows EXCEPT ![u][n].status = s]
    BY <2>1 DEF UpdateStatus
  <2>3. DOMAIN rows'[t] = DOMAIN rows[t]
    BY <1>1, <2>2
  <2>4. Len(rows'[t]) = Len(rows[t])
    BY <1>1, <2>3, LenProperties
  <2> QED
    BY <1>1, <2>4, EmptySeq
<1>3. CASE ~(MarkParent(r) \/ Close(r))
  <2>1. ~AddRowUnseen(r)
    BY DEF AddRowUnseen, CallFails
  <2> QED
    BY <1>3, <2>1
       DEF Trigger, Work, ListRows, InspectMessages, BeginProcessing, AddRowFails,
           Say, Tell, BroadcastExecutions, FinishRound, BroadcastStatus, store
<1> QED
  BY <1>2, <1>3

\* Without failing calls every step keeps the messages a run counts on.
LEMMA ChatStep ==
    ASSUME ~StoreErrors, TypeOK, StageInv, ChatInv, [Next]_vars
    PROVE  ChatInv'
<1>0. /\ run \in [Runners -> Runs] /\ rows \in [Tables -> Seq(Rows)]
      /\ messages \in [Tables -> Nat]
  BY DEF TypeOK
<1>1. ASSUME NEW r \in Runners, Trigger(r) \/ Work(r)
      PROVE  ChatInv'
  <2> DEFINE q == run[r]
             p == run'[r]
  <2>0. \A s \in Runners \ {r} : run'[s] = run[s]
    BY <1>1, RunnerStep DEF Good, OthersWait
  <2>1. q \in Runs /\ q.table \in Tables /\ Stage(q)
    BY <1>0, RunTyped DEF StageInv
  <2>2. \A t \in Tables : messages[t] > 0 => messages'[t] > 0
    <3>1. messages' = messages \/ messages' = [messages EXCEPT ![q.table] = @ + 1]
      BY <1>1, CountersStep
    <3>2. \A t \in Tables : messages[t] \in Nat
      BY <1>0
    <3> QED
      BY <1>0, <2>1, <3>1, <3>2
  <2>3. ASSUME NEW t \in Task..Execution, rows[t + 1] = <<>>, rows'[t + 1] # <<>>
        PROVE  messages[t] > 0
    <3>0. /\ t \in Tables /\ t + 1 \in Tables /\ t \in 1..4
      BY Numbers
    <3>1. AddRow(r) \/ AddSummary(r)
      BY <1>1, <2>3, <3>0, NothingAdded
    <3>2. CASE AddRow(r)
      <4>1. q.restoring = FALSE /\ \A u \in Tables \ {q.table} : rows'[u] = rows[u]
        BY <2>1, <3>2, AddRowStep
      <4>2. q.table = t + 1 /\ q.pc = "add"
        BY <2>3, <3>0, <3>2, <4>1 DEF AddRow, At
      <4>3. Begun(q) /\ HasSaid(q, t)
        BY <3>0, <4>1, <4>2 DEF Begun, Working, HasSaid
      <4> QED
        BY <3>0, <4>3 DEF ChatInv
    <3>3. CASE AddSummary(r)
      <4>1. q.pc = "summarize" /\ ~q.restoring
        BY <3>3 DEF AddSummary, At, ChatInv
      <4>2. Begun(q) /\ HasSaid(q, t)
        BY <3>0, <4>1, Numbers DEF Begun, Working, HasSaid
      <4> QED
        BY <3>0, <4>2 DEF ChatInv
    <3> QED
      BY <3>1, <3>2, <3>3
  <2>4. \A t \in Task..Execution : rows'[t + 1] # <<>> => messages'[t] > 0
    <3>1. \A t \in Task..Execution : t \in Tables
      BY Numbers
    <3> QED
      BY <2>2, <2>3, <3>1 DEF ChatInv
  <2>5. ASSUME Begun(p), NEW t \in Tables, HasSaid(p, t)
        PROVE  messages'[t] > 0
    <3>1. \/ Begun(q) /\ HasSaid(q, t)
          \/ q.pc = "say" /\ p.pc = "tell" /\ q.table = t
      BY <1>1, <2>5, Calm
    <3>2. CASE Begun(q) /\ HasSaid(q, t)
      BY <2>2, <3>2 DEF ChatInv
    <3>3. CASE p.pc = "tell" /\ q.table = t
      <4>1. messages' = [messages EXCEPT ![t] = @ + 1] /\ messages[t] \in Nat
        BY <1>0, <1>1, <3>3, TellBegins
      <4> QED
        BY <1>0, <4>1
    <3> QED
      BY <3>1, <3>2, <3>3
  <2>6. p.restoring => /\ p.table = Task /\ p.pc # "summarize"
                       /\ \A t \in Tables : p.seen[t] => t = Task
    BY <1>1, Calm
  <2> HIDE DEF q, p
  <2>7. ASSUME NEW s \in Runners
        PROVE  /\ Begun(run'[s]) => \A t \in Tables : HasSaid(run'[s], t) => messages'[t] > 0
               /\ run'[s].restoring => /\ run'[s].table = Task /\ run'[s].pc # "summarize"
                                       /\ \A t \in Tables : run'[s].seen[t] => t = Task
    <3>1. CASE s = r
      BY <2>5, <2>6, <3>1 DEF p
    <3>2. CASE s # r
      BY <2>0, <2>2, <3>2 DEF ChatInv
    <3> QED
      BY <3>1, <3>2
  <2> QED
    BY <2>4, <2>7 DEF ChatInv, Begun, HasSaid
<1>2. CASE Crash
  <2>1. UNCHANGED <<rows, messages>> /\ \A r \in Runners : run'[r] = Idle
    BY <1>2 DEF Crash, store
  <2> QED
    BY <2>1, IdleTyped DEF ChatInv, Begun, Working, HasSaid
<1>3. CASE PostAsRole \/ UNCHANGED vars
  <2>1. UNCHANGED <<rows, messages, run>>
    BY <1>3 DEF PostAsRole, vars, store
  <2> QED
    BY <2>1 DEF ChatInv, Begun, HasSaid
<1> QED
  BY <1>1, <1>2, <1>3 DEF Next

\* The rows of table t, the summaries and the messages about table t that
\* the runs on their way may still add.
ToAdd(t) == {x \in Runners \X (1..NPlans) :
                 Committed(run[x[1]]) /\ x[2] > Len(run[x[1]].made[t])}
ToSummarize == {r \in Runners : Committed(run[r]) /\ ~Concluded(run[r])}
ToSay(t) == {r \in Runners : \/ Committed(run[r]) /\ ~HasSaid(run[r], t)
                             \/ run[r].restoring /\ At(r, "say") /\ run[r].table = t}

\* What there is and what may come is within what the goroutines can do.
BudgetInv ==
    /\ \A t \in Task..Execution :
          Len(rows[t]) + Cardinality(ToAdd(t)) <= Cardinality(Runners) * NPlans
    /\ Len(rows[Summary]) + Cardinality(ToSummarize) <= Cardinality(Runners)
    /\ \A t \in Tables : messages[t] + Cardinality(ToSay(t)) <= Cardinality(Runners)

\* The budget of N for what there is, c, and who may add to it, A.
LEMMA Budget ==
    ASSUME NEW N \in Nat, NEW c \in Nat, NEW d \in Nat, NEW A, NEW B,
           IsFiniteSet(A), c + Cardinality(A) <= N,
           (B \subseteq A /\ d = c) \/ (\E x \in A : B \subseteq A \ {x} /\ d = c + 1)
    PROVE  d + Cardinality(B) <= N
<1>1. Cardinality(A) \in Nat
  BY FS_CardinalityType
<1>2. CASE B \subseteq A /\ d = c
  <2>1. Cardinality(B) <= Cardinality(A) /\ Cardinality(B) \in Nat
    BY <1>2, FS_Subset, FS_CardinalityType
  <2> QED
    BY <1>1, <1>2, <2>1
<1>3. ASSUME NEW x \in A, B \subseteq A \ {x}, d = c + 1
      PROVE  d + Cardinality(B) <= N
  <2>1. IsFiniteSet(A \ {x}) /\ Cardinality(A \ {x}) = Cardinality(A) - 1
    BY FS_RemoveElement
  <2>2. Cardinality(B) <= Cardinality(A \ {x}) /\ Cardinality(B) \in Nat
    BY <1>3, <2>1, FS_Subset, FS_CardinalityType
  <2> QED
    BY <1>1, <1>3, <2>1, <2>2
<1> QED
  BY <1>2, <1>3

\* Those who may add are among the goroutines and the items of their plans.
LEMMA BudgetsFinite ==
    ASSUME IsFiniteSet(Runners)
    PROVE  /\ Cardinality(Runners) \in Nat /\ Cardinality(Runners) * NPlans \in Nat
           /\ \A S \in SUBSET Runners :
                 IsFiniteSet(S) /\ 0 + Cardinality(S) <= Cardinality(Runners)
           /\ \A S \in SUBSET (Runners \X (1..NPlans)) :
                 IsFiniteSet(S) /\ 0 + Cardinality(S) <= Cardinality(Runners) * NPlans
<1>1. Cardinality(Runners) \in Nat
  BY FS_CardinalityType
<1>2. IsFiniteSet(1..NPlans) /\ Cardinality(1..NPlans) = NPlans
  BY FS_Interval, Numbers
<1>3. /\ IsFiniteSet(Runners \X (1..NPlans))
      /\ Cardinality(Runners \X (1..NPlans)) = Cardinality(Runners) * NPlans
  BY <1>2, FS_Product
<1>4. Cardinality(Runners) * NPlans \in Nat
  BY <1>3, FS_CardinalityType
<1>5. ASSUME NEW S \in SUBSET Runners
      PROVE  IsFiniteSet(S) /\ 0 + Cardinality(S) <= Cardinality(Runners)
  <2>1. IsFiniteSet(S) /\ Cardinality(S) <= Cardinality(Runners)
    BY FS_Subset
  <2>2. Cardinality(S) \in Nat
    BY <2>1, FS_CardinalityType
  <2> QED
    BY <2>1, <2>2
<1>6. ASSUME NEW S \in SUBSET (Runners \X (1..NPlans))
      PROVE  IsFiniteSet(S) /\ 0 + Cardinality(S) <= Cardinality(Runners) * NPlans
  <2>1. IsFiniteSet(S) /\ Cardinality(S) <= Cardinality(Runners) * NPlans
    BY <1>3, FS_Subset
  <2>2. Cardinality(S) \in Nat
    BY <2>1, FS_CardinalityType
  <2> QED
    BY <2>1, <2>2
<1> QED
  BY <1>1, <1>4, <1>5, <1>6

\* As long as there is no task there is nothing.
LEMMA NothingYet ==
    ASSUME TypeOK, ChatInv, TellInv, rows[Task] = <<>>
    PROVE  \A t \in Tables : rows[t] = <<>> /\ messages[t] = 0
<1>1. \A t \in Tables : messages[t] \in Nat /\ (messages[t] > 0 => rows[t] # <<>>)
  BY DEF TypeOK, TellInv
<1>2. \A t \in Task..Execution : t \in Tables /\ (rows[t] = <<>> => rows[t + 1] = <<>>)
  <2>1. \A t \in Task..Execution : t \in Tables
    BY Numbers
  <2> QED
    BY <1>1, <2>1 DEF ChatInv
<1>3. /\ Task \in Task..Execution /\ Action \in Task..Execution
      /\ Command \in Task..Execution /\ Execution \in Task..Execution
      /\ Task + 1 = Action /\ Action + 1 = Command /\ Command + 1 = Execution
      /\ Execution + 1 = Summary
      /\ \A t \in Tables : t = Task \/ t = Action \/ t = Command \/ t = Execution \/ t = Summary
  BY Numbers
<1>4. rows[Action] = <<>>
  BY <1>2, <1>3
<1>5. rows[Command] = <<>>
  BY <1>2, <1>3, <1>4
<1>6. rows[Execution] = <<>>
  BY <1>2, <1>3, <1>5
<1>7. rows[Summary] = <<>>
  BY <1>2, <1>3, <1>6
<1>8. \A t \in Tables : rows[t] = <<>>
  BY <1>3, <1>4, <1>5, <1>6, <1>7
<1>9. ASSUME NEW t \in Tables
      PROVE  messages[t] = 0
  BY <1>1, <1>8
<1> QED
  BY <1>8, <1>9

\* A step of a runner spends what it adds.
LEMMA BudgetSpent ==
    ASSUME ~StoreErrors, IsFiniteSet(Runners), TypeOK, StageInv, ChatInv, TellInv, BudgetInv,
           NEW r \in Runners, Trigger(r) \/ Work(r)
    PROVE  BudgetInv'
<1> DEFINE q == run[r]
           p == run'[r]
<1>0. /\ q \in Runs /\ p \in Runs /\ Stage(q) /\ Stage(q)' /\ q.table \in Tables
      /\ \A s \in Runners \ {r} : run'[s] = run[s]
      /\ rows' \in [Tables -> Seq(Rows)]
      /\ rows \in [Tables -> Seq(Rows)] /\ messages \in [Tables -> Nat]
  <2>1. run \in [Runners -> Runs] /\ rows \in [Tables -> Seq(Rows)] /\ messages \in [Tables -> Nat]
    BY DEF TypeOK
  <2> QED
    BY <2>1, RunnerStep, RunTyped DEF Good, OthersWait, StageInv
<1>1. \A t \in Tables : Len(rows[t]) \in Nat /\ Len(rows'[t]) \in Nat
  BY <1>0, LenProperties
<1>2. \A t \in Tables : messages[t] \in Nat /\ messages'[t] \in Nat
  BY TypingStep DEF TypeOK, Next
<1>3. /\ \A t : ToAdd(t) \in SUBSET (Runners \X (1..NPlans))
      /\ \A t : ToAdd(t)' \in SUBSET (Runners \X (1..NPlans))
      /\ ToSummarize \in SUBSET Runners /\ ToSummarize' \in SUBSET Runners
      /\ \A t : ToSay(t) \in SUBSET Runners
      /\ \A t : ToSay(t)' \in SUBSET Runners
  BY DEF ToAdd, ToSummarize, ToSay
<1>4. ~Committed(Idle) /\ \A t \in Task..Execution : t \in Tables
  BY IdleTyped, Numbers DEF Committed, Begun, Working
\* The run that finds no task: there is nothing yet.
<1>5. CASE ListRows(r) /\ rows[Task] = <<>>
  <2>1. rows' = rows /\ messages' = messages
    BY <1>5 DEF ListRows, store
  <2>2. \A t \in Tables : Len(rows'[t]) = 0 /\ messages'[t] = 0
    BY <1>5, <2>1, NothingYet, EmptySeq
  <2> QED
    BY <1>3, <1>4, <2>2, BudgetsFinite, Numbers DEF BudgetInv
<1>6. CASE ~(ListRows(r) /\ rows[Task] = <<>>)
  <2>1. /\ Committed(p) => Committed(q)
        /\ Committed(p) /\ Concluded(q) => Concluded(p)
        /\ \A t \in Tables : Committed(p) /\ HasSaid(q, t) => HasSaid(p, t)
        /\ p.restoring /\ p.pc = "say" =>
              InspectMessages(r) /\ \A t \in Tables : messages[t] = 0
    BY <1>6, Calm
  <2>2. ASSUME NEW t \in Task..Execution
        PROVE  Len(rows'[t]) + Cardinality(ToAdd(t)') <= Cardinality(Runners) * NPlans
    <3>1. CASE AddRow(r) /\ t = q.table
      <4> DEFINE x == <<r, q.i>>
      <4>1. /\ Len(rows'[t]) = Len(rows[t]) + 1 /\ q.restoring = FALSE
            /\ Len(q.made[t]) = q.i - 1
            /\ p.made[t] = Append(q.made[t], Len(rows[t]) + 1)
        BY <1>0, <3>1, AddRowStep
      <4>2. q.i \in Nat /\ q.i \in 1..NPlans /\ q.made[t] \in Seq(Nat) /\ Len(rows[t]) + 1 \in Nat
        BY <1>0, <1>1, <1>4, RunTyped, Successor
      <4>3. Len(p.made[t]) = q.i
        <5> DEFINE m == q.made[t]
                   k == Len(rows[t]) + 1
                   i == q.i
        <5>1. m \in Seq(Nat) /\ k \in Nat /\ Len(m) = i - 1 /\ i \in Nat /\ p.made[t] = Append(m, k)
          BY <4>1, <4>2
        <5> HIDE DEF m, k, i
        <5>2. Len(Append(m, k)) = Len(m) + 1
          BY <5>1, AppendProperties
        <5>3. Len(p.made[t]) = i
          BY <5>1, <5>2
        <5> QED
          BY <5>3 DEF i
      <4>4. Committed(q)
        BY <3>1, <4>1 DEF AddRow, At, Committed, Begun, Working
      <4>5. x \in ToAdd(t)
        <5>1. q.i > Len(q.made[t])
          BY <4>1, <4>2
        <5> QED
          BY <4>2, <4>4, <5>1 DEF ToAdd
      <4>6. ToAdd(t)' \subseteq ToAdd(t) \ {x}
        <5> SUFFICES ASSUME NEW y \in ToAdd(t)'
                     PROVE  y \in ToAdd(t) /\ y # x
          OBVIOUS
        <5>1. /\ y \in Runners \X (1..NPlans) /\ y[1] \in Runners /\ y[2] \in Nat
              /\ y = <<y[1], y[2]>>
              /\ Committed(run'[y[1]]) /\ y[2] > Len(run'[y[1]].made[t])
          BY Numbers DEF ToAdd, Committed, Begun
        <5>2. CASE y[1] = r
          <6>1. y[2] > q.i
            BY <4>3, <5>1, <5>2
          <6>2. y[2] > Len(q.made[t]) /\ y[2] # q.i
            BY <4>1, <4>2, <5>1, <6>1
          <6> QED
            BY <4>4, <5>1, <5>2, <6>2 DEF ToAdd
        <5>3. CASE y[1] # r
          <6>1. run'[y[1]] = run[y[1]]
            BY <1>0, <5>1, <5>3
          <6> QED
            BY <5>1, <5>3, <6>1 DEF ToAdd
        <5> QED
          BY <5>2, <5>3
      <4> HIDE DEF x
      <4>7. Len(rows[t]) + Cardinality(ToAdd(t)) <= Cardinality(Runners) * NPlans
        BY DEF BudgetInv
      <4>8. IsFiniteSet(ToAdd(t)) /\ Cardinality(Runners) * NPlans \in Nat
        BY <1>3, BudgetsFinite
      <4> QED
        BY <1>1, <1>4, <4>1, <4>5, <4>6, <4>7, <4>8, Budget
    <3>2. CASE ~(AddRow(r) /\ t = q.table)
      <4>1. Len(rows'[t]) = Len(rows[t])
        <5>1. CASE AddRow(r)
          BY <1>0, <1>4, <3>2, <5>1, AddRowStep
        <5>2. CASE AddSummary(r)
          BY <1>0, <1>4, <5>2, Numbers DEF AddSummary
        <5>3. CASE ~AddRow(r) /\ ~AddSummary(r)
          BY <1>4, <5>3, NothingAdded
        <5> QED
          BY <5>1, <5>2, <5>3
      <4>2. Committed(p) => p.made[t] = q.made[t]
        <5>1. CASE AddRow(r)
          BY <1>0, <3>2, <5>1, AddRowStep
        <5>2. CASE ~AddRow(r)
          BY <1>4, <5>2, MadeMoves
        <5> QED
          BY <5>1, <5>2
      <4>3. ToAdd(t)' \subseteq ToAdd(t)
        <5> SUFFICES ASSUME NEW y \in ToAdd(t)'
                     PROVE  y \in ToAdd(t)
          OBVIOUS
        <5>1. /\ y \in Runners \X (1..NPlans) /\ y[1] \in Runners
              /\ Committed(run'[y[1]]) /\ y[2] > Len(run'[y[1]].made[t])
          BY DEF ToAdd, Committed, Begun
        <5>2. Committed(run[y[1]]) /\ run'[y[1]].made[t] = run[y[1]].made[t]
          BY <1>0, <2>1, <4>2, <5>1
        <5> QED
          BY <5>1, <5>2 DEF ToAdd
      <4>4. Len(rows[t]) + Cardinality(ToAdd(t)) <= Cardinality(Runners) * NPlans
        BY DEF BudgetInv
      <4>5. IsFiniteSet(ToAdd(t)) /\ Cardinality(Runners) * NPlans \in Nat
        BY <1>3, BudgetsFinite
      <4> QED
        BY <1>1, <1>4, <4>1, <4>3, <4>4, <4>5, Budget
    <3> QED
      BY <3>1, <3>2
  <2>3. Len(rows'[Summary]) + Cardinality(ToSummarize') <= Cardinality(Runners)
    <3>0. Summary \in Tables
      BY Numbers
    <3>1. Len(rows[Summary]) + Cardinality(ToSummarize) <= Cardinality(Runners)
      BY DEF BudgetInv
    <3>2. IsFiniteSet(ToSummarize) /\ Cardinality(Runners) \in Nat
      BY <1>3, BudgetsFinite
    <3>3. ToSummarize' \subseteq ToSummarize
      BY <1>0, <2>1 DEF ToSummarize, Committed, Concluded, Begun
    <3>4. CASE AddSummary(r)
      <4>1. q.pc = "summarize" /\ ~q.restoring
        BY <3>4 DEF AddSummary, At, ChatInv
      <4>2. r \in ToSummarize
        BY <4>1 DEF ToSummarize, Committed, Begun, Working, Concluded
      <4>3. p.pc = "say" /\ p.table = Summary
        BY <3>4, GotoMoves DEF AddSummary, TypeOK
      <4>4. r \notin ToSummarize'
        BY <4>3 DEF ToSummarize, Concluded
      <4>5. Len(rows'[Summary]) = Len(rows[Summary]) + 1
        <5> DEFINE row == [parent |-> 0, status |-> "completed"]
        <5>1. row \in Rows /\ rows' = [rows EXCEPT ![Summary] = Append(@, row)]
          BY <3>4 DEF AddSummary, Rows, Statuses
        <5> HIDE DEF row
        <5> QED
          BY <1>0, <3>0, <5>1, RowAppended
      <4>6. ToSummarize' \subseteq ToSummarize \ {r}
        BY <3>3, <4>4
      <4> QED
        BY <1>1, <3>0, <3>1, <3>2, <4>2, <4>5, <4>6, Budget
    <3>5. CASE ~AddSummary(r)
      <4>1. Len(rows'[Summary]) = Len(rows[Summary])
        <5>1. CASE AddRow(r)
          <6>1. q.table # Summary
            <7>1. q.table \in Task..Execution
              BY <1>0, <5>1, AddRowStep
            <7> QED
              BY <7>1, Numbers
          <6> QED
            BY <1>0, <3>0, <5>1, <6>1, AddRowStep
        <5>2. CASE ~AddRow(r)
          BY <3>0, <3>5, <5>2, NothingAdded
        <5> QED
          BY <5>1, <5>2
      <4> QED
        BY <1>1, <3>0, <3>1, <3>2, <3>3, <4>1, Budget
    <3> QED
      BY <3>4, <3>5
  <2>4. ASSUME NEW t \in Tables
        PROVE  messages'[t] + Cardinality(ToSay(t)') <= Cardinality(Runners)
    <3>1. messages[t] + Cardinality(ToSay(t)) <= Cardinality(Runners)
      BY DEF BudgetInv
    <3>2. /\ IsFiniteSet(ToSay(t)) /\ Cardinality(Runners) \in Nat
          /\ 0 + Cardinality(ToSay(t)') <= Cardinality(Runners)
      BY <1>3, BudgetsFinite
    <3>3. CASE p.restoring /\ p.pc = "say"
      <4>1. messages'[t] = 0
        BY <2>1, <3>3 DEF InspectMessages, store
      <4> QED
        BY <3>2, <4>1
    <3>4. CASE ~(p.restoring /\ p.pc = "say")
      <4>1. r \in ToSay(t)' => Committed(p) /\ ~HasSaid(p, t)
        BY <3>4 DEF ToSay, At, Committed, Begun, HasSaid
      <4>2. ToSay(t)' \subseteq ToSay(t)
        <5>1. r \in ToSay(t)' => r \in ToSay(t)
          BY <2>1, <4>1 DEF ToSay
        <5>2. \A s \in Runners \ {r} : s \in ToSay(t)' => s \in ToSay(t)
          BY <1>0 DEF ToSay, At, Committed, Begun, HasSaid
        <5> QED
          BY <1>3, <5>1, <5>2
      <4>3. CASE messages'[t] = messages[t]
        BY <1>2, <3>1, <3>2, <4>2, <4>3, Budget
      <4>4. CASE messages'[t] # messages[t]
        <5>1. /\ Say(r) /\ messages' = [messages EXCEPT ![q.table] = @ + 1]
              /\ Goto(r, "tell", q.table, 1)
          <6>1. Say(r) /\ messages' = [messages EXCEPT ![q.table] = @ + 1]
            BY <4>4, CountersStep
          <6>2. Goto(r, "tell", q.table, 1)
            BY <6>1 DEF Say, CallFails
          <6> QED
            BY <6>1, <6>2
        <5>2. t = q.table /\ messages'[t] = messages[t] + 1
          BY <1>0, <4>4, <5>1
        <5>3. /\ p.pc = "tell" /\ p.table = t /\ p.restoring = q.restoring
              /\ q.pc = "say"
          BY <5>1, <5>2, GotoMoves DEF Say, At, TypeOK
        <5>4. r \in ToSay(t)
          <6>1. q.restoring \/ Begun(q)
            BY <5>3 DEF Begun, Working
          <6>2. ~HasSaid(q, t)
            <7>1. ~(t < q.table)
              BY <5>2, Numbers
            <7> QED
              BY <5>3, <7>1 DEF HasSaid
          <6> QED
            BY <5>2, <5>3, <6>1, <6>2 DEF ToSay, At, Committed
        <5>5. r \notin ToSay(t)'
          <6>1. HasSaid(p, t)
            BY <5>3, Numbers DEF HasSaid
          <6> QED
            BY <4>1, <6>1
        <5>6. ToSay(t)' \subseteq ToSay(t) \ {r}
          BY <4>2, <5>5
        <5> QED
          BY <1>2, <3>1, <3>2, <5>2, <5>4, <5>6, Budget
      <4> QED
        BY <4>3, <4>4
    <3> QED
      BY <3>3, <3>4
  <2> HIDE DEF q, p
  <2> QED
    BY <2>2, <2>3, <2>4 DEF BudgetInv
<1> QED
  BY <1>5, <1>6

\* Without failing calls every step keeps within one round for each goroutine.
LEMMA BudgetStep ==
    ASSUME ~StoreErrors, IsFiniteSet(Runners), TypeOK, StageInv, ChatInv, TellInv, BudgetInv,
           [Next]_vars
    PROVE  BudgetInv'
<1>1. ASSUME NEW r \in Runners, Trigger(r) \/ Work(r)
      PROVE  BudgetInv'
  BY <1>1, BudgetSpent
\* A step that adds nothing and lets nobody in.
<1>2. ASSUME UNCHANGED <<rows, messages>>,
             \A t : ToAdd(t)' \subseteq ToAdd(t),
             \A t : ToSay(t)' \subseteq ToSay(t),
             ToSummarize' \subseteq ToSummarize
      PROVE  BudgetInv'
  <2>1. /\ \A t : ToAdd(t) \in SUBSET (Runners \X (1..NPlans))
        /\ ToSummarize \in SUBSET Runners
        /\ \A t : ToSay(t) \in SUBSET Runners
    BY DEF ToAdd, ToSummarize, ToSay
  <2>2. /\ \A t : IsFiniteSet(ToAdd(t)) /\ IsFiniteSet(ToSay(t))
        /\ IsFiniteSet(ToSummarize)
        /\ Cardinality(Runners) \in Nat /\ Cardinality(Runners) * NPlans \in Nat
    BY <2>1, BudgetsFinite
  <2>3. /\ \A t \in Tables : Len(rows[t]) \in Nat /\ messages[t] \in Nat
        /\ Summary \in Tables /\ \A t \in Task..Execution : t \in Tables
    BY LenProperties, Numbers DEF TypeOK
  <2>4. \A t \in Task..Execution :
            Len(rows[t]) + Cardinality(ToAdd(t)') <= Cardinality(Runners) * NPlans
    BY <1>2, <2>2, <2>3, Budget DEF BudgetInv
  <2>5. Len(rows[Summary]) + Cardinality(ToSummarize') <= Cardinality(Runners)
    BY <1>2, <2>2, <2>3, Budget DEF BudgetInv
  <2>6. \A t \in Tables : messages[t] + Cardinality(ToSay(t)') <= Cardinality(Runners)
    BY <1>2, <2>2, <2>3, Budget DEF BudgetInv
  <2> QED
    BY <1>2, <2>4, <2>5, <2>6 DEF BudgetInv
<1>3. CASE Crash
  <2>1. UNCHANGED <<rows, messages>> /\ \A r \in Runners : run'[r] = Idle
    BY <1>3 DEF Crash, store
  <2>2. ~Committed(Idle)
    BY IdleTyped DEF Committed, Begun, Working
  <2>3. \A t : ToAdd(t)' = {}
    BY <2>1, <2>2 DEF ToAdd, Committed, Begun
  <2>4. /\ ToSummarize' = {}
        /\ \A t : ToSay(t)' = {}
    BY <2>1, <2>2, IdleTyped DEF ToSummarize, ToSay, At, Committed, Begun
  <2> QED
    BY <1>2, <2>1, <2>3, <2>4
<1>4. CASE PostAsRole \/ UNCHANGED vars
  <2>1. UNCHANGED <<rows, messages, run>>
    BY <1>4 DEF PostAsRole, vars, store
  <2>2. /\ \A t : ToAdd(t)' = ToAdd(t) /\ ToSay(t)' = ToSay(t)
        /\ ToSummarize' = ToSummarize
    BY <2>1 DEF ToAdd, ToSay, ToSummarize, At, Committed, Begun, HasSaid, Concluded
  <2> QED
    BY <1>2, <2>1, <2>2
<1> QED
  BY <1>1, <1>3, <1>4 DEF Next

\* When no store call fails, requests that repeat the event and runs that
\* overlap make no more rows, and say no more of any stage, than one round
\* for each goroutine (the guards of RunAgentWorkflow: no tasks before a
\* plan, no message of a role before a restoration).
THEOREM OneRoundEach ==
    ASSUME ~StoreErrors, IsFiniteSet(Runners)
    PROVE  Spec => []OneRoundPerRunner
<1>1. Init => TellInv /\ ChatInv /\ BudgetInv
  <2> SUFFICES ASSUME Init PROVE TellInv /\ ChatInv /\ BudgetInv
    OBVIOUS
  <2>1. /\ \A r \in Runners : run[r] = Idle
        /\ \A t \in Tables : rows[t] = <<>> /\ messages[t] = 0 /\ told[t] = 0
        /\ \A t \in Task..Execution : t \in Tables /\ t + 1 \in Tables
        /\ Summary \in Tables
    BY Numbers DEF Init
  <2>2. ~Committed(Idle)
    BY IdleTyped DEF Committed, Begun, Working
  <2>3. TellInv
    <3>1. \A t \in Tables : Tellers(t) = {}
      BY <2>1, IdleTyped DEF Tellers, At
    <3> QED
      <4>1. IsFiniteSet({}) /\ Cardinality({}) = 0
        BY FS_EmptySet
      <4>2. ASSUME NEW t \in Tables
            PROVE  /\ IsFiniteSet(Tellers(t))
                   /\ told[t] + Cardinality(Tellers(t)) <= messages[t]
                   /\ messages[t] > 0 => rows[t] # <<>>
        <5>1. /\ Tellers(t) = {} /\ messages[t] = 0 /\ told[t] = 0
          BY <2>1, <3>1
        <5> QED
          BY <4>1, <5>1
      <4> QED
        BY <4>2 DEF TellInv
  <2>4. ChatInv
    BY <2>1, IdleTyped DEF ChatInv, Begun, Working
  <2>5. \A t : ToAdd(t) = {}
    BY <2>1, <2>2 DEF ToAdd
  <2>6. ToSummarize = {} /\ \A t : ToSay(t) = {}
    BY <2>1, <2>2, IdleTyped DEF ToSummarize, ToSay, At
  <2>7. /\ 0 + Cardinality({}) <= Cardinality(Runners)
        /\ 0 + Cardinality({}) <= Cardinality(Runners) * NPlans
    BY BudgetsFinite
  <2>8. \A t \in Tables : Len(rows[t]) = 0
    BY <2>1, EmptySeq
  <2> QED
    BY <2>1, <2>3, <2>4, <2>5, <2>6, <2>7, <2>8 DEF BudgetInv
<1>2. /\ TypeOK /\ StageInv /\ TellInv /\ ChatInv /\ BudgetInv /\ [Next]_vars
      => (TellInv /\ ChatInv /\ BudgetInv)'
  BY TellStep, ChatStep, BudgetStep
<1>3. TypeOK /\ BudgetInv => OneRoundPerRunner
  <2> SUFFICES ASSUME TypeOK, BudgetInv, NEW t \in Tables
               PROVE  /\ Len(rows[t]) <= Cardinality(Runners) * (IF t = Summary THEN 1 ELSE NPlans)
                      /\ messages[t] <= Cardinality(Runners)
    BY DEF OneRoundPerRunner
  <2>1. /\ ToAdd(t) \in SUBSET (Runners \X (1..NPlans))
        /\ ToSummarize \in SUBSET Runners /\ ToSay(t) \in SUBSET Runners
    BY DEF ToAdd, ToSummarize, ToSay
  <2>2. /\ IsFiniteSet(ToAdd(t)) /\ IsFiniteSet(ToSummarize) /\ IsFiniteSet(ToSay(t))
        /\ Cardinality(Runners) \in Nat /\ Cardinality(Runners) * NPlans \in Nat
    BY <2>1, BudgetsFinite
  <2>3. /\ Cardinality(ToAdd(t)) \in Nat /\ Cardinality(ToSummarize) \in Nat
        /\ Cardinality(ToSay(t)) \in Nat
    BY <2>2, FS_CardinalityType
  <2>4. Len(rows[t]) \in Nat /\ messages[t] \in Nat
    BY LenProperties DEF TypeOK
  <2>5. messages[t] <= Cardinality(Runners)
    <3>1. messages[t] + Cardinality(ToSay(t)) <= Cardinality(Runners)
      BY DEF BudgetInv
    <3> QED
      BY <2>2, <2>3, <2>4, <3>1
  <2>6. t # Summary => Len(rows[t]) <= Cardinality(Runners) * NPlans
    <3>1. t # Summary => t \in Task..Execution
      BY Numbers
    <3>2. t # Summary => Len(rows[t]) + Cardinality(ToAdd(t)) <= Cardinality(Runners) * NPlans
      BY <3>1 DEF BudgetInv
    <3> QED
      BY <2>2, <2>3, <2>4, <3>2
  <2>7. t = Summary => Len(rows[t]) <= Cardinality(Runners) * 1
    <3>1. t = Summary => Len(rows[t]) + Cardinality(ToSummarize) <= Cardinality(Runners)
      BY DEF BudgetInv
    <3> QED
      BY <2>2, <2>3, <2>4, <3>1
  <2> QED
    BY <2>5, <2>6, <2>7
<1> QED
  BY <1>1, <1>2, <1>3, Typing, PTL DEF Spec

-----------------------------------------------------------------------------
(* Nobody takes up a round that was interrupted.                           *)

\* The tasks are there and no run works through a plan, or will.
Abandoned ==
    /\ event = "processing" /\ rows[Task] # <<>>
    /\ \A r \in Runners : ~Committed(run[r])

\* Without failing calls no step takes up an abandoned round.
LEMMA AbandonedStep ==
    ASSUME ~StoreErrors, TypeOK, StageInv, ChatInv, Abandoned, [Next]_vars
    PROVE  Abandoned'
<1>1. ASSUME NEW r \in Runners, Trigger(r) \/ Work(r)
      PROVE  Abandoned'
  <2>1. Task \in Tables
    BY Numbers
  <2>2. rows'[Task] # <<>> /\ \A s \in Runners \ {r} : run'[s] = run[s]
    BY <1>1, <2>1, RunnerStep DEF Good, OthersWait, RowsStay, Abandoned
  <2>3. ~Committed(run'[r])
    BY <1>1, Calm DEF Abandoned
  <2>4. run[r].pc \notin {"begin", "finish"}
    BY DEF Abandoned, Committed, Begun, Working, StageInv, Stage
  <2>5. event' = event
    BY <1>1, <2>4
       DEF At, Trigger, Work, ListRows, InspectMessages, BeginProcessing, AddRow, AddRowFails,
           AddRowUnseen, MarkParent, Close, UpdateStatus, Say, Tell, BroadcastExecutions, AddSummary,
           FinishRound, BroadcastStatus, store
  <2>6. \A s \in Runners : ~Committed(run'[s])
    BY <2>2, <2>3 DEF Abandoned
  <2> QED
    BY <2>2, <2>5, <2>6 DEF Abandoned, Committed, Begun
<1>2. CASE Crash
  <2>1. UNCHANGED <<rows, event>> /\ \A r \in Runners : run'[r] = Idle
    BY <1>2 DEF Crash, store
  <2> QED
    BY <2>1, IdleTyped DEF Abandoned, Committed, Begun, Working
<1>3. CASE PostAsRole \/ UNCHANGED vars
  <2>1. UNCHANGED <<rows, event, run>>
    BY <1>3 DEF PostAsRole, vars, store
  <2> QED
    BY <2>1 DEF Abandoned, Committed, Begun
<1> QED
  BY <1>1, <1>2, <1>3 DEF Next

\* Without failing calls the messages a run counts on are there.
LEMMA ChatHolds ==
    ASSUME ~StoreErrors
    PROVE  Spec => []ChatInv
<1>1. Init => ChatInv
  <2> SUFFICES ASSUME Init PROVE ChatInv
    OBVIOUS
  <2>1. /\ \A r \in Runners : run[r] = Idle
        /\ \A t \in Task..Execution : rows[t + 1] = <<>>
    BY Numbers DEF Init
  <2> QED
    BY <2>1, IdleTyped DEF ChatInv, Begun, Working
<1>2. TypeOK /\ StageInv /\ ChatInv /\ [Next]_vars => ChatInv'
  BY ChatStep
<1> QED
  BY <1>1, <1>2, Typing, PTL DEF Spec

\* A round whose goroutine was stopped is never ended, when no store call
\* fails: RunAgentWorkflow finds its tasks and only restores messages.
THEOREM InterruptedForGood ==
    ASSUME ~StoreErrors
    PROVE  Spec => InterruptedStaysOpen
<1>1. /\ event = "processing" /\ rows[Task] # <<>> /\ \A r \in Runners : At(r, "idle")
      => Abandoned
  BY DEF Abandoned, At, Committed, Begun, Working
<1>2. TypeOK /\ StageInv /\ ChatInv /\ Abandoned /\ [Next]_vars => Abandoned'
  BY AbandonedStep
<1>3. Abandoned => event = "processing"
  BY DEF Abandoned
<1> QED
  BY <1>1, <1>2, <1>3, Typing, ChatHolds, PTL DEF Spec, InterruptedStaysOpen

=============================================================================
