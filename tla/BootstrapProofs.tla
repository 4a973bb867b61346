--------------------------- MODULE BootstrapProofs ---------------------------
(***************************************************************************)
(* Theorems about traffic-admin beside traffic-api, for any commands,      *)
(* prompts, events and lists, any number of resets, loads and interrupted  *)
(* commands: what a seed has set, what a reset leaves, what a summary of   *)
(* the demo stands for, what people's entries and settings survive.        *)
(***************************************************************************)
EXTENDS Bootstrap, TLAPS, SequenceTheorems

-----------------------------------------------------------------------------
(* The statements of a command and their order.                            *)

DemoTables == {"messages", "tasks", "executions"}

Statements ==
    {Stmt(op, "") : op \in {"reset", "schema", "prompts", "admin", "event", "summary",
                            "ly-schema", "ly-seed"}}
    \cup {Stmt("row", DemoRows[k]) : k \in 1..6}

\* The parts of a statement; what the plans contain are statements.
LEMMA StatementsAre ==
    /\ \A op, key : Stmt(op, key).op = op /\ Stmt(op, key).key = key
    /\ \A op \in {"reset", "schema", "prompts", "admin", "event", "summary",
                  "ly-schema", "ly-seed"} : Stmt(op, "") \in Statements
    /\ \A k \in 1..6 : Stmt("row", DemoRows[k]) \in Statements
BY DEF Stmt, Statements

\* The rows of the demo, one by one.
LEMMA DemoRowsAre ==
    /\ Len(DemoRows) = 6
    /\ \A k \in 1..6 : DemoRows[k][1] \in DemoTables
<1>1. DemoRows = << <<"messages", "demo-message-001">>, <<"messages", "demo-message-002">>,
                    <<"messages", "demo-message-003">>, <<"tasks", "demo-task-001">>,
                    <<"tasks", "demo-task-002">>, <<"executions", "demo-execution-001">> >>
  BY DEF DemoRows
<1>2. Len(DemoRows) = 6
  BY <1>1
<1>3. ASSUME NEW k \in 1..6
      PROVE  DemoRows[k][1] \in DemoTables
  <2>1. k = 1 \/ k = 2 \/ k = 3 \/ k = 4 \/ k = 5 \/ k = 6
    OBVIOUS
  <2> QED
    BY <1>1, <2>1 DEF DemoTables
<1> QED
  BY <1>2, <1>3

\* What there is to send of q ends well from an empty database: prompts come
\* before the administrator, and the rows of the demo before its summary.
Prompted(q, i) == \E j \in DOMAIN q : j < i /\ q[j].op = "prompts"
Given(q, i, k) == \E j \in DOMAIN q : j < i /\ q[j] = Stmt("row", DemoRows[k])

Ordered(q) ==
    \A i \in DOMAIN q :
        /\ q[i].op = "admin" => Prompted(q, i)
        /\ q[i].op = "summary" => \A k \in 1..6 : Given(q, i, k)

ResetsIn(q) == {i \in DOMAIN q : q[i].op = "reset"}

\* A command without statements.
LEMMA EmptyPlan == <<>> \in Seq(Statements) /\ Ordered(<<>>) /\ ResetsIn(<<>>) = {}
BY DEF Ordered, ResetsIn

\* A function on 1..n is a sequence of that length.
LEMMA LenOfSeq ==
    ASSUME NEW S, NEW n \in Nat, NEW f \in [1..n -> S]
    PROVE  f \in Seq(S) /\ Len(f) = n
OBVIOUS

\* One part of a plan after another.
LEMMA OrderedConcat ==
    ASSUME NEW p \in Seq(Statements), NEW q \in Seq(Statements), Ordered(p), Ordered(q),
           ResetsIn(p) \subseteq {1}, ResetsIn(q) = {}
    PROVE  /\ p \o q \in Seq(Statements) /\ Ordered(p \o q) /\ ResetsIn(p \o q) \subseteq {1}
           /\ ResetsIn(p) = {} => ResetsIn(p \o q) = {}
<1> DEFINE a == p \o q
           m == Len(p)
           n == Len(q)
<1>1. /\ m \in Nat /\ n \in Nat /\ DOMAIN p = 1..m /\ DOMAIN q = 1..n
      /\ a \in Seq(Statements) /\ DOMAIN a = 1..m + n
      /\ \A i \in 1..m : a[i] = p[i]
      /\ \A i \in 1..n : a[m + i] = q[i]
  <2>1. /\ a \in Seq(Statements) /\ Len(a) = m + n
        /\ \A i \in 1..m + n : a[i] = IF i <= m THEN p[i] ELSE q[i - m]
    BY ConcatProperties
  <2>2. m \in Nat /\ n \in Nat /\ DOMAIN p = 1..m /\ DOMAIN q = 1..n /\ DOMAIN a = 1..m + n
    BY <2>1, LenProperties
  <2> HIDE DEF a, m, n
  <2> QED
    BY <2>1, <2>2
<1> HIDE DEF a, m, n
<1>2. ASSUME NEW i \in 1..m + n
      PROVE  \/ i \in 1..m
             \/ \E x \in 1..n : i = m + x
  <2>1. i \notin 1..m => i - m \in 1..n /\ i = m + (i - m)
    BY <1>1
  <2> QED
    BY <2>1
<1>3. ASSUME NEW i \in 1..m, NEW k
      PROVE  /\ Prompted(p, i) => Prompted(a, i)
             /\ Given(p, i, k) => Given(a, i, k)
  <2>1. \A j \in 1..m : j \in 1..m + n
    BY <1>1
  <2> QED
    BY <1>1, <2>1 DEF Prompted, Given
<1>4. ASSUME NEW x \in 1..n, NEW k
      PROVE  /\ Prompted(q, x) => Prompted(a, m + x)
             /\ Given(q, x, k) => Given(a, m + x, k)
  <2>1. \A y \in 1..n : m + y \in 1..m + n /\ (y < x => m + y < m + x)
    BY <1>1
  <2> QED
    BY <1>1, <2>1 DEF Prompted, Given
<1>5. ASSUME NEW i \in 1..m + n
      PROVE  /\ a[i].op = "admin" => Prompted(a, i)
             /\ a[i].op = "summary" => \A k \in 1..6 : Given(a, i, k)
  <2>1. CASE i \in 1..m
    <3>1. /\ p[i].op = "admin" => Prompted(p, i)
          /\ p[i].op = "summary" => \A k \in 1..6 : Given(p, i, k)
      BY <1>1, <2>1 DEF Ordered
    <3> QED
      BY <1>1, <1>3, <2>1, <3>1
  <2>2. ASSUME NEW x \in 1..n, i = m + x
        PROVE  /\ a[i].op = "admin" => Prompted(a, i)
               /\ a[i].op = "summary" => \A k \in 1..6 : Given(a, i, k)
    <3>1. /\ q[x].op = "admin" => Prompted(q, x)
          /\ q[x].op = "summary" => \A k \in 1..6 : Given(q, x, k)
      BY <1>1, <2>2 DEF Ordered
    <3>2. a[i] = q[x]
      BY <1>1, <2>2
    <3> QED
      BY <1>4, <2>2, <3>1, <3>2
  <2> QED
    BY <1>2, <2>1, <2>2
<1>6. Ordered(a)
  BY <1>1, <1>5 DEF Ordered
<1>7. ResetsIn(a) \subseteq ResetsIn(p)
  <2>1. \A i \in 1..n : q[i].op # "reset"
    BY <1>1 DEF ResetsIn
  <2>2. ASSUME NEW i \in 1..m + n, a[i].op = "reset"
        PROVE  i \in ResetsIn(p)
    <3>1. CASE i \in 1..m
      BY <1>1, <2>2, <3>1 DEF ResetsIn
    <3>2. ASSUME NEW x \in 1..n, i = m + x
          PROVE  FALSE
      <4>1. a[i] = q[x] /\ q[x].op # "reset"
        BY <1>1, <2>1, <3>2
      <4> QED
        BY <2>2, <4>1
    <3> QED
      BY <1>2, <3>1, <3>2
  <2> QED
    BY <1>1, <2>2 DEF ResetsIn
<1> QED
  BY <1>1, <1>6, <1>7 DEF a

\* The parts that plans are made of.
LEMMA BasePlanOrdered ==
    BasePlan \in Seq(Statements) /\ Ordered(BasePlan) /\ ResetsIn(BasePlan) = {1}
<1>1. /\ BasePlan \in Seq(Statements) /\ DOMAIN BasePlan = 1..4
      /\ BasePlan[1].op = "reset" /\ BasePlan[2].op = "schema"
      /\ BasePlan[3].op = "prompts" /\ BasePlan[4].op = "admin"
  <2> DEFINE a == Stmt("reset", "")
             b == Stmt("schema", "")
             c == Stmt("prompts", "")
             d == Stmt("admin", "")
  <2>1. /\ a \in Statements /\ b \in Statements /\ c \in Statements /\ d \in Statements
        /\ a.op = "reset" /\ b.op = "schema" /\ c.op = "prompts" /\ d.op = "admin"
    BY StatementsAre
  <2>2. BasePlan = <<a, b, c, d>>
    BY DEF BasePlan
  <2> HIDE DEF a, b, c, d
  <2> QED
    BY <2>1, <2>2
<1>2. \A i \in 1..4 : i = 1 \/ i = 2 \/ i = 3 \/ i = 4
  OBVIOUS
<1>3. Prompted(BasePlan, 4)
  BY <1>1 DEF Prompted
<1> QED
  BY <1>1, <1>2, <1>3 DEF Ordered, ResetsIn

\* The statements for the tables of the ly_server.
LEMMA LyPlanOrdered ==
    LyPlan \in Seq(Statements) /\ Ordered(LyPlan) /\ ResetsIn(LyPlan) = {}
<1>1. /\ LyPlan \in Seq(Statements) /\ DOMAIN LyPlan = 1..2
      /\ LyPlan[1].op = "ly-schema" /\ LyPlan[2].op = "ly-seed"
  <2> DEFINE a == Stmt("ly-schema", "")
             b == Stmt("ly-seed", "")
  <2>1. /\ a \in Statements /\ b \in Statements
        /\ a.op = "ly-schema" /\ b.op = "ly-seed"
    BY StatementsAre
  <2>2. LyPlan = <<a, b>>
    BY DEF LyPlan
  <2> HIDE DEF a, b
  <2> QED
    BY <2>1, <2>2
<1>2. \A i \in 1..2 : i = 1 \/ i = 2
  OBVIOUS
<1> QED
  BY <1>1, <1>2 DEF Ordered, ResetsIn

\* The statements of SeedDemo.
LEMMA DemoPlanOrdered ==
    DemoPlan \in Seq(Statements) /\ Ordered(DemoPlan) /\ ResetsIn(DemoPlan) = {}
<1> DEFINE begin == <<Stmt("event", "")>>
           middle == [i \in 1..Len(DemoRows) |-> Stmt("row", DemoRows[i])]
           last == <<Stmt("summary", "")>>
           start == begin \o middle
           q == start \o last
<1>1. /\ begin \in Seq(Statements) /\ Len(begin) = 1 /\ begin[1].op = "event"
      /\ last \in Seq(Statements) /\ Len(last) = 1 /\ last[1].op = "summary"
  <2> DEFINE a == Stmt("event", "")
             b == Stmt("summary", "")
  <2>1. a \in Statements /\ b \in Statements /\ a.op = "event" /\ b.op = "summary"
    BY StatementsAre
  <2>2. begin = <<a>> /\ last = <<b>>
    OBVIOUS
  <2> HIDE DEF a, b, begin, last
  <2> QED
    BY <2>1, <2>2
<1>2. /\ middle \in Seq(Statements) /\ Len(middle) = 6
      /\ \A k \in 1..6 : middle[k] = Stmt("row", DemoRows[k]) /\ middle[k].op = "row"
  <2>1. middle = [i \in 1..6 |-> Stmt("row", DemoRows[i])]
    BY DemoRowsAre
  <2>2. \A i \in 1..6 : Stmt("row", DemoRows[i]) \in Statements
    BY StatementsAre
  <2> HIDE DEF middle
  <2>3. middle \in [1..6 -> Statements]
    BY <2>1, <2>2
  <2>4. middle \in Seq(Statements) /\ Len(middle) = 6
    <3>1. 6 \in Nat
      OBVIOUS
    <3> QED
      BY <2>3, <3>1, LenOfSeq
  <2> QED
    BY <2>1, <2>4, StatementsAre
<1> HIDE DEF begin, middle, last
<1>3. /\ start \in Seq(Statements) /\ Len(start) = 7
      /\ start[1] = begin[1]
      /\ \A k \in 1..6 : start[k + 1] = middle[k]
  <2>1. /\ start \in Seq(Statements) /\ Len(start) = 7
        /\ \A i \in 1..7 : start[i] = IF i <= 1 THEN begin[i] ELSE middle[i - 1]
    <3>1. /\ start \in Seq(Statements) /\ Len(start) = Len(begin) + Len(middle)
          /\ \A i \in 1..Len(begin) + Len(middle) :
                start[i] = IF i <= Len(begin) THEN begin[i] ELSE middle[i - Len(begin)]
      <4>1. begin \in Seq(Statements) /\ middle \in Seq(Statements)
        BY <1>1, <1>2
      <4> QED
        BY <4>1, ConcatProperties DEF start
    <3> HIDE DEF start
    <3> QED
      BY <1>1, <1>2, <3>1
  <2> HIDE DEF start
  <2> QED
    BY <1>1, <2>1
<1> HIDE DEF start
<1>4. /\ q \in Seq(Statements) /\ Len(q) = 8 /\ q[1] = begin[1] /\ q[8] = last[1]
      /\ \A k \in 1..6 : q[k + 1] = middle[k]
  <2>1. /\ q \in Seq(Statements) /\ Len(q) = 8
        /\ \A i \in 1..8 : q[i] = IF i <= 7 THEN start[i] ELSE last[i - 7]
    <3>1. /\ q \in Seq(Statements) /\ Len(q) = Len(start) + Len(last)
          /\ \A i \in 1..Len(start) + Len(last) :
                q[i] = IF i <= Len(start) THEN start[i] ELSE last[i - Len(start)]
      BY <1>1, <1>3, ConcatProperties DEF q
    <3> HIDE DEF q
    <3> QED
      BY <1>1, <1>3, <3>1
  <2> HIDE DEF q
  <2>2. \A k \in 1..6 : k + 1 \in 1..8 /\ k + 1 <= 7
    OBVIOUS
  <2>3. q[1] = start[1] /\ q[8] = last[1]
    BY <2>1
  <2>4. \A k \in 1..6 : q[k + 1] = start[k + 1]
    BY <2>1, <2>2
  <2> QED
    BY <1>3, <2>1, <2>3, <2>4
<1> HIDE DEF q
<1>5. DOMAIN q = 1..8 /\ \A i \in 1..8 : i = 1 \/ i = 8 \/ \E k \in 1..6 : i = k + 1
  <2>1. \A i \in 1..8 : i = 1 \/ i = 8 \/ i - 1 \in 1..6
    OBVIOUS
  <2>2. \A i \in 1..8 : i = (i - 1) + 1
    OBVIOUS
  <2> QED
    BY <1>4, <2>1, <2>2, LenProperties
<1>6. \A i \in 1..8 : q[i].op = IF i = 1 THEN "event" ELSE IF i = 8 THEN "summary" ELSE "row"
  BY <1>1, <1>2, <1>4, <1>5
<1>7. \A k \in 1..6 : k + 1 \in 1..8 /\ k + 1 < 8 /\ q[k + 1] = Stmt("row", DemoRows[k])
  BY <1>2, <1>4
<1>8. Ordered(q) /\ ResetsIn(q) = {}
  <2>1. Prompted(q, 8) \/ q[8].op # "admin"
    BY <1>6
  <2>2. \A k \in 1..6 : Given(q, 8, k)
    BY <1>5, <1>7 DEF Given
  <2> QED
    BY <1>5, <1>6, <2>1, <2>2 DEF Ordered, ResetsIn
<1>9. DemoPlan = q
  BY DEF DemoPlan, q, start, begin, middle, last
<1> QED
  BY <1>4, <1>8, <1>9

\* Every command sends its statements in a good order; a reset is the begin.
LEMMA PlanOrdered ==
    ASSUME NEW flags
    PROVE  /\ Plan(flags) \in Seq(Statements) /\ Ordered(Plan(flags))
           /\ ResetsIn(Plan(flags)) \subseteq {1}
           /\ flags \notin {"init", "init-with-demo", "reset"} => ResetsIn(Plan(flags)) = {}
<1> DEFINE b == IF flags \in {"init", "init-with-demo", "reset"} THEN BasePlan ELSE <<>>
           d == IF flags \in {"init-with-demo", "load-demo"} THEN DemoPlan ELSE <<>>
           l == IF flags \in {"init-with-demo", "init-lyserver-compat"} THEN LyPlan ELSE <<>>
<1>1. /\ b \in Seq(Statements) /\ Ordered(b) /\ ResetsIn(b) \subseteq {1}
      /\ flags \notin {"init", "init-with-demo", "reset"} => ResetsIn(b) = {}
  BY EmptyPlan, BasePlanOrdered
<1>2. d \in Seq(Statements) /\ Ordered(d) /\ ResetsIn(d) = {}
  BY EmptyPlan, DemoPlanOrdered
<1>3. l \in Seq(Statements) /\ Ordered(l) /\ ResetsIn(l) = {}
  BY EmptyPlan, LyPlanOrdered
<1>4. Plan(flags) = b \o d \o l
  BY DEF Plan
<1> HIDE DEF b, d, l
<1>5. /\ b \o d \in Seq(Statements) /\ Ordered(b \o d) /\ ResetsIn(b \o d) \subseteq {1}
      /\ ResetsIn(b) = {} => ResetsIn(b \o d) = {}
  BY <1>1, <1>2, OrderedConcat
<1> QED
  BY <1>1, <1>3, <1>4, <1>5, OrderedConcat

-----------------------------------------------------------------------------
(* The inductive invariant.                                                *)

\* A command that has not begun with its reset has all of it before it and
\* was started within the bound; a round fills tables of an event.
Rounds == [event : EventIds, left : Seq(ChildTables)]

WorkInv ==
    /\ todo \in Seq(Statements)
    /\ ResetsIn(todo) \subseteq {1}
    /\ ResetsIn(todo) # {} => Ordered(todo) /\ life < MaxResets
    /\ round \in Rounds

HasRow(k) == ~Missing(DemoRows[k][1], DemoRows[k][2])

\* What the statements still to send count on is there, or is sent before.
OrderInv ==
    \A i \in DOMAIN todo :
        /\ todo[i].op = "admin" => prompts = Roles \/ Prompted(todo, i)
        /\ todo[i].op = "summary" => \A k \in 1..6 : HasRow(k) \/ Given(todo, i, k)

\* Ids and names are unique.  An update on its way to the administrator
\* writes the password of the seed, too.  (It goes by user_id: the user that is
\* called admin may have another.)
SeedInv ==
    /\ \A u, v \in users : u.id = v.id \/ u.name = v.name => u = v
    /\ seeded => prompts = Roles
    /\ seeded /\ ~touched =>
          \E u \in users : /\ Called(u, "admin") /\ u.password = "admin123"
                           /\ u.id = update.id => update.password = "admin123"

\* Between the two queries of a GET an entry is seen or still on the list
\* that is read second.
ReaderInv ==
    /\ reader.next = "second" => steady \subseteq reader.seen \cup lists["white"]
    /\ NoEntryMissed

\* What is left of the statements when the first one was sent.
LEMMA TailStatements ==
    ASSUME NEW q \in Seq(Statements), q # <<>>
    PROVE  /\ Tail(q) \in Seq(Statements) /\ Head(q) = q[1] /\ Head(q) \in Statements
           /\ 1 \in DOMAIN q
           /\ \A i \in DOMAIN Tail(q) : i + 1 \in DOMAIN q /\ Tail(q)[i] = q[i + 1]
           /\ ResetsIn(q) \subseteq {1} => ResetsIn(Tail(q)) = {}
           /\ \A i \in DOMAIN Tail(q) :
                 /\ Prompted(q, i + 1) => Head(q).op = "prompts" \/ Prompted(Tail(q), i)
                 /\ \A k : Given(q, i + 1, k) =>
                       Head(q) = Stmt("row", DemoRows[k]) \/ Given(Tail(q), i, k)
<1> DEFINE t == Tail(q)
           n == Len(t)
<1>1. /\ n \in Nat /\ Len(q) = n + 1 /\ t \in Seq(Statements) /\ Head(q) \in Statements
      /\ Head(q) = q[1] /\ DOMAIN q = 1..n + 1 /\ DOMAIN t = 1..n
      /\ \A i \in 1..n : t[i] = q[i + 1]
  <2>1. /\ t \in Seq(Statements) /\ Head(q) \in Statements /\ Len(t) = Len(q) - 1
        /\ \A i \in 1..n : t[i] = q[i + 1]
    BY HeadTailProperties
  <2>2. n \in Nat /\ Len(q) \in Nat /\ DOMAIN t = 1..n /\ DOMAIN q = 1..Len(q)
    BY <2>1, LenProperties
  <2>3. Head(q) = q[1]
    OBVIOUS
  <2> HIDE DEF t, n
  <2>4. Len(q) = n + 1
    BY <2>1, <2>2
  <2> QED
    BY <2>1, <2>2, <2>3, <2>4
<1> HIDE DEF t, n
<1>2. \A i \in 1..n : i + 1 \in 1..n + 1 /\ i + 1 # 1
  BY <1>1
<1>3. \A j \in 1..n + 1 : j = 1 \/ (j - 1 \in 1..n /\ j = (j - 1) + 1)
  BY <1>1
<1>4. ResetsIn(q) \subseteq {1} => ResetsIn(t) = {}
  BY <1>1, <1>2 DEF ResetsIn
<1>5. ASSUME NEW i \in 1..n, NEW j \in 1..n + 1, j < i + 1
      PROVE  j = 1 \/ \E x \in 1..n : x < i /\ t[x] = q[j]
  <2>1. CASE j # 1
    <3>1. j - 1 \in 1..n /\ j - 1 < i /\ t[j - 1] = q[(j - 1) + 1] /\ (j - 1) + 1 = j
      BY <1>1, <1>3, <1>5, <2>1
    <3> QED
      BY <3>1
  <2> QED
    BY <2>1
<1>6. ASSUME NEW i \in 1..n
      PROVE  /\ Prompted(q, i + 1) => Head(q).op = "prompts" \/ Prompted(t, i)
             /\ \A k : Given(q, i + 1, k) =>
                   Head(q) = Stmt("row", DemoRows[k]) \/ Given(t, i, k)
  <2>1. Prompted(q, i + 1) => Head(q).op = "prompts" \/ Prompted(t, i)
    <3> SUFFICES ASSUME NEW j \in 1..n + 1, j < i + 1, q[j].op = "prompts"
                 PROVE  Head(q).op = "prompts" \/ Prompted(t, i)
      BY <1>1 DEF Prompted
    <3>1. CASE j = 1
      BY <1>1, <3>1
    <3>2. ASSUME NEW x \in 1..n, x < i, t[x] = q[j]
          PROVE  Prompted(t, i)
      BY <1>1, <3>2 DEF Prompted
    <3> QED
      BY <1>5, <3>1, <3>2
  <2>2. ASSUME NEW k, Given(q, i + 1, k)
        PROVE  Head(q) = Stmt("row", DemoRows[k]) \/ Given(t, i, k)
    <3>1. PICK j \in 1..n + 1 : j < i + 1 /\ q[j] = Stmt("row", DemoRows[k])
      BY <1>1, <2>2 DEF Given
    <3>2. CASE j = 1
      BY <1>1, <3>1, <3>2
    <3>3. ASSUME NEW x \in 1..n, x < i, t[x] = q[j]
          PROVE  Given(t, i, k)
      BY <1>1, <3>1, <3>3 DEF Given
    <3> QED
      BY <1>5, <3>1, <3>2, <3>3
  <2> QED
    BY <2>1, <2>2
<1>7. 1 \in 1..n + 1
  BY <1>1
<1> QED
  BY <1>1, <1>2, <1>4, <1>6, <1>7 DEF t

-----------------------------------------------------------------------------
(* Types.                                                                  *)

\* A goroutine that pushes nothing.
LEMMA NoPushTyped == NoPush \in [step : Steps, event : EventIds, key : {"empty", "bound"}]
BY BootstrapAssumption DEF NoPush, Pushing, Steps

\* An empty database and no command.
LEMMA InitTyped == Init => TypeOK /\ WorkInv
<1> SUFFICES ASSUME Init PROVE TypeOK /\ WorkInv
  OBVIOUS
<1>1. LyTypeOK
  BY DEF Init, LyInit, LyTypeOK, Lists
<1>2. TypeOK
  <2>1. 0 \in 0..MaxResets /\ 0 \in 0..MaxLoads /\ 0 \in 0..MaxLogins
    BY BootstrapAssumption
  <2>2. events \in [EventIds -> {Absent, "pending", "finished"}]
    BY DEF Init
  <2>3. push \in [Pushers -> [step : Steps, event : EventIds, key : {"empty", "bound"}]]
    BY NoPushTyped DEF Init
  <2> QED
    BY <1>1, <2>1, <2>2, <2>3 DEF Init, TypeOK
<1>3. NoRound \in Rounds
  BY BootstrapAssumption, EmptySeq DEF NoRound, Rounds
<1>4. WorkInv
  BY <1>3, EmptyPlan DEF Init, WorkInv
<1> QED
  BY <1>2, <1>4

\* The requests that stand for the ly_server keep their types.
LEMMA LyTyped ==
    ASSUME LyTypeOK, LyRequest \/ CreateLySchema \/ (\E o \in Assets : SeedObjects(o))
    PROVE  LyTypeOK'
<1>1. /\ \A type \in ListTypes : Table(type) \in Lists
      /\ ReadOrder[1] \in Lists /\ ReadOrder[2] \in Lists
      /\ lists \in [Lists -> SUBSET Entries]
  BY DEF Table, Lists, ReadOrder, LyTypeOK
<1>2. ASSUME NEW type \in ListTypes, NEW v \in Entries,
             AddEntry(type, v) \/ DeleteEntry(type, v)
      PROVE  LyTypeOK'
  <2>1. lists' \in [Lists -> SUBSET Entries]
    BY <1>1, <1>2 DEF AddEntry, DeleteEntry
  <2>2. steady' \subseteq Entries
    BY <1>2 DEF AddEntry, DeleteEntry, LyTypeOK
  <2> QED
    BY <1>2, <2>1, <2>2 DEF AddEntry, DeleteEntry, LyTypeOK
<1>3. CASE ReadFirstList \/ ReadSecondList \/ ReadEnds
  <2>1. lists["black"] \subseteq Entries /\ lists["white"] \subseteq Entries
    BY <1>1 DEF Lists
  <2>2. lists[ReadOrder[1]] \subseteq Entries /\ lists[ReadOrder[2]] \subseteq Entries
    BY <1>1
  <2>3. Listed \subseteq Entries
    BY <2>1 DEF Listed
  <2>4. reader.seen \subseteq Entries
    BY DEF LyTypeOK
  <2>5. steady' \subseteq Entries
    BY <1>3, <2>3 DEF ReadFirstList, ReadSecondList, ReadEnds, LyTypeOK
  <2>6. reader' \in [next : {"first", "second", "answer"}, seen : SUBSET Entries]
    BY <1>3, <2>2, <2>4 DEF ReadFirstList, ReadSecondList, ReadEnds
  <2> QED
    BY <1>3, <2>5, <2>6 DEF ReadFirstList, ReadSecondList, ReadEnds, LyTypeOK, lyTables
<1>4. ASSUME NEW k \in ConfigKeys, SetConfig(k)
      PROVE  LyTypeOK'
  BY <1>4 DEF SetConfig, LyTypeOK
<1>5. ASSUME NEW o \in Assets, SetMO(o) \/ SeedObjects(o)
      PROVE  LyTypeOK'
  <2>1. objects' \in [Assets -> {NoRow} \cup [text : {"seed", "person"}, place : {"seed", "person"}]]
    <3>1. objects \in [Assets -> {NoRow} \cup [text : {"seed", "person"}, place : {"seed", "person"}]]
      BY DEF LyTypeOK
    <3>2. \/ objects' = [objects EXCEPT ![o] = [text |-> "person", place |-> "person"]]
          \/ objects[o] = NoRow /\ objects' = [objects EXCEPT ![o] = [text |-> "seed", place |-> "seed"]]
          \/ objects[o] # NoRow /\ objects' = [objects EXCEPT ![o] = [objects[o] EXCEPT !.text = "seed"]]
      BY <1>5, <3>1 DEF SetMO, SeedObjects
    <3> QED
      BY <3>1, <3>2
  <2> QED
    BY <1>5, <2>1 DEF SetMO, SeedObjects, LyTypeOK
<1>6. CASE CreateLySchema
  BY <1>6 DEF CreateLySchema, LyTypeOK
<1> QED
  BY <1>2, <1>3, <1>4, <1>5, <1>6 DEF LyRequest

\* The row of a statement that inserts one.
LEMMA RowStatement ==
    ASSUME todo \in Seq(Statements), Sends("row")
    PROVE  \E k \in 1..6 : /\ Head(todo) = Stmt("row", DemoRows[k])
                           /\ Head(todo).key = DemoRows[k]
                           /\ DemoRows[k][1] \in DemoTables
<1>1. Head(todo) \in Statements /\ Head(todo).op = "row"
  BY TailStatements DEF Sends
<1>2. \A op \in {"reset", "schema", "prompts", "admin", "event", "summary",
                 "ly-schema", "ly-seed"} : Stmt(op, "").op # "row"
  BY StatementsAre
<1>3. PICK k \in 1..6 : Head(todo) = Stmt("row", DemoRows[k])
  BY <1>1, <1>2 DEF Statements
<1>4. Head(todo).key = DemoRows[k] /\ DemoRows[k][1] \in DemoTables
  <2>1. Stmt("row", DemoRows[k]).key = DemoRows[k]
    BY DEF Stmt
  <2>2. DemoRows[k][1] \in DemoTables
    BY DemoRowsAre
  <2> QED
    BY <1>3, <2>1, <2>2
<1> QED
  BY <1>3, <1>4

\* A statement was sent: what is left has no reset.
LEMMA SentTyped ==
    ASSUME WorkInv, NEW op, Sends(op), Done, round' = round
    PROVE  WorkInv' /\ ResetsIn(todo)' = {}
<1>1. /\ todo \in Seq(Statements) /\ todo # <<>> /\ todo' = Tail(todo)
      /\ ResetsIn(todo) \subseteq {1} /\ round \in Rounds
  BY DEF WorkInv, Sends, Done
<1>2. Tail(todo) \in Seq(Statements) /\ ResetsIn(Tail(todo)) = {}
  BY <1>1, TailStatements
<1>3. ResetsIn(todo)' = {}
  BY <1>1, <1>2 DEF ResetsIn
<1> QED
  BY <1>1, <1>2, <1>3 DEF WorkInv

\* Rows keep their shape when one is added.
RowsTyped(rs, l) ==
    \A r \in rs : r.table \in ChildTables /\ r.event \in EventIds /\ r.life \in 0..l

\* A row that a step adds has a table, an event and the present life.
LEMMA RowTyped ==
    ASSUME TypeOK, NEW t \in ChildTables, NEW k, NEW e \in EventIds
    PROVE  RowsTyped(rows \cup {Row(t, k, e)}, life)
<1>1. life \in Nat /\ life \in 0..life
  <2>1. life \in 0..MaxResets /\ MaxResets \in Nat
    BY BootstrapAssumption DEF TypeOK
  <2> QED
    BY <2>1
<1> DEFINE r == Row(t, k, e)
<1>2. r.table = t /\ r.event = e /\ r.life = life
  BY DEF Row
<1>3. RowsTyped(rows, life)
  BY DEF TypeOK, RowsTyped
<1> HIDE DEF r
<1>4. RowsTyped(rows \cup {r}, life)
  BY <1>1, <1>2, <1>3 DEF RowsTyped
<1> QED
  BY <1>4 DEF r

\* Each step of traffic-admin.
LEMMA AdminTyped ==
    ASSUME TypeOK, WorkInv, Admin, crowd' = crowd
    PROVE  TypeOK' /\ WorkInv'
<1>0. /\ LyTypeOK /\ life \in 0..MaxResets /\ MaxResets \in Nat /\ MaxLoads \in Nat
      /\ loads \in 0..MaxLoads /\ RowsTyped(rows, life)
      /\ events \in [EventIds -> {Absent, "pending", "finished"}]
  BY BootstrapAssumption DEF TypeOK, RowsTyped
<1>1. ASSUME NEW flags \in Commands[crowd], Start(flags)
      PROVE  TypeOK' /\ WorkInv'
  <2>1. TypeOK'
    BY <1>1 DEF Start, TypeOK, lyVars, lyTables, LyTypeOK, database, requests, history
  <2>2. todo' = Plan(flags) /\ UNCHANGED <<life, round>>
    BY <1>1 DEF Start, history, requests
  <2>3. /\ Plan(flags) \in Seq(Statements) /\ Ordered(Plan(flags))
        /\ ResetsIn(Plan(flags)) \subseteq {1}
        /\ flags \notin {"init", "init-with-demo", "reset"} => ResetsIn(Plan(flags)) = {}
    BY PlanOrdered
  <2>4. ResetsIn(Plan(flags)) # {} => life < MaxResets
    BY <1>1, <2>3 DEF Start
  <2>5. ResetsIn(todo)' = ResetsIn(Plan(flags)) /\ Ordered(todo)' = Ordered(Plan(flags))
    BY <2>2 DEF ResetsIn, Ordered, Prompted, Given
  <2> QED
    BY <2>1, <2>2, <2>3, <2>4, <2>5 DEF WorkInv
<1>2. CASE Interrupted
  <2>1. TypeOK'
    BY <1>2 DEF Interrupted, TypeOK, lyVars, lyTables, LyTypeOK, database, requests, history
  <2>2. todo' = <<>> /\ UNCHANGED <<life, round>>
    BY <1>2 DEF Interrupted, history, requests
  <2>3. todo' \in Seq(Statements) /\ ResetsIn(todo)' = {}
    BY <2>2, EmptyPlan DEF ResetsIn
  <2> QED
    BY <2>2, <2>1, <2>3 DEF WorkInv
<1>3. CASE ResetSchema
  <2>1. WorkInv'
    BY <1>3, SentTyped DEF ResetSchema, requests
  <2>2. life < MaxResets
    <3>1. todo \in Seq(Statements) /\ todo # <<>> /\ Head(todo).op = "reset"
      BY <1>3 DEF ResetSchema, Sends, WorkInv
    <3>2. 1 \in ResetsIn(todo)
      BY <3>1, TailStatements DEF ResetsIn
    <3> QED
      BY <3>2 DEF WorkInv
  <2>3. life + 1 \in 0..MaxResets /\ 0 \in 0..MaxLoads /\ \A n \in 0..life : n \in 0..life + 1
    BY <1>0, <2>2
  <2>4. RowsTyped(rows', life')
    BY <1>0, <1>3, <2>3 DEF ResetSchema, RowsTyped
  <2>5. events' \in [EventIds -> {Absent, "pending", "finished"}]
    BY <1>3 DEF ResetSchema
  <2>6. LyTypeOK'
    BY <1>0, <1>3 DEF ResetSchema, lyVars, lyTables, LyTypeOK
  <2>7. straddled' \subseteq EventIds
    <3>1. round.event \in EventIds /\ \A p \in Pushers : push[p].event \in EventIds
      BY DEF WorkInv, Rounds, TypeOK
    <3> QED
      BY <1>3, <3>1 DEF ResetSchema, UnderWay
  <2>8. TypeOK'
    BY <1>3, <2>3, <2>4, <2>5, <2>6, <2>7 DEF ResetSchema, TypeOK, RowsTyped, requests
  <2> QED
    BY <2>1, <2>8
<1>4. CASE CreateSchema
  <2>1. WorkInv'
    BY <1>4, SentTyped DEF CreateSchema, requests
  <2>2. TypeOK'
    BY <1>4 DEF CreateSchema, TypeOK, lyVars, lyTables, LyTypeOK, requests, history
  <2> QED
    BY <2>1, <2>2
<1>5. ASSUME NEW r \in Roles, SeedPrompt(r)
      PROVE  TypeOK' /\ WorkInv'
  <2>1. UNCHANGED <<round, life>>
    BY <1>5 DEF SeedPrompt, requests, history
  <2>2. ASSUME Done
        PROVE  WorkInv'
    BY <1>5, <2>1, <2>2, SentTyped DEF SeedPrompt
  <2>3. ASSUME todo' = todo
        PROVE  WorkInv'
    BY <2>1, <2>3 DEF WorkInv, ResetsIn, Ordered, Prompted, Given
  <2>4. TypeOK'
    BY <1>5 DEF SeedPrompt, TypeOK, lyVars, lyTables, LyTypeOK, requests, history
  <2>5. WorkInv'
    BY <1>5, <2>2, <2>3 DEF SeedPrompt
  <2> QED
    BY <2>4, <2>5
<1>6. CASE SeedAdmin
  <2>1. WorkInv'
    BY <1>6, SentTyped DEF SeedAdmin, requests
  <2>2. users' \subseteq Users
    <3>1. users' = UpsertAdmin /\ users \subseteq Users
      BY <1>6 DEF SeedAdmin, TypeOK
    <3>2. SeedUser("admin123") \in Users
      BY DEF SeedUser, Users, UserIds, Passwords
    <3>3. \A u \in Users : [u EXCEPT !.password = "admin123"] \in Users
      BY DEF Users, Passwords
    <3> QED
      BY <3>1, <3>2, <3>3 DEF UpsertAdmin
  <2>3. touched' \in BOOLEAN /\ seeded' \in BOOLEAN
    BY <1>6 DEF SeedAdmin
  <2>4. TypeOK'
    BY <1>6, <2>2, <2>3 DEF SeedAdmin, TypeOK, lyVars, lyTables, LyTypeOK, requests
  <2> QED
    BY <2>1, <2>4
<1>7. CASE SeedDemoEvent
  <2>1. WorkInv'
    BY <1>7, SentTyped DEF SeedDemoEvent, requests
  <2>2. events' \in [EventIds -> {Absent, "pending", "finished"}]
    BY <1>0, <1>7 DEF SeedDemoEvent
  <2>3. TypeOK'
    BY <1>7, <2>2 DEF SeedDemoEvent, TypeOK, lyVars, lyTables, LyTypeOK, requests, history
  <2> QED
    BY <2>1, <2>3
<1>8. CASE SeedDemoRow
  <2>1. WorkInv'
    BY <1>8, SentTyped DEF SeedDemoRow, requests
  <2>2. RowsTyped(rows', life)
    <3>1. PICK k \in 1..6 : Head(todo).key = DemoRows[k] /\ DemoRows[k][1] \in DemoTables
      BY <1>8, RowStatement DEF SeedDemoRow, WorkInv
    <3>2. /\ DemoRows[k][1] \in ChildTables /\ DemoEvent \in EventIds
          /\ \/ rows' = rows
             \/ rows' = rows \cup {Row(DemoRows[k][1], DemoRows[k][2], DemoEvent)}
      BY <1>8, <3>1, BootstrapAssumption DEF SeedDemoRow, DemoTables, ChildTables, ReferringTables
    <3> QED
      BY <1>0, <3>2, RowTyped
  <2>3. TypeOK'
    BY <1>8, <2>2 DEF SeedDemoRow, TypeOK, RowsTyped, lyVars, lyTables, LyTypeOK, requests, history
  <2> QED
    BY <2>1, <2>3
<1>9. CASE SeedSummary
  <2>1. WorkInv'
    BY <1>9, SentTyped DEF SeedSummary, requests
  <2>2. RowsTyped(rows', life)
    BY <1>9, RowTyped, BootstrapAssumption DEF SeedSummary, ChildTables, ReferringTables
  <2>3. loads + 1 \in 0..MaxLoads
    BY <1>0, <1>9 DEF SeedSummary
  <2>4. TypeOK'
    BY <1>9, <2>2, <2>3 DEF SeedSummary, TypeOK, RowsTyped, lyVars, lyTables, LyTypeOK, requests
  <2> QED
    BY <2>1, <2>4
<1>10. CASE LySchema \/ LySeed
  <2>1. WorkInv'
    BY <1>10, SentTyped DEF LySchema, LySeed, requests
  <2>2. LyTypeOK'
    BY <1>0, <1>10, LyTyped, BootstrapAssumption DEF LySchema, LySeed
  <2>3. TypeOK'
    BY <1>10, <2>2 DEF LySchema, LySeed, TypeOK, database, requests, history
  <2> QED
    BY <2>1, <2>3
<1> QED
  BY <1>1, <1>2, <1>3, <1>4, <1>5, <1>6, <1>7, <1>8, <1>9, <1>10 DEF Admin

\* What a step of a push may do: to its own state, to the rows and the events.
LEMMA PushDoes ==
    ASSUME TypeOK, NEW p \in Pushers, Pushes(p)
    PROVE  LET e == push[p].event IN
           /\ UNCHANGED <<lyVars, tables, users, prompts, todo, api, update, round, history>>
           /\ e \in EventIds
           /\ push' \in [Pushers -> [step : Steps, event : EventIds, key : {"empty", "bound"}]]
           /\ events' \in {events, [events EXCEPT ![e] = "pending"]}
           /\ \/ rows' = rows
              \/ rows' = rows \cup {Row("event_maps", "empty", e)}
              \/ rows' = Upsert("event_maps", "bound", e)
              \/ rows' = Upsert("pushed_events", push[p].key, e)
<1> DEFINE e == push[p].event
           Typed(f) == f \in [Pushers -> [step : Steps, event : EventIds, key : {"empty", "bound"}]]
<1>1. Typed(push) /\ e \in EventIds
  BY DEF TypeOK
<1>2. ASSUME NEW step \in Steps, Goto(p, step)
      PROVE  Typed(push')
  BY <1>1, <1>2 DEF Goto
<1>3. ASSUME NEW key \in {"empty", "bound"}, Saves(p, key)
      PROVE  Typed(push')
  BY <1>1, <1>3 DEF Saves, Steps
<1>4. ASSUME push' = [push EXCEPT ![p] = NoPush]
      PROVE  Typed(push')
  BY <1>1, <1>4, NoPushTyped
<1>5. \A t : {"reserve", "lookup", "create", "bind"} \subseteq Steps
  BY DEF Steps
<1> HIDE DEF Typed
<1>6. CASE Reserve(p)
  BY <1>1, <1>2, <1>5, <1>6 DEF Reserve, Typed
<1>7. CASE NotReserved(p)
  BY <1>1, <1>2, <1>5, <1>7 DEF NotReserved, Typed, database
<1>8. CASE LookUp(p)
  <2>1. Typed(push')
    <3>1. Saves(p, "empty") \/ Saves(p, "bound")
      BY <1>8 DEF LookUp
    <3> QED
      BY <1>3, <3>1
  <2> QED
    BY <1>1, <1>8, <2>1 DEF LookUp, Typed, database
<1>9. CASE LocalCreate(p) \/ LocalCreateFails(p)
  <2>1. Goto(p, "bind") \/ Goto(p, "reserve") \/ Saves(p, "empty")
    BY <1>9 DEF LocalCreate, LocalCreateFails, TriesAgain
  <2>2. Typed(push')
    BY <1>2, <1>3, <1>5, <2>1
  <2> QED
    BY <1>1, <1>9, <2>2 DEF LocalCreate, LocalCreateFails, Typed, database
<1>10. CASE BindEventMap(p)
  BY <1>1, <1>3, <1>10 DEF BindEventMap, Typed
<1>11. CASE SavePushedEvent(p)
  BY <1>1, <1>4, <1>11 DEF SavePushedEvent, Typed
<1> QED
  BY <1>6, <1>7, <1>8, <1>9, <1>10, <1>11 DEF Pushes, Typed

\* Each step of a push.
LEMMA PushTyped ==
    ASSUME TypeOK, WorkInv, NEW p \in Pushers, Pushes(p), crowd' = crowd
    PROVE  TypeOK' /\ WorkInv'
<1> DEFINE e == push[p].event
<1>1. /\ UNCHANGED <<lyVars, tables, users, prompts, todo, api, update, round, history>>
      /\ e \in EventIds
      /\ push' \in [Pushers -> [step : Steps, event : EventIds, key : {"empty", "bound"}]]
      /\ events' \in {events, [events EXCEPT ![e] = "pending"]}
      /\ \/ rows' = rows
         \/ rows' = rows \cup {Row("event_maps", "empty", e)}
         \/ rows' = Upsert("event_maps", "bound", e)
         \/ rows' = Upsert("pushed_events", push[p].key, e)
  BY PushDoes
<1> HIDE DEF e
<1>2. WorkInv'
  BY <1>1 DEF WorkInv, history, ResetsIn, Ordered, Prompted, Given
<1>3. RowsTyped(rows', life)
  <2>1. RowsTyped(rows, life)
    BY DEF TypeOK, RowsTyped
  <2>2. ASSUME NEW t \in {"event_maps", "pushed_events"}, NEW key,
               rows' \subseteq rows \cup {Row(t, key, e)}
        PROVE  RowsTyped(rows', life)
    <3>1. t \in ChildTables
      BY DEF ChildTables
    <3>2. RowsTyped(rows \cup {Row(t, key, e)}, life)
      BY <1>1, <3>1, RowTyped
    <3> QED
      BY <2>2, <3>2 DEF RowsTyped
  <2>3. \/ rows' = rows
        \/ rows' \subseteq rows \cup {Row("event_maps", "empty", e)}
        \/ rows' \subseteq rows \cup {Row("event_maps", "bound", e)}
        \/ rows' \subseteq rows \cup {Row("pushed_events", push[p].key, e)}
    BY <1>1 DEF Upsert
  <2> QED
    BY <2>1, <2>2, <2>3
<1>4. events' \in [EventIds -> {Absent, "pending", "finished"}]
  BY <1>1 DEF TypeOK
<1>5. TypeOK'
  BY <1>1, <1>3, <1>4 DEF TypeOK, RowsTyped, lyVars, lyTables, LyTypeOK, history
<1> QED
  BY <1>2, <1>5

\* Each step of traffic-api and of its requests.
LEMMA ApiTyped ==
    ASSUME TypeOK, WorkInv, Api, crowd' = crowd
    PROVE  TypeOK' /\ WorkInv'
<1>0. /\ LyTypeOK /\ logins \in 0..MaxLogins /\ MaxLogins \in Nat
      /\ RowsTyped(rows, life) /\ users \subseteq Users
      /\ events \in [EventIds -> {Absent, "pending", "finished"}]
      /\ update \in [id : UserIds, password : Passwords] \cup {NoUpdate} /\ round \in Rounds
      /\ push \in [Pushers -> [step : Steps, event : EventIds, key : {"empty", "bound"}]]
  BY BootstrapAssumption DEF TypeOK, RowsTyped, WorkInv
<1>1. NoRound \in Rounds
  BY BootstrapAssumption, EmptySeq DEF NoRound, Rounds
\* The command goes on as before.
<1>2. ASSUME UNCHANGED <<todo, life>>, round' \in Rounds
      PROVE  WorkInv'
  BY <1>2 DEF WorkInv, ResetsIn, Ordered, Prompted, Given
<1>3. CASE ApiMigrates
  <2>1. WorkInv'
    BY <1>0, <1>2, <1>3 DEF ApiMigrates, requests, history
  <2>2. TypeOK'
    BY <1>3 DEF ApiMigrates, TypeOK, lyVars, lyTables, LyTypeOK, requests, history
  <2> QED
    BY <2>1, <2>2
<1>4. CASE ApiSeeds
  <2>1. WorkInv'
    BY <1>0, <1>2, <1>4 DEF ApiSeeds, requests, history
  <2>2. users' \subseteq Users
    <3>1. SeedUser("admin") \in Users
      BY DEF SeedUser, Users, UserIds, Passwords
    <3>2. users' = users \/ users' = users \cup {SeedUser("admin")}
      BY <1>4 DEF ApiSeeds
    <3> QED
      BY <1>0, <3>1, <3>2
  <2>3. TypeOK'
    BY <1>4, <2>2 DEF ApiSeeds, TypeOK, lyVars, lyTables, LyTypeOK, requests, history
  <2> QED
    BY <2>1, <2>3
<1>5. CASE ApiStops
  <2>1. WorkInv'
    BY <1>1, <1>2, <1>5 DEF ApiStops, history
  <2>2. TypeOK'
    BY <1>5, NoPushTyped DEF ApiStops, TypeOK, lyVars, lyTables, LyTypeOK, database, history
  <2> QED
    BY <2>1, <2>2
<1>6. ASSUME CountUserChange
      PROVE  logins' \in 0..MaxLogins
  <2>1. logins < MaxLogins /\ logins' = logins + 1
    BY <1>6 DEF CountUserChange
  <2>2. logins \in 0..MaxLogins /\ MaxLogins \in Nat
    BY <1>0
  <2> QED
    BY <2>1, <2>2
<1>7. ASSUME NEW i \in UserIds, NEW n \in UserIds, CreateUser(i, n)
      PROVE  TypeOK' /\ WorkInv'
  <2>1. WorkInv'
    BY <1>0, <1>2, <1>7 DEF CreateUser, requests
  <2>2. users' \subseteq Users
    <3>1. [id |-> i, name |-> n, password |-> "own"] \in Users
      BY DEF Users, Passwords
    <3> QED
      BY <1>0, <1>7, <3>1 DEF CreateUser
  <2>3. logins' \in 0..MaxLogins
    BY <1>6, <1>7 DEF CreateUser
  <2>4. TypeOK'
    BY <1>7, <2>2, <2>3 DEF CreateUser, TypeOK, lyVars, lyTables, LyTypeOK, requests
  <2> QED
    BY <2>1, <2>4
<1>8. ASSUME NEW u \in users, DeleteUser(u)
      PROVE  TypeOK' /\ WorkInv'
  <2>1. WorkInv'
    BY <1>0, <1>2, <1>8 DEF DeleteUser, requests
  <2>2. users' \subseteq Users
    BY <1>0, <1>8 DEF DeleteUser
  <2>3. logins' \in 0..MaxLogins /\ touched' \in BOOLEAN
    BY <1>6, <1>8 DEF DeleteUser
  <2>4. TypeOK'
    BY <1>8, <2>2, <2>3 DEF DeleteUser, TypeOK, lyVars, lyTables, LyTypeOK, requests
  <2> QED
    BY <2>1, <2>4
<1>9. ASSUME NEW u \in users, ReadUser(u)
      PROVE  TypeOK' /\ WorkInv'
  <2>1. WorkInv'
    BY <1>0, <1>2, <1>9 DEF ReadUser
  <2>2. update' \in [id : UserIds, password : Passwords] \cup {NoUpdate}
    BY <1>0, <1>9 DEF ReadUser, Users
  <2>3. logins' \in 0..MaxLogins
    BY <1>6, <1>9 DEF ReadUser
  <2>4. TypeOK'
    BY <1>9, <2>2, <2>3 DEF ReadUser, TypeOK, lyVars, lyTables, LyTypeOK, database
  <2> QED
    BY <2>1, <2>4
<1>10. ASSUME NEW password \in {update.password, "own"}, WriteUser(password)
       PROVE  TypeOK' /\ WorkInv'
  <2>1. WorkInv'
    BY <1>0, <1>2, <1>10 DEF WriteUser
  <2>2. users' \subseteq Users
    <3>1. password \in Passwords
      <4>1. update.password \in Passwords
        BY <1>0, <1>10 DEF WriteUser
      <4> QED
        BY <1>10, <4>1 DEF Passwords
    <3>2. \A u \in Users : [u EXCEPT !.password = password] \in Users
      BY <3>1 DEF Users
    <3> QED
      BY <1>0, <1>10, <3>2 DEF WriteUser
  <2>3. update' = NoUpdate /\ touched' \in BOOLEAN
    BY <1>10 DEF WriteUser
  <2>4. TypeOK'
    BY <1>10, <2>2, <2>3 DEF WriteUser, TypeOK, lyVars, lyTables, LyTypeOK
  <2> QED
    BY <2>1, <2>4
<1>11. ASSUME NEW e \in EventIds, CreateEvent(e)
       PROVE  TypeOK' /\ WorkInv'
  <2>1. WorkInv'
    BY <1>0, <1>2, <1>11 DEF CreateEvent, requests, history
  <2>2. events' \in [EventIds -> {Absent, "pending", "finished"}]
    BY <1>0, <1>11 DEF CreateEvent
  <2>3. TypeOK'
    BY <1>11, <2>2 DEF CreateEvent, TypeOK, lyVars, lyTables, LyTypeOK, requests, history
  <2> QED
    BY <2>1, <2>3
<1>12. ASSUME NEW e \in EventIds, StartRound(e)
       PROVE  TypeOK' /\ WorkInv'
  <2>1. RoundTables \in Seq(ChildTables)
    BY DEF RoundTables, ChildTables, ReferringTables
  <2>2. round' \in Rounds
    BY <1>12, <2>1 DEF StartRound, Rounds
  <2>3. WorkInv'
    BY <1>2, <1>12, <2>2 DEF StartRound, history
  <2>4. TypeOK'
    BY <1>12 DEF StartRound, TypeOK, lyVars, lyTables, LyTypeOK, database, history
  <2> QED
    BY <2>3, <2>4
<1>13. CASE FillsTable
  <2>1. /\ round.event \in EventIds /\ round.left \in Seq(ChildTables)
        /\ round = [event |-> round.event, left |-> round.left]
    BY <1>0 DEF Rounds
  <2>2. Head(round.left) \in ChildTables /\ Tail(round.left) \in Seq(ChildTables)
    BY <1>13, <2>1, HeadTailProperties DEF FillsTable
  <2>3. round' \in Rounds
    <3>1. \/ round' = NoRound
          \/ round' = [round EXCEPT !.left = Tail(round.left)]
      BY <1>13 DEF FillsTable
    <3> QED
      BY <1>0, <1>1, <2>2, <3>1 DEF Rounds
  <2>4. RowsTyped(rows', life)
    BY <1>13, <2>1, <2>2, RowTyped DEF FillsTable
  <2>5. events' \in [EventIds -> {Absent, "pending", "finished"}]
    BY <1>0, <1>13 DEF FillsTable
  <2>6. WorkInv'
    BY <1>2, <1>13, <2>3 DEF FillsTable, history
  <2>7. TypeOK'
    BY <1>13, <2>4, <2>5
       DEF FillsTable, TypeOK, RowsTyped, lyVars, lyTables, LyTypeOK, history
  <2> QED
    BY <2>6, <2>7
<1>14. CASE RoundFails
  <2>1. WorkInv'
    BY <1>1, <1>2, <1>14 DEF RoundFails, history
  <2>2. TypeOK'
    BY <1>14 DEF RoundFails, TypeOK, lyVars, lyTables, LyTypeOK, database, history
  <2> QED
    BY <2>1, <2>2
<1>15. CASE LyRequest /\ UNCHANGED <<database, todo, api, requests, history>>
  <2>1. WorkInv'
    BY <1>0, <1>2, <1>15 DEF requests, history
  <2>2. LyTypeOK'
    BY <1>0, <1>15, LyTyped
  <2>3. TypeOK'
    BY <1>15, <2>2 DEF TypeOK, database, requests, history
  <2> QED
    BY <2>1, <2>3
<1>16. ASSUME NEW p \in Pushers, NEW e \in EventIds, StartPush(p, e)
       PROVE  TypeOK' /\ WorkInv'
  <2>1. WorkInv'
    BY <1>0, <1>2, <1>16 DEF StartPush, history
  <2>2. TypeOK'
    BY <1>0, <1>16 DEF StartPush, Pushing, Steps, TypeOK, lyVars, lyTables, LyTypeOK, database, history
  <2> QED
    BY <2>1, <2>2
<1>17. ASSUME NEW p \in Pushers, Pushes(p)
       PROVE  TypeOK' /\ WorkInv'
  BY <1>17, PushTyped
<1> QED
  BY <1>3, <1>4, <1>5, <1>7, <1>8, <1>9, <1>10, <1>11, <1>12, <1>13, <1>14, <1>15, <1>16, <1>17
     DEF Api

\* Every variable keeps its shape, counters stay within their bounds, and a
\* command that has still to reset the schema has all its statements before it.
THEOREM Typing == Spec => [](TypeOK /\ WorkInv)
<1>1. TypeOK /\ WorkInv /\ [Next]_vars => TypeOK' /\ WorkInv'
  <2> SUFFICES ASSUME TypeOK, WorkInv, [Next]_vars PROVE TypeOK' /\ WorkInv'
    OBVIOUS
  <2>1. CASE Next
    BY <2>1, AdminTyped, ApiTyped DEF Next
  <2>2. CASE UNCHANGED vars
    <3>1. UNCHANGED <<lyVars, crowd, database, todo, api, requests, history>>
      BY <2>2 DEF vars
    <3>2. TypeOK'
      BY <3>1 DEF TypeOK, lyVars, lyTables, LyTypeOK, database, requests, history
    <3>3. WorkInv'
      BY <3>1 DEF WorkInv, requests, history, ResetsIn, Ordered, Prompted, Given
    <3> QED
      BY <3>2, <3>3
  <2> QED
    BY <2>1, <2>2
<1> QED
  BY <1>1, InitTyped, PTL DEF Spec

-----------------------------------------------------------------------------
(* What outlives a reset.                                                  *)

\* A round or a push that counts on its event has the event, or was at work
\* on it at the last reset.
StrayInv ==
    /\ StraysHaveCauses
    /\ round # NoRound => events[round.event] # Absent \/ round.event \in straddled
    /\ \A p \in Pushers :
          push[p].step = "bind" \/ (push[p].step = "save" /\ push[p].key = "bound") =>
              events[push[p].event] # Absent \/ push[p].event \in straddled

\* What a row says that a step adds.
LEMMA RowIs ==
    \A t, key, e : LET r == Row(t, key, e) IN
        r.table = t /\ r.key = key /\ r.event = e /\ r.life = life
BY DEF Row

\* Steps that take no event away, leave the work that goes on as it is, or end
\* it, and add rows of events that are there.
LEMMA StraysKept ==
    ASSUME StrayInv, life' = life, straddled' = straddled,
           \A r \in rows : r.event \in EventIds,
           \A e \in EventIds : events'[e] = Absent => events[e] = Absent,
           \A r \in rows' :
              \/ r \in rows
              \/ /\ r.life = life /\ r.event \in EventIds
                 /\ \/ ~Names(r) \/ events[r.event] # Absent
                    \/ /\ r.table \in {"actions", "commands", "event_maps", "pushed_events"}
                       /\ r.event \in straddled,
           \/ round' = NoRound \/ round' = round \/ events[round'.event] # Absent
           \/ round # NoRound /\ round'.event = round.event,
           round'.event \in EventIds,
           \A p \in Pushers :
              \/ push'[p] = push[p]
              \/ push'[p].step \notin {"bind", "save"}
              \/ push'[p].step = "save" /\ push'[p].key # "bound"
              \/ events'[push'[p].event] # Absent
              \/ push'[p].event \in straddled,
           \A p \in Pushers : push[p].event \in EventIds
    PROVE  StrayInv'
<1>1. StraysHaveCauses'
  BY DEF StrayInv, StraysHaveCauses, Names
<1>2. round' # NoRound => events'[round'.event] # Absent \/ round'.event \in straddled
  BY DEF StrayInv
<1>3. ASSUME NEW p \in Pushers,
             push'[p].step = "bind" \/ (push'[p].step = "save" /\ push'[p].key = "bound")
      PROVE  events'[push'[p].event] # Absent \/ push'[p].event \in straddled
  BY <1>3 DEF StrayInv
<1> QED
  BY <1>1, <1>2, <1>3 DEF StrayInv

\* Steps that touch neither rows nor events nor the work that goes on.
LEMMA StraysRest ==
    ASSUME StrayInv, UNCHANGED <<events, rows, round, push, life, straddled>>
    PROVE  StrayInv'
BY DEF StrayInv, StraysHaveCauses, Names

\* A reset: what was at work is written down, what stays is of an earlier life.
LEMMA StraysOfReset ==
    ASSUME TypeOK, ResetSchema
    PROVE  StrayInv'
<1>1. /\ rows' = {r \in rows : r.table \notin Dropped} /\ life' = life + 1
      /\ UNCHANGED <<round, push>> /\ straddled' = UnderWay
  BY DEF ResetSchema, requests
<1>2. life \in Nat
  BY BootstrapAssumption DEF TypeOK
<1>3. \A r \in rows' : r.table \in {"actions", "commands"} /\ r.life # life'
  <2>1. ASSUME NEW r \in rows, r.table \notin Dropped
        PROVE  r.table \in {"actions", "commands"} /\ r.life # life + 1
    <3>1. r.table \in Tables /\ r.life \in 0..life
      BY DEF TypeOK, Tables
    <3>2. r.table \in {"actions", "commands"}
      BY <2>1, <3>1 DEF Dropped
    <3> QED
      BY <1>2, <3>1, <3>2
  <2> QED
    BY <1>1, <2>1
<1>4. StraysHaveCauses'
  BY <1>3 DEF StraysHaveCauses
<1>5. round' # NoRound => round'.event \in straddled'
  BY <1>1 DEF UnderWay
<1>6. \A p \in Pushers : push'[p].step \in {"bind", "save"} => push'[p].event \in straddled'
  BY <1>1 DEF UnderWay, NoPush, Pushing
<1> QED
  BY <1>4, <1>5, <1>6 DEF StrayInv

\* Each step of a push: it names an event that it has made, or found bound.
LEMMA StraysOfPush ==
    ASSUME TypeOK, WorkInv, StrayInv, NEW p \in Pushers, Pushes(p)
    PROVE  StrayInv'
<1> DEFINE e == push[p].event
<1>1. /\ UNCHANGED <<round, life, straddled>> /\ e \in EventIds /\ round.event \in EventIds
      /\ events' \in {events, [events EXCEPT ![e] = "pending"]}
      /\ events \in [EventIds -> {Absent, "pending", "finished"}] /\ Absent # "pending"
      /\ \A r \in rows : r.event \in EventIds
      /\ \A q \in Pushers : push[q].event \in EventIds
      /\ push \in [Pushers -> [step : Steps, event : EventIds, key : {"empty", "bound"}]]
  BY PushDoes, BootstrapAssumption DEF history, WorkInv, Rounds, TypeOK
<1>2. \A d \in EventIds : events'[d] = Absent => events[d] = Absent
  BY <1>1
\* What is left to show of the rows and of the push itself.
<1>3. ASSUME \A r \in rows' :
                \/ r \in rows
                \/ /\ r.life = life /\ r.event \in EventIds
                   /\ \/ ~Names(r) \/ events[r.event] # Absent
                      \/ /\ r.table \in {"actions", "commands", "event_maps", "pushed_events"}
                         /\ r.event \in straddled,
             \/ push'[p].step \notin {"bind", "save"}
             \/ push'[p].step = "save" /\ push'[p].key # "bound"
             \/ events'[push'[p].event] # Absent
             \/ push'[p].event \in straddled,
             \A q \in Pushers \ {p} : push'[q] = push[q]
      PROVE  StrayInv'
  <2>1. \A q \in Pushers :
           \/ push'[q] = push[q]
           \/ push'[q].step \notin {"bind", "save"}
           \/ push'[q].step = "save" /\ push'[q].key # "bound"
           \/ events'[push'[q].event] # Absent
           \/ push'[q].event \in straddled
    BY <1>3
  <2> QED
    BY <1>1, <1>2, <1>3, <2>1, StraysKept
<1>4. ASSUME NEW step \in {"reserve", "lookup", "create"}, Goto(p, step)
      PROVE  /\ \A q \in Pushers \ {p} : push'[q] = push[q]
             /\ push'[p].step \notin {"bind", "save"}
  BY <1>1, <1>4 DEF Goto
<1>5. ASSUME NEW key, Saves(p, key)
      PROVE  /\ \A q \in Pushers \ {p} : push'[q] = push[q]
             /\ push'[p].step = "save" /\ push'[p].key = key /\ push'[p].event = e
  BY <1>1, <1>5 DEF Saves
<1>6. CASE Reserve(p)
  <2>1. /\ rows' = rows \cup {Row("event_maps", "empty", e)}
        /\ Goto(p, "create") \/ Goto(p, "lookup")
    BY <1>6 DEF Reserve
  <2>2. \A r \in rows' : r \in rows \/ (r.life = life /\ r.event \in EventIds /\ ~Names(r))
    <3> DEFINE new == Row("event_maps", "empty", e)
    <3>1. new.key = "empty" /\ new.event = e /\ new.life = life
      BY RowIs
    <3> HIDE DEF new
    <3> QED
      BY <1>1, <2>1, <3>1 DEF Names, new
  <2> QED
    BY <1>3, <1>4, <2>1, <2>2
<1>7. CASE NotReserved(p)
  BY <1>3, <1>4, <1>7 DEF NotReserved, database
<1>8. CASE LookUp(p)
  <2>1. rows' = rows /\ events' = events
    BY <1>8 DEF LookUp, database
  <2>2. CASE Saves(p, "empty")
    BY <1>3, <1>5, <2>1, <2>2
  <2>3. ASSUME NEW r \in RowsOf("event_maps", e), Names(r), Saves(p, "bound")
        PROVE  StrayInv'
    <3>1. events[e] # Absent \/ e \in straddled
      BY <2>3 DEF RowsOf, StrayInv, StraysHaveCauses
    <3> QED
      BY <1>3, <1>5, <2>1, <2>3, <3>1
  <2> QED
    BY <1>8, <2>2, <2>3 DEF LookUp
<1>9. CASE LocalCreate(p) \/ LocalCreateFails(p)
  <2>1. rows' = rows
    BY <1>9 DEF LocalCreate, LocalCreateFails, database
  <2>2. CASE Goto(p, "reserve") \/ Saves(p, "empty")
    BY <1>3, <1>4, <1>5, <2>1, <2>2
  <2>3. CASE Goto(p, "bind") /\ events' = [events EXCEPT ![e] = "pending"]
    <3>1. /\ \A q \in Pushers \ {p} : push'[q] = push[q]
          /\ push'[p].event = e
      BY <1>1, <2>3 DEF Goto
    <3>2. events'[e] # Absent
      BY <1>1, <2>3
    <3> QED
      BY <1>3, <2>1, <3>1, <3>2
  <2> QED
    BY <1>9, <2>2, <2>3 DEF LocalCreate, LocalCreateFails, TriesAgain
\* A bound row in the place of the one that was there.
<1>10. ASSUME NEW t \in {"event_maps", "pushed_events"}, NEW key,
              rows' = rows \/ rows' = Upsert(t, key, e),
              key = "empty" \/ events[e] # Absent \/ e \in straddled
       PROVE  \A r \in rows' :
                \/ r \in rows
                \/ /\ r.life = life /\ r.event \in EventIds
                   /\ \/ ~Names(r) \/ events[r.event] # Absent
                      \/ /\ r.table \in {"actions", "commands", "event_maps", "pushed_events"}
                         /\ r.event \in straddled
  <2> DEFINE new == Row(t, key, e)
  <2>1. new.table = t /\ new.key = key /\ new.event = e /\ new.life = life
    BY RowIs
  <2>2. rows' \subseteq rows \cup {new}
    BY <1>10 DEF Upsert
  <2> HIDE DEF new
  <2> QED
    BY <1>1, <1>10, <2>1, <2>2 DEF Names
<1>11. CASE BindEventMap(p)
  <2>1. /\ rows' = rows \/ rows' = Upsert("event_maps", "bound", e)
        /\ Saves(p, "bound") /\ events' = events /\ push[p].step = "bind"
    BY <1>11 DEF BindEventMap, At
  <2>2. events[e] # Absent \/ e \in straddled
    BY <2>1 DEF StrayInv, e
  <2> QED
    BY <1>3, <1>5, <1>10, <2>1, <2>2
<1>12. CASE SavePushedEvent(p)
  <2>1. /\ rows' = rows \/ rows' = Upsert("pushed_events", push[p].key, e)
        /\ push' = [push EXCEPT ![p] = NoPush] /\ push[p].step = "save"
    BY <1>12 DEF SavePushedEvent, At
  <2>2. push[p].key = "empty" \/ events[e] # Absent \/ e \in straddled
    BY <1>1, <2>1 DEF StrayInv
  <2>3. /\ \A q \in Pushers \ {p} : push'[q] = push[q]
        /\ push'[p].step = "idle"
    BY <1>1, <2>1 DEF NoPush, Pushing
  <2> QED
    BY <1>3, <1>10, <2>1, <2>2, <2>3
<1> QED
  BY <1>6, <1>7, <1>8, <1>9, <1>11, <1>12 DEF Pushes

\* Whatever a reset interrupts and whatever interrupts it, rows of an earlier
\* life are in the two tables that ResetSchema leaves out, and a row that names
\* an event which is gone was left by a round of agents or a push that was at
\* work on it at the last reset.
THEOREM StraysAreExplained == Spec => []StraysHaveCauses
<1>1. Init => StrayInv
  BY DEF Init, StrayInv, StraysHaveCauses, NoPush, Pushing
<1>2. ASSUME TypeOK, WorkInv, StrayInv, [Next]_vars
      PROVE  StrayInv'
  <2>0. /\ \A r \in rows : r.table \in ChildTables /\ r.event \in EventIds
        /\ events \in [EventIds -> {Absent, "pending", "finished"}]
        /\ Absent # "pending" /\ Absent # "finished"
        /\ DemoEvent \in EventIds /\ tables \subseteq Tables
        /\ round.event \in EventIds /\ NoRound.event \in EventIds
        /\ \A p \in Pushers : push[p].event \in EventIds
        /\ push \in [Pushers -> [step : Steps, event : EventIds, key : {"empty", "bound"}]]
    BY <1>2, BootstrapAssumption DEF TypeOK, WorkInv, Rounds, NoRound
  <2>1. CASE ResetSchema
    BY <1>2, <2>1, StraysOfReset
  <2>2. CASE SeedDemoEvent \/ \E e \in EventIds : CreateEvent(e)
    <3>1. PICK e \in EventIds : events' = [events EXCEPT ![e] = "pending"]
      BY <2>0, <2>2 DEF SeedDemoEvent, CreateEvent
    <3>2. UNCHANGED <<rows, life, straddled, round, push>>
      BY <2>2 DEF SeedDemoEvent, CreateEvent, history, requests
    <3>3. \A d \in EventIds : events'[d] = Absent => events[d] = Absent
      BY <2>0, <3>1
    <3> QED
      BY <1>2, <2>0, <3>2, <3>3, StraysKept
  <2>3. CASE SeedDemoRow \/ SeedSummary
    <3>1. /\ UNCHANGED <<events, life, straddled, round, push>> /\ events[DemoEvent] # Absent
          /\ \/ rows' = rows
             \/ \E t, k : rows' = rows \cup {Row(t, k, DemoEvent)}
      BY <2>3 DEF SeedDemoRow, SeedSummary, history, requests
    <3>2. \A r \in rows' : r \in rows \/ (r.life = life /\ r.event = DemoEvent)
      <4>1. \A t, k : Row(t, k, DemoEvent).life = life /\ Row(t, k, DemoEvent).event = DemoEvent
        BY RowIs
      <4> QED
        BY <3>1, <4>1
    <3> QED
      BY <1>2, <2>0, <3>1, <3>2, StraysKept
  <2>4. CASE FillsTable
    <3> DEFINE t == Head(round.left)
               row == Row(t, "round", round.event)
    <3>1. /\ Accepts(t) /\ rows' = rows \cup {row} /\ UNCHANGED <<life, straddled, push>>
          /\ round # NoRound
          /\ round' = NoRound \/ round'.event = round.event
      BY <1>2, <2>4 DEF FillsTable, history, WorkInv, Rounds, NoRound
    <3>2. row.table = t /\ row.life = life /\ row.event = round.event
      BY RowIs
    <3>3. t \in {"actions", "commands"} \/ events[round.event] # Absent
      BY <2>0, <3>1 DEF Accepts, Dropped
    <3>4. \A d \in EventIds : events'[d] = Absent => events[d] = Absent
      BY <2>0, <2>4 DEF FillsTable
    <3>5. events[round.event] # Absent \/ round.event \in straddled
      BY <1>2, <3>1 DEF StrayInv
    <3> HIDE DEF row, t
    <3>6. \A r \in rows' :
             \/ r \in rows
             \/ /\ r.life = life /\ r.event \in EventIds
                /\ \/ ~Names(r) \/ events[r.event] # Absent
                   \/ /\ r.table \in {"actions", "commands", "event_maps", "pushed_events"}
                      /\ r.event \in straddled
      BY <2>0, <3>1, <3>2, <3>3, <3>5
    <3>7. round'.event \in EventIds
      BY <2>0, <3>1
    <3>8. \A p \in Pushers : push'[p] = push[p]
      BY <3>1
    <3> QED
      BY <1>2, <2>0, <3>1, <3>4, <3>6, <3>7, <3>8, StraysKept
  <2>5. ASSUME NEW e \in EventIds, StartRound(e)
        PROVE  StrayInv'
    <3>1. /\ round'.event = e /\ events[e] # Absent
          /\ UNCHANGED <<events, rows, life, straddled, push>>
      BY <2>5 DEF StartRound, database, history
    <3>2. /\ round'.event \in EventIds
          /\ \A d \in EventIds : events'[d] = Absent => events[d] = Absent
          /\ \A r \in rows' : r \in rows
          /\ \A p \in Pushers : push'[p] = push[p]
      BY <2>5, <3>1
    <3>3. events[round'.event] # Absent
      BY <3>1
    <3> QED
      BY <1>2, <2>0, <3>1, <3>2, <3>3, StraysKept
  <2>6. ASSUME NEW p \in Pushers, NEW e \in EventIds, StartPush(p, e)
        PROVE  StrayInv'
    <3>1. UNCHANGED <<events, rows, life, straddled, round>>
      BY <2>6 DEF StartPush, database, history
    <3>2. /\ \A q \in Pushers \ {p} : push'[q] = push[q]
          /\ push'[p].step = "reserve"
      BY <2>0, <2>6 DEF StartPush, Pushing
    <3>3. \A q \in Pushers : push'[q] = push[q] \/ push'[q].step \notin {"bind", "save"}
      BY <3>2
    <3> QED
      BY <1>2, <2>0, <3>1, <3>3, StraysKept
  <2>7. ASSUME NEW p \in Pushers, Pushes(p)
        PROVE  StrayInv'
    BY <1>2, <2>7, StraysOfPush
  <2>8. CASE ApiStops \/ RoundFails
    <3>1. /\ UNCHANGED <<events, rows, life, straddled>> /\ round' = NoRound
          /\ push' = push \/ push' = [p \in Pushers |-> NoPush]
      BY <2>8 DEF ApiStops, RoundFails, database, history
    <3>2. \A p \in Pushers : push'[p] = push[p] \/ push'[p].step \notin {"bind", "save"}
      BY <3>1 DEF NoPush, Pushing
    <3>3. /\ round'.event \in EventIds
          /\ \A d \in EventIds : events'[d] = Absent => events[d] = Absent
          /\ \A r \in rows' : r \in rows
      BY <2>0, <3>1
    <3> QED
      BY <1>2, <2>0, <3>1, <3>2, <3>3, StraysKept
  <2>9. CASE \/ \E flags \in Commands[crowd] : Start(flags)
             \/ Interrupted \/ CreateSchema \/ SeedAdmin \/ LySchema \/ LySeed
             \/ \E r \in Roles : SeedPrompt(r)
    BY <1>2, <2>9, StraysRest
       DEF Start, Interrupted, CreateSchema, SeedAdmin, LySchema, LySeed, SeedPrompt,
           database, history, requests
  <2>10. CASE \/ ApiMigrates \/ ApiSeeds
              \/ UNCHANGED <<database, todo, api, requests, history>>
    BY <1>2, <2>10, StraysRest DEF ApiMigrates, ApiSeeds, database, history, requests
  <2>11. CASE \/ \E i, n \in UserIds : CreateUser(i, n)
              \/ \E u \in users : DeleteUser(u) \/ ReadUser(u)
              \/ \E password \in {update.password, "own"} : WriteUser(password)
    BY <1>2, <2>11, StraysRest
       DEF CreateUser, DeleteUser, ReadUser, WriteUser, database, history, requests
  <2>12. CASE UNCHANGED vars
    BY <1>2, <2>12, StraysRest DEF vars, database, history, requests
  <2> QED
    BY <1>2, <2>1, <2>2, <2>3, <2>4, <2>5, <2>6, <2>7, <2>8, <2>9, <2>10, <2>11, <2>12
       DEF Next, Admin, Api
<1>3. StrayInv => StraysHaveCauses
  BY DEF StrayInv
<1> QED
  BY <1>1, <1>2, <1>3, Typing, PTL DEF Spec

-----------------------------------------------------------------------------
(* What people have set.                                                   *)

\* No statement of traffic-admin takes away an entry of a list, a setting or
\* an object, or moves an object to another place.
THEOREM SeedIsGentle == Spec => SeedKeepsWhatPeopleSet
<1>1. ASSUME TypeOK, Admin
      PROVE  /\ lists' = lists /\ config' = config
             /\ \A o \in Assets : objects[o] # NoRow =>
                   objects'[o] # NoRow /\ objects'[o].place = objects[o].place
  <2>1. objects \in [Assets -> {NoRow} \cup [text : {"seed", "person"}, place : {"seed", "person"}]]
    BY <1>1 DEF TypeOK, LyTypeOK
  <2>2. CASE LySchema \/ LySeed
    <3>1. /\ UNCHANGED <<lists, config>>
          /\ \/ objects' = objects
             \/ objects[DemoAsset] = NoRow
                /\ objects' = [objects EXCEPT ![DemoAsset] = [text |-> "seed", place |-> "seed"]]
             \/ objects[DemoAsset] # NoRow
                /\ objects' = [objects EXCEPT ![DemoAsset] = [objects[DemoAsset] EXCEPT !.text = "seed"]]
      BY <2>1, <2>2, BootstrapAssumption DEF LySchema, LySeed, CreateLySchema, SeedObjects
    <3>2. NoRow \notin [text : {"seed", "person"}, place : {"seed", "person"}]
      BY NoRowAssumption
    <3> QED
      BY <2>1, <3>1, <3>2
  <2>3. CASE ~(LySchema \/ LySeed)
    BY <1>1, <2>3
       DEF Admin, Start, Interrupted, ResetSchema, CreateSchema, SeedPrompt, SeedAdmin,
           SeedDemoEvent, SeedDemoRow, SeedSummary, lyVars, lyTables
  <2> QED
    BY <2>2, <2>3
<1> QED
  BY <1>1, Typing, PTL DEF Spec, SeedKeepsWhatPeopleSet

-----------------------------------------------------------------------------
(* What a GET of both lists shows.                                         *)

\* A GET of both lists shows every entry that stayed on one of them, or was
\* moved from the black list to the white list (getBWList reads the black
\* list first), whatever commands run beside it.
THEOREM EntriesAreSeen == Spec => []NoEntryMissed
<1>1. Init => ReaderInv
  BY DEF Init, LyInit, ReaderInv, NoEntryMissed
<1>2. ASSUME ReaderInv, LyTypeOK, UNCHANGED lyVars \/ LyRequest \/ CreateLySchema \/ SeedObjects(DemoAsset)
      PROVE  ReaderInv'
  <2>0. "white" \in Lists /\ "black" \in Lists /\ lists \in [Lists -> SUBSET Entries]
    BY <1>2 DEF Lists, LyTypeOK
  <2>1. ASSUME NEW type \in ListTypes, NEW v \in Entries, AddEntry(type, v)
        PROVE  ReaderInv'
    <3>1. lists["white"] \subseteq lists'["white"] /\ UNCHANGED <<reader, steady>>
      BY <2>0, <2>1 DEF AddEntry
    <3> QED
      BY <1>2, <3>1 DEF ReaderInv, NoEntryMissed
  <2>2. ASSUME NEW type \in ListTypes, NEW v \in Entries, DeleteEntry(type, v)
        PROVE  ReaderInv'
    <3>1. CASE Table(type) = "white"
      <4>1. /\ lists["white"] \subseteq lists'["white"] \cup {v}
            /\ steady' = steady \ {v} /\ reader' = reader
        BY <2>0, <2>2, <3>1 DEF DeleteEntry
      <4> QED
        BY <1>2, <4>1 DEF ReaderInv, NoEntryMissed
    <3>2. CASE Table(type) # "white"
      <4>1. lists["white"] = lists'["white"] /\ steady' \subseteq steady /\ reader' = reader
        BY <2>0, <2>2, <3>2 DEF DeleteEntry
      <4> QED
        BY <1>2, <4>1 DEF ReaderInv, NoEntryMissed
    <3> QED
      BY <3>1, <3>2
  <2>3. CASE ReadFirstList
    <3>1. reader'.next = "second" /\ reader'.seen = lists["black"]
      BY <2>3 DEF ReadFirstList, ReadOrder
    <3>2. steady' = lists["black"] \cup lists["white"] /\ lists' = lists
      BY <2>3 DEF ReadFirstList, Listed, lyTables
    <3> QED
      BY <1>2, <3>1, <3>2 DEF ReaderInv, NoEntryMissed
  <2>4. CASE ReadSecondList
    <3>1. /\ reader'.next = "answer" /\ reader'.seen = reader.seen \cup lists["white"]
          /\ steady' = steady /\ reader.next = "second"
      BY <2>4 DEF ReadSecondList, ReadOrder
    <3> QED
      BY <1>2, <3>1 DEF ReaderInv, NoEntryMissed
  <2>5. CASE ReadEnds
    BY <1>2, <2>5 DEF ReadEnds, ReaderInv, NoEntryMissed
  <2>6. CASE \/ \E k \in ConfigKeys : SetConfig(k)
             \/ \E o \in Assets : SetMO(o)
             \/ CreateLySchema \/ SeedObjects(DemoAsset) \/ UNCHANGED lyVars
    <3>1. UNCHANGED <<lists, reader, steady>>
      BY <2>6 DEF SetConfig, SetMO, CreateLySchema, SeedObjects, lyVars, lyTables
    <3> QED
      BY <1>2, <3>1 DEF ReaderInv, NoEntryMissed
  <2> QED
    BY <1>2, <2>1, <2>2, <2>3, <2>4, <2>5, <2>6 DEF LyRequest
<1>3. [Next]_vars => UNCHANGED lyVars \/ LyRequest \/ CreateLySchema \/ SeedObjects(DemoAsset)
  BY DEF Next, vars, Admin, Api, Start, Interrupted, ResetSchema, CreateSchema, SeedPrompt,
         SeedAdmin, SeedDemoEvent, SeedDemoRow, SeedSummary, LySchema, LySeed,
         ApiMigrates, ApiSeeds, ApiStops, CreateUser, DeleteUser, ReadUser, WriteUser,
         CreateEvent, StartRound, FillsTable, RoundFails, StartPush, Pushes, Reserve, NotReserved,
         LookUp, LocalCreate, LocalCreateFails, BindEventMap, SavePushedEvent
<1>4. ReaderInv => NoEntryMissed
  BY DEF ReaderInv
<1>5. TypeOK => LyTypeOK
  BY DEF TypeOK
<1> QED
  BY <1>1, <1>2, <1>3, <1>4, <1>5, Typing, PTL DEF Spec

-----------------------------------------------------------------------------
(* What a statement counts on is there when it is sent.                    *)

\* A row of the demo is no other statement.
LEMMA RowsAreRows == \A k \in 1..6 : Stmt("row", DemoRows[k]).op = "row"
BY DEF Stmt

\* No row goes away, except for those of alerts, which a push replaces.
RowsStay == \A r \in rows : r.table \in ReferringTables => r \in rows'

\* A row of the demo stays where such rows are only added.
LEMMA RowsRemain ==
    ASSUME NEW k \in 1..6, RowsStay, HasRow(k)
    PROVE  HasRow(k)'
<1>1. DemoRows[k][1] \in ReferringTables
  BY DemoRowsAre DEF DemoTables, ReferringTables
<1> QED
  BY <1>1 DEF HasRow, Missing, RowsStay

\* Each step of a push leaves the rows of all other tables alone.
LEMMA PushStays ==
    ASSUME TypeOK, NEW p \in Pushers, Pushes(p)
    PROVE  RowsStay /\ \A r \in rows' : r.table \in ReferringTables => r \in rows
<1> DEFINE e == push[p].event
<1>1. \/ rows' = rows
      \/ rows' = rows \cup {Row("event_maps", "empty", e)}
      \/ rows' = Upsert("event_maps", "bound", e)
      \/ rows' = Upsert("pushed_events", push[p].key, e)
  BY PushDoes
<1>2. \A t, key : Row(t, key, e).table = t
  BY DEF Row
<1>3. "event_maps" \notin ReferringTables /\ "pushed_events" \notin ReferringTables
  BY DEF ReferringTables
<1> HIDE DEF e
<1>4. ASSUME NEW t \in {"event_maps", "pushed_events"}, NEW key, rows' = Upsert(t, key, e)
      PROVE  RowsStay /\ \A r \in rows' : r.table \in ReferringTables => r \in rows
  BY <1>2, <1>3, <1>4 DEF Upsert, RowsOf, RowsStay
<1>5. ASSUME rows' = rows \/ rows' = rows \cup {Row("event_maps", "empty", e)}
      PROVE  RowsStay /\ \A r \in rows' : r.table \in ReferringTables => r \in rows
  BY <1>2, <1>3, <1>5 DEF RowsStay
<1> QED
  BY <1>1, <1>4, <1>5

\* Nothing to send counts on nothing.
LEMMA EmptyOrder == todo = <<>> => OrderInv
BY DEF OrderInv

\* Steps beside the command that take away neither prompts nor rows.
LEMMA OrderKept ==
    ASSUME OrderInv, todo' = todo, prompts = Roles => prompts' = Roles, RowsStay
    PROVE  OrderInv'
BY RowsRemain DEF OrderInv, Prompted, Given

\* The next statement was sent and has done what later ones count on.
LEMMA OrderSent ==
    ASSUME OrderInv, todo \in Seq(Statements), NEW op, Sends(op), Done,
           prompts = Roles \/ op = "prompts" => prompts' = Roles,
           RowsStay,
           \A k \in 1..6 : Head(todo) = Stmt("row", DemoRows[k]) => HasRow(k)'
    PROVE  OrderInv'
<1> DEFINE t == Tail(todo)
<1>1. /\ todo # <<>> /\ todo' = t /\ Head(todo).op = op
      /\ \A i \in DOMAIN t : i + 1 \in DOMAIN todo /\ t[i] = todo[i + 1]
      /\ \A i \in DOMAIN t :
            /\ Prompted(todo, i + 1) => Head(todo).op = "prompts" \/ Prompted(t, i)
            /\ \A k : Given(todo, i + 1, k) =>
                  Head(todo) = Stmt("row", DemoRows[k]) \/ Given(t, i, k)
  BY TailStatements DEF Sends, Done
<1> HIDE DEF t
<1>2. ASSUME NEW i \in DOMAIN t
      PROVE  /\ t[i].op = "admin" => prompts' = Roles \/ Prompted(t, i)
             /\ t[i].op = "summary" => \A k \in 1..6 : HasRow(k)' \/ Given(t, i, k)
  <2>1. /\ t[i].op = "admin" => prompts = Roles \/ Prompted(todo, i + 1)
        /\ t[i].op = "summary" => \A k \in 1..6 : HasRow(k) \/ Given(todo, i + 1, k)
    BY <1>1 DEF OrderInv
  <2> QED
    BY <1>1, <2>1, RowsRemain
<1> QED
  BY <1>1, <1>2 DEF OrderInv, Prompted, Given

\* Each step keeps the order; a reset empties the tables, and all comes after it.
LEMMA OrderStep ==
    ASSUME TypeOK, WorkInv, OrderInv, [Next]_vars
    PROVE  OrderInv'
<1>0. todo \in Seq(Statements)
  BY DEF WorkInv
<1>1. ASSUME NEW flags \in Commands[crowd], Start(flags)
      PROVE  OrderInv'
  <2>1. todo' = Plan(flags) /\ Ordered(Plan(flags))
    BY <1>1, PlanOrdered DEF Start
  <2> QED
    BY <2>1 DEF OrderInv, Ordered, Prompted, Given
<1>2. CASE Interrupted
  <2>1. DOMAIN todo' = {}
    BY <1>2, EmptyPlan DEF Interrupted
  <2> QED
    BY <2>1 DEF OrderInv
<1>3. CASE ResetSchema
  <2> DEFINE t == Tail(todo)
  <2>1. /\ todo # <<>> /\ Head(todo).op = "reset" /\ todo' = t
    BY <1>3 DEF ResetSchema, Sends, Done
  <2>2. 1 \in DOMAIN todo /\ Head(todo) = todo[1]
    BY <1>0, <2>1, TailStatements
  <2>3. Ordered(todo)
    BY <2>1, <2>2 DEF WorkInv, ResetsIn
  <2>4. \A k \in 1..6 : Head(todo) # Stmt("row", DemoRows[k])
    BY <2>1, RowsAreRows
  <2>5. /\ \A i \in DOMAIN t : i + 1 \in DOMAIN todo /\ t[i] = todo[i + 1]
        /\ \A i \in DOMAIN t :
              /\ Prompted(todo, i + 1) => Prompted(t, i)
              /\ \A k \in 1..6 : Given(todo, i + 1, k) => Given(t, i, k)
    BY <1>0, <2>1, <2>4, TailStatements
  <2> HIDE DEF t
  <2>6. \A i \in DOMAIN t :
           /\ t[i].op = "admin" => Prompted(t, i)
           /\ t[i].op = "summary" => \A k \in 1..6 : Given(t, i, k)
    BY <2>3, <2>5 DEF Ordered
  <2> QED
    BY <2>1, <2>6 DEF OrderInv, Prompted, Given
<1>4. ASSUME NEW r \in Roles, SeedPrompt(r)
      PROVE  OrderInv'
  <2>1. /\ r \notin prompts /\ prompts' = prompts \cup {r} /\ rows' = rows
        /\ Sends("prompts")
        /\ (prompts' = Roles /\ Done) \/ todo' = todo
    BY <1>4 DEF SeedPrompt
  <2>2. prompts # Roles
    BY <2>1
  <2>3. ASSUME prompts' = Roles, Done
        PROVE  OrderInv'
    <3>1. \A k \in 1..6 : Head(todo) # Stmt("row", DemoRows[k])
      BY <2>1, RowsAreRows DEF Sends
    <3> QED
      BY <1>0, <2>1, <2>3, <3>1, OrderSent DEF RowsStay
  <2> QED
    BY <2>1, <2>2, <2>3, OrderKept DEF RowsStay
<1>5. CASE SeedDemoRow
  <2>1. PICK k \in 1..6 : /\ Head(todo) = Stmt("row", DemoRows[k])
                          /\ Head(todo).key = DemoRows[k]
    BY <1>0, <1>5, RowStatement DEF SeedDemoRow
  <2> DEFINE row == Row(DemoRows[k][1], DemoRows[k][2], DemoEvent)
  <2>2. /\ Sends("row") /\ Done /\ prompts' = prompts
        /\ rows' = IF Missing(DemoRows[k][1], DemoRows[k][2]) THEN rows \cup {row} ELSE rows
    BY <1>5, <2>1 DEF SeedDemoRow
  <2>3. row.table = DemoRows[k][1] /\ row.key = DemoRows[k][2]
    BY DEF Row
  <2> HIDE DEF row
  <2>4. HasRow(k)'
    <3>1. CASE Missing(DemoRows[k][1], DemoRows[k][2])
      BY <2>2, <2>3, <3>1 DEF HasRow, Missing
    <3>2. CASE ~Missing(DemoRows[k][1], DemoRows[k][2])
      BY <2>2, <3>2 DEF HasRow, Missing
    <3> QED
      BY <3>1, <3>2
  <2>5. \A j \in 1..6 : Head(todo) = Stmt("row", DemoRows[j]) => HasRow(j)'
    <3>1. ASSUME NEW j \in 1..6, Head(todo) = Stmt("row", DemoRows[j])
          PROVE  DemoRows[j] = DemoRows[k]
      BY <2>1, <3>1 DEF Stmt
    <3> QED
      BY <2>4, <3>1 DEF HasRow, Missing
  <2> QED
    BY <1>0, <2>2, <2>5, OrderSent DEF RowsStay
<1>6. ASSUME NEW op \in {"schema", "admin", "event", "summary", "ly-schema", "ly-seed"},
             Sends(op), Done, prompts' = prompts, rows \subseteq rows'
      PROVE  OrderInv'
  <2>1. \A k \in 1..6 : Head(todo) # Stmt("row", DemoRows[k])
    <3>1. Head(todo).op = op /\ op # "row"
      BY <1>6 DEF Sends
    <3> QED
      BY <3>1, RowsAreRows
  <2> QED
    BY <1>0, <1>6, <2>1, OrderSent DEF RowsStay
<1>7. CASE CreateSchema \/ SeedAdmin \/ SeedDemoEvent \/ SeedSummary \/ LySchema \/ LySeed
  BY <1>6, <1>7
     DEF CreateSchema, SeedAdmin, SeedDemoEvent, SeedSummary, LySchema, LySeed, database
<1>8. CASE Api \/ UNCHANGED vars
  <2>1. ASSUME NEW p \in Pushers, Pushes(p)
        PROVE  todo' = todo /\ prompts' = prompts /\ RowsStay
    BY <2>1, PushDoes, PushStays
  <2>2. ASSUME ~\E p \in Pushers : Pushes(p)
        PROVE  todo' = todo /\ prompts' = prompts /\ RowsStay
    <3>1. todo' = todo /\ prompts' = prompts /\ rows \subseteq rows'
      BY <1>8, <2>2
         DEF Api, ApiMigrates, ApiSeeds, ApiStops, CreateUser, DeleteUser, ReadUser, WriteUser,
             CreateEvent, StartRound, FillsTable, RoundFails, StartPush, database, vars
    <3> QED
      BY <3>1 DEF RowsStay
  <2> QED
    BY <2>1, <2>2, OrderKept
<1> QED
  BY <1>1, <1>2, <1>3, <1>4, <1>5, <1>7, <1>8 DEF Next, Admin

-----------------------------------------------------------------------------
(* The administrator of the seed.                                          *)

\* The columns of a user, also with another password.
LEMMA UsersAre ==
    ASSUME TypeOK, NEW u \in users
    PROVE  /\ u.id \in UserIds /\ u.name \in UserIds /\ u.password \in Passwords
           /\ \A p : /\ [u EXCEPT !.password = p].id = u.id
                     /\ [u EXCEPT !.password = p].name = u.name
                     /\ [u EXCEPT !.password = p].password = p
BY DEF TypeOK, Users

\* The columns of the administrator that a seed inserts.
LEMMA SeedUserIs ==
    \A p : SeedUser(p).id = "admin" /\ SeedUser(p).name = "admin" /\ SeedUser(p).password = p
BY DEF SeedUser

\* No user has the id of an update that is not there.
LEMMA UserIdsAre == ASSUME TypeOK PROVE NoUpdate.id = "" /\ \A u \in users : u.id # NoUpdate.id
BY DEF NoUpdate, TypeOK, Users, UserIds

Unique(s) == \A u, v \in s : u.id = v.id \/ u.name = v.name => u = v

\* A user with a new id and a new name.
LEMMA UniqueGrown ==
    ASSUME NEW s, NEW u, Unique(s), \A v \in s : v.id # u.id /\ v.name # u.name
    PROVE  Unique(s \cup {u})
BY DEF Unique

\* Steps that leave the users as they are, or add one.
LEMMA SeedKept ==
    ASSUME TypeOK, SeedInv, Unique(users'), users \subseteq users', update' \in {update, NoUpdate},
           seeded' = seeded, seeded => prompts' = Roles, touched' = touched
    PROVE  SeedInv'
BY UserIdsAre DEF SeedInv, Unique, Called

\* SeedBase ends: the prompts were sent before the administrator.
LEMMA SeedByAdmin ==
    ASSUME TypeOK, WorkInv, OrderInv, SeedInv, SeedAdmin
    PROVE  SeedInv'
<1>1. /\ Sends("admin") /\ seeded' = TRUE /\ users' = UpsertAdmin /\ ~IdIsTaken
      /\ touched' = (\E u \in users' : Called(u, "admin") /\ u.id = update.id)
      /\ prompts' = prompts /\ update' = update
  BY DEF SeedAdmin, requests
<1>2. prompts = Roles
  <2>1. 1 \in DOMAIN todo /\ todo[1].op = "admin"
    BY <1>1, TailStatements DEF WorkInv, Sends
  <2>2. ~Prompted(todo, 1)
    <3>1. \A j \in DOMAIN todo : ~(j < 1)
      <4>1. DOMAIN todo = 1..Len(todo) /\ Len(todo) \in Nat
        BY LenProperties DEF WorkInv
      <4> QED
        BY <4>1
    <3> QED
      BY <3>1 DEF Prompted
  <2> QED
    BY <2>1, <2>2 DEF OrderInv
<1> DEFINE F(u) == IF Called(u, "admin") THEN [u EXCEPT !.password = "admin123"] ELSE u
           mapped == {F(u) : u \in users}
<1>3. \A u \in users : F(u).id = u.id /\ F(u).name = u.name
  BY UsersAre
<1>4. Unique(mapped)
  <2>1. Unique(users)
    BY DEF SeedInv, Unique
  <2> HIDE DEF F
  <2> QED
    BY <1>3, <2>1 DEF Unique
<1>5. Unique(users') /\ \E u \in users' : Called(u, "admin") /\ u.password = "admin123"
  <2>1. CASE \E u \in users : Called(u, "admin")
    <3>1. users' = mapped
      BY <1>1, <2>1 DEF UpsertAdmin
    <3>2. PICK u \in users : Called(u, "admin")
      BY <2>1
    <3>3. F(u) \in mapped /\ F(u).password = "admin123" /\ F(u).name = u.name
      BY <1>3, <3>2, UsersAre
    <3> QED
      BY <1>4, <3>1, <3>2, <3>3 DEF Called
  <2>2. CASE \A u \in users : ~Called(u, "admin")
    <3>1. users' = mapped \cup {SeedUser("admin123")}
      BY <1>1, <2>2 DEF UpsertAdmin
    <3>2. \A v \in mapped : v.id # "admin" /\ v.name # "admin"
      BY <1>1, <2>2 DEF Called, IdIsTaken
    <3> HIDE DEF mapped
    <3>3. \A v \in mapped : v.id # SeedUser("admin123").id /\ v.name # SeedUser("admin123").name
      BY <3>2, SeedUserIs
    <3> QED
      BY <1>4, <3>1, <3>3, SeedUserIs, UniqueGrown DEF Called
  <2> QED
    BY <2>1, <2>2
<1> QED
  BY <1>1, <1>2, <1>5 DEF SeedInv, Unique

\* An update that had read the seeded password writes it back.
LEMMA SeedByWrite ==
    ASSUME TypeOK, SeedInv, NEW password \in {update.password, "own"}, WriteUser(password)
    PROVE  SeedInv'
<1> DEFINE F(u) == IF u.id = update.id THEN [u EXCEPT !.password = password] ELSE u
<1>1. /\ users' = {F(u) : u \in users} /\ update' = NoUpdate
      /\ touched' = \/ touched
                    \/ /\ password # update.password
                       /\ \E u \in users : u.id = update.id /\ Called(u, "admin")
      /\ seeded' = seeded /\ prompts' = prompts
  BY DEF WriteUser
<1>2. \A u \in users : F(u).id = u.id /\ F(u).name = u.name
  BY UsersAre
<1>3. Unique(users')
  <2> DEFINE mapped == {F(u) : u \in users}
  <2>1. Unique(users)
    BY DEF SeedInv, Unique
  <2> HIDE DEF F
  <2>2. Unique(mapped)
    BY <1>2, <2>1 DEF Unique
  <2>3. users' = mapped
    BY <1>1
  <2> QED
    BY <2>2, <2>3 DEF Unique
<1>4. ASSUME seeded, ~touched'
      PROVE  \E u \in users' : /\ Called(u, "admin") /\ u.password = "admin123"
                               /\ u.id # update'.id
  <2>0. ~touched
    BY <1>1, <1>4
  <2>1. PICK u \in users : /\ Called(u, "admin") /\ u.password = "admin123"
                           /\ u.id = update.id => update.password = "admin123"
    BY <1>4, <2>0 DEF SeedInv
  <2>2. F(u).password = "admin123"
    <3>1. CASE u.id = update.id
      <4>1. password = update.password
        BY <1>1, <1>4, <2>1, <3>1
      <4> QED
        BY <2>1, <3>1, <4>1, UsersAre
    <3>2. CASE u.id # update.id
      BY <2>1, <3>2
    <3> QED
      BY <3>1, <3>2
  <2>3. F(u) \in users' /\ F(u).name = u.name /\ F(u).id # update'.id
    BY <1>1, <1>2, UserIdsAre
  <2> HIDE DEF F
  <2> QED
    BY <2>1, <2>2, <2>3 DEF Called
<1> HIDE DEF F
<1> QED
  BY <1>1, <1>3, <1>4 DEF SeedInv, Unique

\* Each step, by what it does to users and prompts.
LEMMA SeedStep ==
    ASSUME TypeOK, WorkInv, OrderInv, SeedInv, [Next]_vars
    PROVE  SeedInv'
<1>0. Unique(users)
  BY DEF SeedInv, Unique
<1>1. CASE ResetSchema
  BY <1>1 DEF ResetSchema, SeedInv
<1>2. ASSUME NEW r \in Roles, SeedPrompt(r)
      PROVE  SeedInv'
  <2>1. /\ r \notin prompts
        /\ UNCHANGED <<users, update, seeded, touched>>
    BY <1>2 DEF SeedPrompt, requests, history
  <2>2. ~seeded
    BY <2>1 DEF SeedInv
  <2> QED
    BY <1>0, <2>1, <2>2, SeedKept
<1>3. CASE SeedAdmin
  BY <1>3, SeedByAdmin
<1>4. CASE ApiSeeds
  <2>1. UNCHANGED <<prompts, update, seeded, touched>>
    BY <1>4 DEF ApiSeeds, requests, history
  <2>2. CASE users' = users
    BY <1>0, <2>1, <2>2, SeedKept DEF SeedInv
  <2>3. CASE /\ users' = users \cup {SeedUser("admin")}
             /\ \A v \in users : v.id # "admin" /\ v.name # "admin"
    <3>1. Unique(users')
      BY <1>0, <2>3, SeedUserIs, UniqueGrown
    <3> QED
      BY <2>1, <2>3, <3>1, SeedKept DEF SeedInv
  <2> QED
    BY <1>4, <2>2, <2>3 DEF ApiSeeds, IdIsTaken, Called
<1>5. ASSUME NEW i \in UserIds, NEW n \in UserIds, CreateUser(i, n)
      PROVE  SeedInv'
  <2> DEFINE new == [id |-> i, name |-> n, password |-> "own"]
  <2>1. /\ UNCHANGED <<prompts, update, seeded, touched>>
        /\ users' = users \cup {new}
        /\ \A v \in users : v.id # new.id /\ v.name # new.name
    BY <1>5 DEF CreateUser, requests, Called
  <2> HIDE DEF new
  <2>2. Unique(users')
    BY <1>0, <2>1, UniqueGrown
  <2> QED
    BY <2>1, <2>2, SeedKept DEF SeedInv
<1>6. ASSUME NEW u \in users, DeleteUser(u)
      PROVE  SeedInv'
  <2>1. /\ users' = users \ {u} /\ touched' = (touched \/ Called(u, "admin"))
        /\ UNCHANGED <<prompts, update, seeded>>
    BY <1>6 DEF DeleteUser, requests
  <2> QED
    BY <2>1 DEF SeedInv, Called
<1>7. ASSUME NEW u \in users, ReadUser(u)
      PROVE  SeedInv'
  <2>1. /\ update'.id = u.id /\ update'.password = u.password
        /\ UNCHANGED <<users, prompts, seeded, touched>>
    BY <1>7 DEF ReadUser, database
  <2> QED
    BY <2>1 DEF SeedInv, Called
<1>8. CASE \E password \in {update.password, "own"} : WriteUser(password)
  BY <1>8, SeedByWrite
<1>9. CASE \/ \E flags \in Commands[crowd] : Start(flags)
           \/ Interrupted \/ CreateSchema \/ SeedDemoEvent \/ SeedDemoRow \/ SeedSummary
           \/ LySchema \/ LySeed
           \/ ApiMigrates \/ ApiStops \/ FillsTable \/ RoundFails
           \/ \E e \in EventIds : CreateEvent(e) \/ StartRound(e)
           \/ \E p \in Pushers, e \in EventIds : StartPush(p, e)
           \/ UNCHANGED <<database, todo, api, requests, history>>
           \/ UNCHANGED vars
  <2>1. UNCHANGED <<users, prompts, seeded, touched>> /\ update' \in {update, NoUpdate}
    BY <1>9
       DEF Start, Interrupted, CreateSchema, SeedDemoEvent, SeedDemoRow, SeedSummary,
           LySchema, LySeed, ApiMigrates, ApiStops, FillsTable, RoundFails, CreateEvent,
           StartRound, StartPush, database, requests, history, vars
  <2> QED
    BY <1>0, <2>1, SeedKept DEF SeedInv
<1>10. ASSUME NEW p \in Pushers, Pushes(p)
       PROVE  SeedInv'
  <2>1. UNCHANGED <<users, prompts, seeded, touched, update>>
    BY <1>10, PushDoes DEF history
  <2> QED
    BY <1>0, <2>1, SeedKept DEF SeedInv
<1> QED
  BY <1>1, <1>2, <1>3, <1>4, <1>5, <1>6, <1>7, <1>8, <1>9, <1>10 DEF Next, Admin, Api

\* Whatever is interrupted and wherever traffic-api starts: when SeedBase has
\* ended, its prompts are there and the administrator logs in with its
\* password, until a person takes or changes that user.
THEOREM SeedLogsIn == Spec => []SeededAdminLogsIn
<1>1. Init => OrderInv /\ SeedInv
  <2>1. Init => OrderInv
    BY EmptyOrder DEF Init
  <2> QED
    BY <2>1 DEF Init, SeedInv
<1>2. TypeOK /\ WorkInv /\ OrderInv /\ SeedInv /\ [Next]_vars => OrderInv' /\ SeedInv'
  BY OrderStep, SeedStep
<1>3. SeedInv => SeededAdminLogsIn
  BY DEF SeedInv, SeededAdminLogsIn
<1> QED
  BY <1>1, <1>2, <1>3, Typing, PTL DEF Spec

-----------------------------------------------------------------------------
(* The summary of the demo.                                                *)

DemoSummaries == {r \in rows : r.table = "summaries" /\ r.key # "round"}
SummaryRow(n) == Row("summaries", ToString(n), DemoEvent)

\* SummaryClosesDemo with its parts named.
SummaryInv ==
    /\ DemoSummaries # {} => \A k \in 1..6 : HasRow(k)
    /\ DemoSummaries = {SummaryRow(n) : n \in 1..loads}

\* Naming the parts changes nothing.
LEMMA SummaryInvIs == SummaryClosesDemo <=> SummaryInv
<1>1. Len(DemoRows) = 6
  BY DemoRowsAre
<1> QED
  BY <1>1 DEF SummaryClosesDemo, SummaryInv, DemoSummaries, SummaryRow, HasRow

\* Steps that touch no row.
LEMMA SummaryKept ==
    ASSUME SummaryInv, UNCHANGED <<rows, loads, life>>
    PROVE  SummaryInv'
<1>1. DemoSummaries' = DemoSummaries
  BY DEF DemoSummaries
<1>2. {SummaryRow(n) : n \in 1..loads}' = {SummaryRow(n) : n \in 1..loads}
  BY DEF SummaryRow, Row
<1> QED
  BY <1>1, <1>2, RowsRemain DEF SummaryInv, RowsStay

\* Rows that are no summaries of a load change nothing.
LEMMA SummaryBeside ==
    ASSUME SummaryInv, UNCHANGED <<loads, life>>, RowsStay,
           \A r \in rows' : r \in rows \/ r.table # "summaries" \/ r.key = "round"
    PROVE  SummaryInv'
<1>1. DemoSummaries' = DemoSummaries
  BY DEF DemoSummaries, RowsStay, ReferringTables
<1>2. {SummaryRow(n) : n \in 1..loads}' = {SummaryRow(n) : n \in 1..loads}
  BY DEF SummaryRow, Row
<1> QED
  BY <1>1, <1>2, RowsRemain DEF SummaryInv

\* The summary is sent last, so that all rows of the demo are there.
LEMMA SummaryAdded ==
    ASSUME TypeOK, WorkInv, OrderInv, SummaryInv, SeedSummary
    PROVE  SummaryInv'
<1>0. loads \in Nat /\ MaxLoads \in Nat
  <2>1. loads \in 0..MaxLoads
    BY DEF TypeOK
  <2> QED
    BY <2>1, BootstrapAssumption
<1> DEFINE new == SummaryRow(loads + 1)
<1>1. /\ Sends("summary") /\ loads < MaxLoads /\ loads' = loads + 1 /\ life' = life
      /\ rows' = rows \cup {new}
  BY DEF SeedSummary, SummaryRow
<1>2. new.table = "summaries" /\ new.key # "round"
  <2>1. loads + 1 \in 1..MaxLoads
    BY <1>0, <1>1
  <2>2. ToString(loads + 1) # "round"
    BY <2>1, KeysAssumption
  <2> QED
    BY <2>2 DEF SummaryRow, Row
<1>3. \A k \in 1..6 : HasRow(k)
  <2>1. 1 \in DOMAIN todo /\ todo[1].op = "summary"
    BY <1>1, TailStatements DEF WorkInv, Sends
  <2>2. \A k \in 1..6 : ~Given(todo, 1, k)
    <3>1. \A j \in DOMAIN todo : ~(j < 1)
      <4>1. DOMAIN todo = 1..Len(todo) /\ Len(todo) \in Nat
        BY LenProperties DEF WorkInv
      <4> QED
        BY <4>1
    <3> QED
      BY <3>1 DEF Given
  <2> QED
    BY <2>1, <2>2 DEF OrderInv
<1> HIDE DEF new
<1>4. DemoSummaries' = DemoSummaries \cup {new}
  BY <1>1, <1>2 DEF DemoSummaries
<1>5. {SummaryRow(n) : n \in 1..loads}' = {SummaryRow(n) : n \in 1..loads} \cup {new}
  <2>1. 1..loads + 1 = 1..loads \cup {loads + 1}
    BY <1>0
  <2>2. {SummaryRow(n) : n \in 1..loads}' = {SummaryRow(n) : n \in 1..loads + 1}
    BY <1>1 DEF SummaryRow, Row
  <2> QED
    BY <2>1, <2>2 DEF new
<1>6. \A k \in 1..6 : HasRow(k)'
  BY <1>1, <1>3, RowsRemain DEF RowsStay
<1> QED
  BY <1>4, <1>5, <1>6 DEF SummaryInv

\* Each step, by the rows it writes.
LEMMA SummaryStep ==
    ASSUME TypeOK, WorkInv, OrderInv, SummaryInv, [Next]_vars
    PROVE  SummaryInv'
<1>1. CASE ResetSchema
  <2>1. loads' = 0 /\ rows' = {r \in rows : r.table \notin Dropped}
    BY <1>1 DEF ResetSchema
  <2>2. "summaries" \in Dropped
    BY DEF Dropped, Tables, ChildTables, ReferringTables
  <2>3. DemoSummaries' = {}
    BY <2>1, <2>2 DEF DemoSummaries
  <2>4. {SummaryRow(n) : n \in 1..loads}' = {}
    BY <2>1
  <2> QED
    BY <2>3, <2>4 DEF SummaryInv
<1>2. CASE SeedDemoRow
  <2>1. PICK k \in 1..6 : Head(todo).key = DemoRows[k]
    BY <1>2, RowStatement DEF SeedDemoRow, WorkInv
  <2> DEFINE row == Row(DemoRows[k][1], DemoRows[k][2], DemoEvent)
  <2>2. /\ UNCHANGED <<loads, life>>
        /\ rows' = rows \/ rows' = rows \cup {row}
    BY <1>2, <2>1 DEF SeedDemoRow, history
  <2>3. row.table # "summaries"
    BY DemoRowsAre DEF Row, DemoTables
  <2> HIDE DEF row
  <2> QED
    BY <2>2, <2>3, SummaryBeside DEF RowsStay
<1>3. CASE SeedSummary
  BY <1>3, SummaryAdded
<1>4. CASE FillsTable
  <2> DEFINE row == Row(Head(round.left), "round", round.event)
  <2>1. UNCHANGED <<loads, life>> /\ rows' = rows \cup {row} /\ row.key = "round"
    BY <1>4 DEF FillsTable, history, Row
  <2> HIDE DEF row
  <2> QED
    BY <2>1, SummaryBeside DEF RowsStay
<1>5. CASE \/ \E flags \in Commands[crowd] : Start(flags)
           \/ Interrupted \/ CreateSchema \/ SeedAdmin \/ SeedDemoEvent
           \/ \E r \in Roles : SeedPrompt(r)
           \/ LySchema \/ LySeed
  BY <1>5, SummaryKept
     DEF Start, Interrupted, CreateSchema, SeedAdmin, SeedDemoEvent, SeedPrompt, LySchema,
         LySeed, database, history
<1>6. CASE \/ ApiMigrates \/ ApiSeeds \/ ApiStops \/ RoundFails
           \/ \E i, n \in UserIds : CreateUser(i, n)
           \/ \E u \in users : DeleteUser(u) \/ ReadUser(u)
           \/ \E password \in {update.password, "own"} : WriteUser(password)
           \/ \E e \in EventIds : CreateEvent(e) \/ StartRound(e)
           \/ \E p \in Pushers, e \in EventIds : StartPush(p, e)
           \/ UNCHANGED <<database, todo, api, requests, history>>
           \/ UNCHANGED vars
  BY <1>6, SummaryKept
     DEF ApiMigrates, ApiSeeds, ApiStops, RoundFails, CreateUser, DeleteUser, ReadUser,
         WriteUser, CreateEvent, StartRound, StartPush, database, history, vars
<1>7. ASSUME NEW p \in Pushers, Pushes(p)
      PROVE  SummaryInv'
  <2>1. UNCHANGED <<loads, life>>
    BY <1>7, PushDoes DEF history
  <2>2. RowsStay /\ \A r \in rows' : r \in rows \/ r.table # "summaries"
    BY <1>7, PushStays DEF ReferringTables
  <2> QED
    BY <2>1, <2>2, SummaryBeside
<1> QED
  BY <1>1, <1>2, <1>3, <1>4, <1>5, <1>6, <1>7 DEF Next, Admin, Api

\* There are as many summaries of the demo as loads that have ended since the
\* last reset, and with the first one all rows of the demo: a load that was
\* interrupted leaves none.
THEOREM SummaryIsLast == Spec => []SummaryClosesDemo
<1>1. Init => OrderInv /\ SummaryInv
  <2>1. Init => OrderInv
    BY EmptyOrder DEF Init
  <2>2. ASSUME Init
        PROVE  SummaryInv
    <3>1. rows = {} /\ loads = 0
      BY <2>2 DEF Init
    <3>2. DemoSummaries = {}
      BY <3>1 DEF DemoSummaries
    <3>3. 1..loads = {}
      BY <3>1
    <3> QED
      BY <3>2, <3>3 DEF SummaryInv
  <2> QED
    BY <2>1, <2>2
<1>2. TypeOK /\ WorkInv /\ OrderInv /\ SummaryInv /\ [Next]_vars => OrderInv' /\ SummaryInv'
  BY OrderStep, SummaryStep
<1> QED
  BY <1>1, <1>2, SummaryInvIs, Typing, PTL DEF Spec

=============================================================================
