--------------------------- MODULE AccountsProofs ---------------------------
(***************************************************************************)
(* Theorems about users, passwords and tokens, on both stores, for any ids *)
(* and names, any number of requests at once and of stops of the process.  *)
(***************************************************************************)
EXTENDS Accounts, TLAPS

-----------------------------------------------------------------------------
(* Patches of a row.                                                       *)

\* A row and a pair of columns with both columns replaced.
LEMMA ReplacedColumns ==
    ASSUME NEW n, NEW x, NEW y, NEW p, NEW a
    PROVE  /\ [[name |-> n, password |-> x, active |-> y] EXCEPT !.password = p, !.active = a]
                 = [name |-> n, password |-> p, active |-> a]
           /\ [[password |-> x, active |-> y] EXCEPT !.password = p, !.active = a]
                 = [password |-> p, active |-> a]
<1> DEFINE r == [[name |-> n, password |-> x, active |-> y] EXCEPT !.password = p, !.active = a]
           c == [[password |-> x, active |-> y] EXCEPT !.password = p, !.active = a]
<1>1. /\ r \in [name : {n}, password : {x, p}, active : {y, a}]
      /\ r.name = n /\ r.password = p /\ r.active = a
  OBVIOUS
<1>2. /\ c \in [password : {x, p}, active : {y, a}]
      /\ c.password = p /\ c.active = a
  OBVIOUS
<1> HIDE DEF r, c
<1>3. r = [name |-> r.name, password |-> r.password, active |-> r.active]
  BY <1>1
<1>4. c = [password |-> c.password, active |-> c.active]
  BY <1>2
<1>5. r = [name |-> n, password |-> p, active |-> a]
  BY <1>1, <1>3, Zenon
<1>6. c = [password |-> p, active |-> a]
  BY <1>2, <1>4, Zenon
<1> QED
  BY <1>5, <1>6 DEF r, c

\* What UpdateUser writes is a row of the same name.
LEMMA PatchedRow ==
    ASSUME NEW u \in Users, NEW patch \in Columns
    PROVE  /\ Patched(u, patch) \in Users
           /\ Patched(u, patch).name = u.name
           /\ CopyOf(u) \in Columns
           /\ CopyOf(Patched(u, patch)) = Patched(CopyOf(u), patch)
<1>1. /\ u.name \in Names /\ u.password \in Passwords /\ u.active \in BOOLEAN
      /\ u = [name |-> u.name, password |-> u.password, active |-> u.active]
      /\ patch.password \in Passwords \cup {Keep} /\ patch.active \in BOOLEAN \cup {Keep}
  BY DEF Users, Columns
<1> DEFINE p == IF patch.password = Keep THEN u.password ELSE patch.password
           a == IF patch.active = Keep THEN u.active ELSE patch.active
<1>2. p \in Passwords /\ a \in BOOLEAN
  BY <1>1
<1>3. Patched(u, patch) = [u EXCEPT !.password = p, !.active = a]
  BY DEF Patched
<1>4. CopyOf(u).password = u.password /\ CopyOf(u).active = u.active
  BY DEF CopyOf
<1>5. Patched(CopyOf(u), patch) = [CopyOf(u) EXCEPT !.password = p, !.active = a]
  BY <1>4, Zenon DEF Patched
<1> HIDE DEF p, a
<1>6. Patched(u, patch) = [name |-> u.name, password |-> p, active |-> a]
  BY <1>1, <1>3, ReplacedColumns
<1>7. Patched(CopyOf(u), patch) = [password |-> p, active |-> a]
  BY <1>5, ReplacedColumns DEF CopyOf
<1>8. Patched(u, patch) \in Users /\ Patched(u, patch).name = u.name
  BY <1>1, <1>2, <1>6 DEF Users
<1>9. CopyOf(Patched(u, patch)) = [password |-> p, active |-> a]
  BY <1>6 DEF CopyOf
<1>10. CopyOf(u) \in Columns
  BY <1>1 DEF Columns, CopyOf
<1> QED
  BY <1>7, <1>8, <1>9, <1>10

\* What was told of a user and is patched is told of a user again.
LEMMA PatchedColumns ==
    ASSUME NEW c \in Columns, NEW patch \in Columns
    PROVE  Patched(c, patch) \in Columns
BY DEF Columns, Patched

\* The copy written back over the row that it was read from changes only what
\* the patch changes.
LEMMA RewrittenRow ==
    ASSUME NEW u \in Users, NEW r \in Requests
    PROVE  /\ Rewritten(u, r) \in Users /\ Rewritten(u, r).name = u.name
           /\ r.copy = CopyOf(u) => Rewritten(u, r) = Patched(u, r.patch)
<1>1. r.copy \in Columns /\ r.patch \in Columns
  BY DEF Requests
<1>2. Patched(u, CopyOf(u)) = u
  BY ValuesAssumption DEF Users, Patched, CopyOf
<1>3. Patched(u, r.copy) \in Users /\ Patched(u, r.copy).name = u.name
  BY <1>1, PatchedRow
<1>4. Rewritten(u, r) \in Users /\ Rewritten(u, r).name = u.name
  BY <1>1, <1>3, PatchedRow DEF Rewritten
<1>5. r.copy = CopyOf(u) => Rewritten(u, r) = Patched(u, r.patch)
  BY <1>2 DEF Rewritten
<1> QED
  BY <1>4, <1>5

\* The administrator is a user whose columns can be read.
LEMMA AdminTyped == Admin \in Users /\ CopyOf(Admin) \in Columns
BY AdminAssumption DEF Admin, Users, CopyOf, Columns

-----------------------------------------------------------------------------
(* The inductive invariant.                                                *)

\* Every request is about an id, and only PostgreSQL has a step between the
\* read and the write of a row.
RequestInv ==
    \A h \in Handlers :
        /\ req[h].pc # "idle" => req[h].id \in Ids
        /\ At(h, "write") => store = "postgres"

\* While something is promised of a user, one request at most is between the
\* read and the write of the row, and its copy is the row.
CopyInv ==
    \A i \in Ids : promised[i] # Unsure =>
        /\ \A g, h \in Handlers : Updating(g, i) /\ Updating(h, i) => g = h
        /\ \A h \in Handlers : Updating(h, i) /\ users[i] # NoUser
                                 => req[h].copy = CopyOf(users[i])

AccountsInv == TypeOK /\ RequestInv /\ CopyInv /\ PromisesKept

\* The first state, with no request under way, has it.
LEMMA InitAccountsInv == Init => AccountsInv
<1> SUFFICES ASSUME Init
             PROVE  AccountsInv
  OBVIOUS
<1>1. Idle \in Requests /\ Idle.pc = "idle"
  BY DEF Idle, Requests, NoPatch, Columns
<1>2. TypeOK
  BY <1>1, AdminTyped, AdminAssumption, ValuesAssumption
     DEF Init, TypeOK, FreshUsers, FreshNames, FreshPromises
<1>3. RequestInv /\ CopyInv
  BY <1>1 DEF Init, RequestInv, CopyInv, At, Updating
<1>4. PromisesKept
  BY DEF Init, PromisesKept, FreshUsers, FreshPromises
<1> QED
  BY <1>2, <1>3, <1>4 DEF AccountsInv

\* What is known of a user that is there.
LEMMA Promise ==
    ASSUME AccountsInv, NEW i \in Ids, users[i] # NoUser
    PROVE  /\ users[i] \in Users
           /\ promised[i] = Unsure \/ promised[i] = CopyOf(users[i])
           /\ promised[i] # Unsure => promised[i] \in Columns
           /\ promised[i] # NoUser
           /\ store = "memory" => promised[i] = CopyOf(users[i]) /\ promised[i] # Unsure
<1>1. users[i] \in Users
  BY DEF AccountsInv, TypeOK
<1>2. CopyOf(users[i]) \in Columns
  BY <1>1 DEF Users, CopyOf, Columns
<1>3. Unsure \notin Columns /\ NoUser \notin Columns /\ NoUser # Unsure
  BY ValuesAssumption DEF Columns
<1> QED
  BY <1>1, <1>2, <1>3 DEF AccountsInv, PromisesKept

-----------------------------------------------------------------------------
(* Steps that write no row.                                                *)

\* The request of h goes on, or begins, without a row read or written.
LEMMA QuietRequest ==
    ASSUME AccountsInv, NEW h \in Handlers, NEW r \in Requests,
           req' = [req EXCEPT ![h] = r], r.pc # "write", r.pc # "idle" => r.id \in Ids,
           UNCHANGED <<store, tables, history, restarts>>, tokens' \subseteq Ids
    PROVE  AccountsInv'
<1>1. TypeOK'
  BY DEF AccountsInv, TypeOK, tables, history
<1>2. /\ \A g \in Handlers \ {h} : req'[g] = req[g]
      /\ req'[h] = r /\ users' = users /\ promised' = promised /\ store' = store
  BY DEF AccountsInv, TypeOK, tables, history
<1>3. RequestInv'
  BY <1>2 DEF AccountsInv, RequestInv, At
<1>4. \A g \in Handlers, i \in Ids : Updating(g, i)' => g # h /\ Updating(g, i) /\ req'[g] = req[g]
  BY <1>2 DEF Updating, At
<1>5. CopyInv'
  BY <1>2, <1>4 DEF AccountsInv, CopyInv
<1>6. PromisesKept'
  BY <1>2 DEF AccountsInv, PromisesKept
<1> QED
  BY <1>1, <1>3, <1>5, <1>6 DEF AccountsInv

\* Logins, tokens, the beginnings of updates and the answer 404.
LEMMA QuietSteps ==
    ASSUME AccountsInv, NEW h \in Handlers,
           \/ KeepToken(h) \/ UserNotFound(h)
           \/ \E n \in Names, p \in Passwords : Login(h, n, p)
           \/ \E i \in Ids, patch \in Patches : Update(h, i, patch)
           \/ \E i \in Ids, p \in Passwords : ChangePassword(h, i, p)
    PROVE  AccountsInv'
<1> USE DEF Columns
<1>0. /\ Idle \in Requests /\ Idle.pc = "idle" /\ NoPatch \in Columns
      /\ tokens \subseteq Ids /\ req[h] \in Requests
      /\ \A patch \in Patches : patch \in Columns
  BY ValuesAssumption DEF Idle, Requests, NoPatch, AccountsInv, TypeOK
<1>1. CASE KeepToken(h)
  <2> DEFINE r == [req[h] EXCEPT !.pc = "read"]
  <2>1. r \in Requests /\ r.pc = "read" /\ r.id = req[h].id /\ req[h].id \in Ids
    BY <1>0, <1>1 DEF Requests, KeepToken, At, AccountsInv, RequestInv
  <2>2. req' = [req EXCEPT ![h] = r] /\ tokens' = tokens \cup {req[h].id}
    BY <1>1 DEF KeepToken, AccountsInv, TypeOK
  <2> QED
    BY <1>0, <1>1, <2>1, <2>2, QuietRequest DEF KeepToken
<1>2. CASE UserNotFound(h)
  BY <1>0, <1>2, QuietRequest DEF UserNotFound, Finish
<1>3. ASSUME NEW n \in Names, NEW p \in Passwords, Login(h, n, p)
      PROVE  AccountsInv'
  <2>1. PICK i \in FindByName(n) : req' = [req EXCEPT ![h] = [Idle EXCEPT !.pc = "token", !.id = i]]
    BY <1>3 DEF Login
  <2>2. i \in Ids
    BY <2>1 DEF FindByName, AccountsInv, TypeOK
  <2> DEFINE r == [Idle EXCEPT !.pc = "token", !.id = i]
  <2>3. r \in Requests /\ r.pc = "token" /\ r.id = i
    BY <1>0, <2>2 DEF Requests, Idle
  <2> QED
    BY <1>0, <1>3, <2>1, <2>2, <2>3, QuietRequest DEF Login
<1>4. ASSUME NEW i \in Ids, NEW patch \in Patches, Update(h, i, patch)
      PROVE  AccountsInv'
  <2> DEFINE r == [Idle EXCEPT !.pc = "read", !.id = i, !.patch = patch]
  <2>1. r \in Requests /\ r.pc = "read" /\ r.id = i
    BY <1>0 DEF Requests, Idle
  <2> QED
    BY <1>0, <1>4, <2>1, QuietRequest DEF Update
<1>5. ASSUME NEW i \in Ids, NEW p \in Passwords, ChangePassword(h, i, p)
      PROVE  AccountsInv'
  <2> DEFINE patch == [NoPatch EXCEPT !.password = p]
             r == [Idle EXCEPT !.pc = "read", !.id = i, !.patch = patch]
  <2>1. patch \in Columns
    BY DEF NoPatch
  <2>2. r \in Requests /\ r.pc = "read" /\ r.id = i
    BY <1>0, <2>1 DEF Requests, Idle
  <2> QED
    BY <1>0, <1>5, <2>2, QuietRequest DEF ChangePassword
<1> QED
  BY <1>1, <1>2, <1>3, <1>4, <1>5

-----------------------------------------------------------------------------
(* Steps that write or read a row.                                         *)

\* Only the row and the promise of user i change, and requests that have read
\* it end, or the promise is withdrawn or there is no row to copy.
LEMMA RowStep ==
    ASSUME AccountsInv, TypeOK', NEW i \in Ids, store' = store,
           \A j \in Ids \ {i} : users'[j] = users[j] /\ promised'[j] = promised[j],
           \A h \in Handlers : req'[h] = req[h] \/ req'[h] = Idle,
           users'[i] # NoUser =>
               \/ promised'[i] = CopyOf(users'[i])
               \/ promised'[i] = Unsure /\ store = "postgres",
           \/ promised'[i] = Unsure
           \/ \A h \in Handlers : ~Updating(h, i)'
           \/ users'[i] = NoUser /\ promised'[i] = promised[i]
    PROVE  AccountsInv'
<1>1. Idle.pc = "idle"
  BY DEF Idle
<1>2. \A h \in Handlers, j \in Ids : Updating(h, j)' => Updating(h, j) /\ req'[h] = req[h]
  BY <1>1 DEF Updating, At
<1>3. RequestInv'
  BY <1>1 DEF AccountsInv, RequestInv, At
<1>4. PromisesKept'
  BY DEF AccountsInv, PromisesKept
<1>5. ASSUME NEW j \in Ids, promised'[j] # Unsure
      PROVE  /\ \A g, h \in Handlers : Updating(g, j)' /\ Updating(h, j)' => g = h
             /\ \A h \in Handlers : Updating(h, j)' /\ users'[j] # NoUser
                                      => req'[h].copy = CopyOf(users'[j])
  BY <1>2, <1>5 DEF AccountsInv, CopyInv
<1>6. CopyInv'
  BY <1>5 DEF CopyInv
<1> QED
  BY <1>3, <1>4, <1>6 DEF AccountsInv

\* Creating a user, also in the place of another one in memory.
LEMMA CreateUserInv ==
    ASSUME AccountsInv, NEW i \in Ids, NEW n \in Names, NEW p \in FirstPasswords,
           CreateUser(i, n, p)
    PROVE  AccountsInv'
<1> DEFINE u == [name |-> n, password |-> p, active |-> TRUE]
<1>1. u \in Users /\ CopyOf(u) \in Columns
  BY ValuesAssumption DEF Users, CopyOf, Columns
<1> HIDE DEF u
<1>2. /\ users' = [users EXCEPT ![i] = u]
      /\ promised' = [promised EXCEPT ![i] =
                        IF \E h \in Handlers : Updating(h, i) THEN Unsure ELSE CopyOf(u)]
      /\ UNCHANGED <<store, tokens, req, restarts>>
  BY DEF CreateUser, u
<1>3. /\ byName' \in [Names -> Ids \cup {NoId}]
      /\ taken' \subseteq Ids /\ deleted' \subseteq Ids
  BY DEF CreateUser, AccountsInv, TypeOK
<1>4. TypeOK'
  BY <1>1, <1>2, <1>3 DEF AccountsInv, TypeOK
<1>5. /\ users'[i] = u /\ users'[i] # NoUser
      /\ promised'[i] = IF \E h \in Handlers : Updating(h, i) THEN Unsure ELSE CopyOf(u)
      /\ \A j \in Ids \ {i} : users'[j] = users[j] /\ promised'[j] = promised[j]
  BY <1>1, <1>2, ValuesAssumption DEF AccountsInv, TypeOK, Users
<1>6. (\E h \in Handlers : Updating(h, i)) => store = "postgres"
  BY DEF Updating, AccountsInv, RequestInv
<1>7. \A h \in Handlers : Updating(h, i)' => Updating(h, i)
  BY <1>2 DEF Updating, At
<1> QED
  BY <1>2, <1>4, <1>5, <1>6, <1>7, RowStep

\* Deleting a user, whatever request has read the row.
LEMMA DeleteUserInv ==
    ASSUME AccountsInv, NEW i \in Ids, DeleteUser(i)
    PROVE  AccountsInv'
<1>1. TypeOK'
  BY DEF DeleteUser, AccountsInv, TypeOK, Users
<1>2. /\ users'[i] = NoUser /\ store' = store /\ req' = req /\ promised' = promised
      /\ \A j \in Ids \ {i} : users'[j] = users[j]
  BY DEF DeleteUser, AccountsInv, TypeOK
<1> QED
  BY <1>1, <1>2, RowStep

\* The copy is the row when it is read, or another request has read it too.
LEMMA ReadUserInv ==
    ASSUME AccountsInv, NEW h \in Handlers, ReadUser(h)
    PROVE  AccountsInv'
<1> DEFINE i == req[h].id
           r == [req[h] EXCEPT !.pc = "write", !.copy = CopyOf(users[i])]
<1>1. /\ i \in Ids /\ users[i] \in Users /\ store = "postgres"
      /\ req[h] \in Requests /\ req[h].pc = "read"
  BY Promise DEF ReadUser, At, AccountsInv, RequestInv, TypeOK
<1>2. r \in Requests /\ r.pc = "write" /\ r.id = i /\ r.copy = CopyOf(users[i])
  BY <1>1, ValuesAssumption DEF Requests, Users, Columns, CopyOf
<1>3. req' = [req EXCEPT ![h] = r]
  BY DEF ReadUser, AccountsInv, TypeOK
<1> HIDE DEF r
<1>4. /\ req'[h] = r /\ \A g \in Handlers \ {h} : req'[g] = req[g]
      /\ UNCHANGED <<store, users, byName, tokens, taken, deleted, restarts>>
      /\ promised' = [promised EXCEPT ![i] =
                        IF \E g \in Handlers : Updating(g, i) THEN Unsure ELSE @]
  BY <1>3 DEF ReadUser, tables, AccountsInv, TypeOK
<1>5. TypeOK'
  BY <1>1, <1>2, <1>3, <1>4 DEF AccountsInv, TypeOK
<1>6. RequestInv'
  BY <1>1, <1>2, <1>4 DEF AccountsInv, RequestInv, At
<1>7. \A j \in Ids : promised'[j] = promised[j] \/ (j = i /\ promised'[j] = Unsure)
  BY <1>4 DEF AccountsInv, TypeOK
<1>8. PromisesKept'
  BY <1>1, <1>4, <1>7 DEF AccountsInv, PromisesKept
<1>9. ASSUME NEW j \in Ids, promised'[j] # Unsure
      PROVE  /\ \A f, g \in Handlers : Updating(f, j)' /\ Updating(g, j)' => f = g
             /\ \A g \in Handlers : Updating(g, j)' /\ users'[j] # NoUser
                                      => req'[g].copy = CopyOf(users'[j])
  <2>1. promised[j] # Unsure
    BY <1>7, <1>9
  <2>2. CASE j # i
    <3>1. \A g \in Handlers : Updating(g, j)' => Updating(g, j) /\ req'[g] = req[g]
      BY <1>2, <1>4, <2>2 DEF Updating, At
    <3> QED
      BY <1>4, <2>1, <3>1 DEF AccountsInv, CopyInv
  <2>3. CASE j = i
    <3>1. \A g \in Handlers : ~Updating(g, i)
      BY <1>4, <1>9, <2>3, <1>1 DEF AccountsInv, TypeOK
    <3>2. \A g \in Handlers : Updating(g, j)' => g = h
      BY <1>4, <2>3, <3>1 DEF Updating, At
    <3> QED
      BY <1>2, <1>4, <2>3, <3>2
  <2> QED
    BY <2>2, <2>3
<1> QED
  BY <1>5, <1>6, <1>8, <1>9 DEF AccountsInv, CopyInv

\* What an answer tells is what was told before, patched.
LEMMA ToldColumns ==
    ASSUME AccountsInv, NEW h \in Handlers, Tell(h), NEW i \in Ids, i = req[h].id,
           users[i] # NoUser
    PROVE  /\ promised' \in [Ids -> Columns \cup {NoUser, Unsure}]
           /\ \A j \in Ids \ {i} : promised'[j] = promised[j]
           /\ promised[i] = Unsure => promised'[i] = Unsure
           /\ promised[i] # Unsure =>
                 promised'[i] = CopyOf(Patched(users[i], req[h].patch))
<1>1. req[h].patch \in Columns
  BY DEF AccountsInv, TypeOK, Requests
<1>2. /\ promised[i] # Unsure => promised[i] \in Columns /\ promised[i] = CopyOf(users[i])
      /\ users[i] \in Users
  BY Promise
<1>3. promised[i] # Unsure => Patched(promised[i], req[h].patch) \in Columns
  BY <1>1, <1>2, PatchedColumns
<1>4. CopyOf(Patched(users[i], req[h].patch)) = Patched(CopyOf(users[i]), req[h].patch)
  BY <1>1, <1>2, PatchedRow
<1>5. promised' = [promised EXCEPT ![i] =
                     IF @ = Unsure THEN Unsure ELSE Patched(@, req[h].patch)]
  BY DEF Tell
<1> QED
  BY <1>2, <1>3, <1>4, <1>5 DEF AccountsInv, TypeOK

\* An update in memory, which nothing can come between.
LEMMA UpdateInMemoryInv ==
    ASSUME AccountsInv, NEW h \in Handlers, UpdateInMemory(h)
    PROVE  AccountsInv'
<1> SUFFICES ASSUME NEW i \in Ids, i = req[h].id
             PROVE  AccountsInv'
  BY DEF UpdateInMemory, At, AccountsInv, RequestInv
<1> DEFINE u == Patched(users[i], req[h].patch)
<1>1. users[i] # NoUser /\ users[i] \in Users /\ req[h].patch \in Columns /\ store = "memory"
  BY Promise DEF UpdateInMemory, AccountsInv, TypeOK, Requests
<1>2. u \in Users /\ u # NoUser
  <2>1. u \in Users
    BY <1>1, PatchedRow
  <2>2. NoUser \notin Users
    BY ValuesAssumption DEF Users
  <2> QED
    BY <2>1, <2>2
<1>3. Idle \in Requests
  BY DEF Idle, Requests, NoPatch, Columns
<1>4. users' = [users EXCEPT ![i] = u] /\ req' = [req EXCEPT ![h] = Idle] /\ Tell(h)
  BY DEF UpdateInMemory, Finish
<1>5. UNCHANGED <<store, byName, tokens, taken, deleted, restarts>>
  BY DEF UpdateInMemory
<1>6. TypeOK'
  BY <1>1, <1>2, <1>3, <1>4, <1>5, ToldColumns DEF AccountsInv, TypeOK
<1>7. /\ users'[i] = u
      /\ \A j \in Ids \ {i} : users'[j] = users[j] /\ promised'[j] = promised[j]
  BY <1>1, <1>4, ToldColumns DEF AccountsInv, TypeOK
<1>8. promised'[i] = CopyOf(u)
  BY <1>1, <1>4, Promise, ToldColumns
<1>9. \A g \in Handlers : req'[g] = req[g] \/ req'[g] = Idle
  BY <1>4 DEF AccountsInv, TypeOK
<1>10. \A g \in Handlers : ~Updating(g, i)'
  BY <1>1, <1>9 DEF Updating, At, Idle, AccountsInv, RequestInv
<1> HIDE DEF u
<1> QED
  BY <1>5, <1>6, <1>7, <1>8, <1>9, <1>10, RowStep

\* What a write makes of the row of user i.
LEMMA WrittenRow ==
    ASSUME AccountsInv, NEW h \in Handlers, At(h, "write"), NEW i \in Ids, i = req[h].id,
           users' = [users EXCEPT ![i] =
                       IF @ = NoUser THEN NoUser ELSE Rewritten(@, req[h])]
    PROVE  /\ users' \in [Ids -> Users \cup {NoUser}]
           /\ \A j \in Ids \ {i} : users'[j] = users[j]
           /\ users[i] = NoUser <=> users'[i] = NoUser
           /\ users[i] # NoUser => users'[i].name = users[i].name
           /\ users[i] # NoUser /\ promised[i] # Unsure =>
                 users'[i] = Patched(users[i], req[h].patch)
<1>1. /\ users \in [Ids -> Users \cup {NoUser}] /\ req[h] \in Requests
      /\ NoUser \notin Users
  BY ValuesAssumption DEF AccountsInv, TypeOK, Users
<1>2. users[i] # NoUser => /\ Rewritten(users[i], req[h]) \in Users
                           /\ Rewritten(users[i], req[h]).name = users[i].name
  BY <1>1, RewrittenRow
<1>3. users[i] # NoUser /\ promised[i] # Unsure =>
          Rewritten(users[i], req[h]) = Patched(users[i], req[h].patch)
  BY <1>1, RewrittenRow DEF AccountsInv, CopyInv, Updating
<1> QED
  BY <1>1, <1>2, <1>3

\* A write, which carries the columns that were read.
LEMMA WriteUserInv ==
    ASSUME AccountsInv, NEW h \in Handlers, WriteUser(h) \/ WriteUserFails(h)
    PROVE  AccountsInv'
<1> SUFFICES ASSUME NEW i \in Ids, i = req[h].id
             PROVE  AccountsInv'
  BY DEF WriteUser, WriteUserFails, At, AccountsInv, RequestInv
<1>1. /\ At(h, "write") /\ store = "postgres" /\ Updating(h, i)
      /\ req' = [req EXCEPT ![h] = Idle]
      /\ UNCHANGED <<store, byName, tokens, taken, deleted, restarts>>
  BY DEF WriteUser, WriteUserFails, Finish, AccountsInv, RequestInv, At, Updating
<1>2. Idle \in Requests /\ Idle.pc = "idle"
  BY DEF Idle, Requests, NoPatch, Columns
<1>3. \/ users' = users /\ WriteUserFails(h)
      \/ users' = [users EXCEPT ![i] =
                     IF @ = NoUser THEN NoUser ELSE Rewritten(@, req[h])]
  BY DEF WriteUser, WriteUserFails
<1>4. /\ users' \in [Ids -> Users \cup {NoUser}]
      /\ \A j \in Ids \ {i} : users'[j] = users[j]
      /\ users[i] = NoUser => users'[i] = NoUser
  BY <1>1, <1>3, WrittenRow DEF AccountsInv, TypeOK
<1>5. /\ promised' \in [Ids -> Columns \cup {NoUser, Unsure}]
      /\ \A j \in Ids \ {i} : promised'[j] = promised[j]
  <2>1. CASE promised' = [promised EXCEPT ![i] = Unsure] \/ promised' = promised
    BY <2>1 DEF AccountsInv, TypeOK
  <2>2. CASE Tell(h) /\ users[i] # NoUser
    BY <2>2, ToldColumns
  <2> QED
    BY <2>1, <2>2 DEF WriteUser, WriteUserFails
<1>6. TypeOK'
  BY <1>1, <1>2, <1>4, <1>5 DEF AccountsInv, TypeOK
<1>7. \A g \in Handlers : req'[g] = req[g] \/ req'[g] = Idle
  BY <1>1 DEF AccountsInv, TypeOK
<1>8. promised'[i] = Unsure
      \/ (users'[i] = NoUser /\ promised'[i] = promised[i])
      \/ (/\ promised'[i] = CopyOf(users'[i])
          /\ promised[i] # Unsure)
  <2>1. CASE WriteUserFails(h)
    BY <2>1 DEF WriteUserFails, AccountsInv, TypeOK
  <2>2. CASE WriteUser(h) /\ users[i] = NoUser
    BY <1>4, <2>2 DEF WriteUser
  <2>3. CASE WriteUser(h) /\ users[i] # NoUser
    <3>1. Tell(h) /\ users' = [users EXCEPT ![i] =
                                 IF @ = NoUser THEN NoUser ELSE Rewritten(@, req[h])]
      BY <2>3 DEF WriteUser
    <3>2. promised[i] # Unsure => users'[i] = Patched(users[i], req[h].patch)
      BY <1>1, <2>3, <3>1, WrittenRow
    <3> QED
      BY <2>3, <3>1, <3>2, ToldColumns
  <2> QED
    BY <2>1, <2>2, <2>3
<1>9. promised[i] # Unsure => \A g \in Handlers : ~Updating(g, i)'
  <2>1. \A g \in Handlers : Updating(g, i)' => g # h /\ Updating(g, i)
    BY <1>1, <1>2, <1>7 DEF Updating, At, AccountsInv, TypeOK
  <2> QED
    BY <1>1, <2>1 DEF AccountsInv, CopyInv
<1> QED
  BY <1>1, <1>4, <1>5, <1>6, <1>7, <1>8, <1>9, RowStep

-----------------------------------------------------------------------------
(* Restarts.                                                               *)

\* The table that a stop leaves has the same users, and another row only for
\* a user whose row was about to be written.
LEMMA LeftTable ==
    ASSUME AccountsInv, NEW t \in LeftBehind
    PROVE  /\ t \in [Ids -> Users \cup {NoUser}]
           /\ \A i \in Ids : users[i] = NoUser <=> t[i] = NoUser
           /\ \A i \in Ids : (\A h \in Handlers : ~Updating(h, i)) => t[i] = users[i]
<1>1. users \in [Ids -> Users \cup {NoUser}] /\ NoUser \notin Users
  BY ValuesAssumption DEF AccountsInv, TypeOK, Users
<1>2. CASE t = users
  BY <1>1, <1>2
<1>3. ASSUME NEW h \in Handlers, At(h, "write"),
             t = [users EXCEPT ![req[h].id] =
                    IF @ = NoUser THEN NoUser ELSE Rewritten(@, req[h])]
      PROVE  /\ t \in [Ids -> Users \cup {NoUser}]
             /\ \A i \in Ids : users[i] = NoUser <=> t[i] = NoUser
             /\ \A i \in Ids : Updating(h, i) \/ t[i] = users[i]
  <2>1. req[h].id \in Ids /\ req[h] \in Requests
    BY <1>3 DEF At, AccountsInv, RequestInv, TypeOK
  <2>2. users[req[h].id] # NoUser => Rewritten(users[req[h].id], req[h]) \in Users
    BY <1>1, <2>1, RewrittenRow
  <2>3. \A i \in Ids : i = req[h].id => Updating(h, i)
    BY <1>3 DEF Updating
  <2> QED
    BY <1>1, <1>3, <2>1, <2>2, <2>3
<1> QED
  BY <1>2, <1>3 DEF LeftBehind

\* A stop drops every request, and a start leaves only promises that hold.
LEMMA RestartInv ==
    ASSUME AccountsInv, RestartInMemory \/ RestartOnPostgres
    PROVE  AccountsInv'
<1>1. Idle \in Requests /\ Idle.pc = "idle"
  BY DEF Idle, Requests, NoPatch, Columns
<1>2. /\ req' = [h \in Handlers |-> Idle] /\ store' = store /\ tokens' = {}
      /\ restarts' \in 0..MaxRestarts
  BY ValuesAssumption DEF RestartInMemory, RestartOnPostgres, Stop, AccountsInv, TypeOK
<1>3. RequestInv' /\ CopyInv'
  BY <1>1, <1>2 DEF RequestInv, CopyInv, At, Updating
<1>4. CASE RestartInMemory
  <2>1. TypeOK'
    BY <1>1, <1>2, <1>4, AdminTyped, AdminAssumption, ValuesAssumption
       DEF RestartInMemory, AccountsInv, TypeOK, FreshUsers, FreshNames, FreshPromises
  <2>2. PromisesKept'
    BY <1>4 DEF RestartInMemory, PromisesKept, FreshUsers, FreshPromises
  <2> QED
    BY <1>3, <2>1, <2>2 DEF AccountsInv
<1>5. CASE RestartOnPostgres
  <2>1. PICK t \in LeftBehind, again \in SUBSET {AdminId} :
          /\ users' = [i \in Ids |-> IF i \in again THEN Admin ELSE t[i]]
          /\ deleted' = deleted \ again
          /\ promised' = [i \in Ids |->
                IF i \in again THEN CopyOf(Admin)
                ELSE IF \E h \in Handlers : Updating(h, i) THEN Unsure
                ELSE promised[i]]
    <3>1. PICK t \in LeftBehind, seed \in BOOLEAN :
            LET missing == \A i \in Ids : t[i] # NoUser => t[i].name # AdminName
                again == IF seed /\ missing THEN {AdminId} ELSE {}
            IN  /\ users' = [i \in Ids |-> IF i \in again THEN Admin ELSE t[i]]
                /\ deleted' = deleted \ again
                /\ promised' = [i \in Ids |->
                      IF i \in again THEN CopyOf(Admin)
                      ELSE IF \E h \in Handlers : Updating(h, i) THEN Unsure
                      ELSE promised[i]]
      BY <1>5, Zenon DEF RestartOnPostgres
    <3> DEFINE missing == \A i \in Ids : t[i] # NoUser => t[i].name # AdminName
               again == IF seed /\ missing THEN {AdminId} ELSE {}
    <3>2. again \in SUBSET {AdminId}
      BY Zenon
    <3>3. /\ users' = [i \in Ids |-> IF i \in again THEN Admin ELSE t[i]]
          /\ deleted' = deleted \ again
          /\ promised' = [i \in Ids |->
                IF i \in again THEN CopyOf(Admin)
                ELSE IF \E h \in Handlers : Updating(h, i) THEN Unsure
                ELSE promised[i]]
      BY <3>1
    <3> HIDE DEF again
    <3> QED
      BY <3>2, <3>3
  <2>2. /\ t \in [Ids -> Users \cup {NoUser}]
        /\ \A i \in Ids : users[i] = NoUser <=> t[i] = NoUser
        /\ \A i \in Ids : (\A h \in Handlers : ~Updating(h, i)) => t[i] = users[i]
    BY LeftTable
  <2>3. UNCHANGED <<store, byName, taken>> /\ store = "postgres"
    BY <1>2, <1>5 DEF RestartOnPostgres
  <2>4. TypeOK'
    BY <1>1, <1>2, <2>1, <2>2, <2>3, AdminTyped DEF AccountsInv, TypeOK
  <2>5. PromisesKept'
    BY <2>1, <2>2, <2>3 DEF PromisesKept, AccountsInv
  <2> QED
    BY <1>3, <2>4, <2>5 DEF AccountsInv
<1> QED
  BY <1>4, <1>5

\* Every step keeps the invariant.
LEMMA StepAccountsInv == AccountsInv /\ [Next]_vars => AccountsInv'
<1> SUFFICES ASSUME AccountsInv, [Next]_vars
             PROVE  AccountsInv'
  OBVIOUS
<1>1. ASSUME NEW h \in Handlers, Serve(h)
      PROVE  AccountsInv'
  BY <1>1, QuietSteps, UpdateInMemoryInv, ReadUserInv, WriteUserInv DEF Serve
<1>2. CASE UNCHANGED vars
  BY <1>2 DEF vars, tables, history, AccountsInv, TypeOK, RequestInv, CopyInv,
              PromisesKept, At, Updating
<1> QED
  BY <1>1, <1>2, QuietSteps, CreateUserInv, DeleteUserInv, RestartInv DEF Next

\* The types, the requests between read and write, and the promises.
THEOREM AccountsInvariant == Spec => []AccountsInv
BY InitAccountsInv, StepAccountsInv, PTL DEF Spec

\* An acknowledged password or deactivation is what the store has, except on
\* PostgreSQL after two updates of one user overlapped, or one failed.
THEOREM KeptPromises == Spec => []PromisesKept
<1>1. AccountsInv => PromisesKept
  BY DEF AccountsInv
<1> QED
  BY <1>1, AccountsInvariant, PTL

-----------------------------------------------------------------------------
(* Deleted users and the two maps of the memory store.                     *)

\* A row is made only by CreateUser and by a restart; an update or a login
\* finds it or leaves it away.
LEMMA DeletedStep ==
    ASSUME AccountsInv, DeletedStaysDeleted, [Next]_vars
    PROVE  DeletedStaysDeleted'
<1> USE DEF DeletedStaysDeleted
<1>0. users \in [Ids -> Users \cup {NoUser}] /\ deleted \subseteq Ids
  BY DEF AccountsInv, TypeOK
<1>1. ASSUME NEW i \in Ids, NEW n \in Names, NEW p \in FirstPasswords, CreateUser(i, n, p)
      PROVE  DeletedStaysDeleted'
  BY <1>0, <1>1 DEF CreateUser
<1>2. ASSUME NEW i \in Ids, DeleteUser(i)
      PROVE  DeletedStaysDeleted'
  BY <1>0, <1>2 DEF DeleteUser
<1>3. ASSUME NEW h \in Handlers, UpdateInMemory(h)
      PROVE  DeletedStaysDeleted'
  BY <1>0, <1>3 DEF UpdateInMemory
<1>4. ASSUME NEW h \in Handlers, WriteUser(h) \/ WriteUserFails(h)
      PROVE  DeletedStaysDeleted'
  BY <1>0, <1>4 DEF WriteUser, WriteUserFails
<1>5. CASE RestartInMemory
  BY <1>5 DEF RestartInMemory
<1>6. CASE RestartOnPostgres
  <2>1. PICK t \in LeftBehind, again \in SUBSET {AdminId} :
          /\ users' = [i \in Ids |-> IF i \in again THEN Admin ELSE t[i]]
          /\ deleted' = deleted \ again
    BY <1>6 DEF RestartOnPostgres
  <2>2. \A i \in Ids : users[i] = NoUser => t[i] = NoUser
    BY LeftTable
  <2> QED
    BY <1>0, <2>1, <2>2
<1>7. CASE UNCHANGED <<users, deleted>>
  BY <1>7
<1> QED
  BY <1>1, <1>2, <1>3, <1>4, <1>5, <1>6, <1>7
     DEF Next, Serve, KeepToken, ReadUser, UserNotFound, Login, Update,
         ChangePassword, vars, tables, history

\* A user that was deleted does not come back by a login or an update that
\* was on its way.
THEOREM DeletedForGood == Spec => []DeletedStaysDeleted
<1>1. Init => DeletedStaysDeleted
  BY DEF Init, DeletedStaysDeleted
<1>2. AccountsInv /\ DeletedStaysDeleted /\ [Next]_vars => DeletedStaysDeleted'
  BY DeletedStep
<1> QED
  BY <1>1, <1>2, AccountsInvariant, PTL DEF Spec

\* In memory no step but these three changes the two maps.
LEMMA MapsStep ==
    ASSUME AccountsInv, [Next]_vars, store = "memory",
           ~RestartInMemory, \A i \in Ids : ~DeleteUser(i),
           \A i \in Ids, n \in Names, p \in FirstPasswords : ~CreateUser(i, n, p)
    PROVE  /\ byName' = byName /\ taken' = taken
           /\ \A i \in Ids : /\ users'[i] = NoUser <=> users[i] = NoUser
                             /\ users[i] # NoUser => users'[i].name = users[i].name
<1>1. ASSUME NEW h \in Handlers, UpdateInMemory(h)
      PROVE  /\ byName' = byName /\ taken' = taken
             /\ \A i \in Ids : /\ users'[i] = NoUser <=> users[i] = NoUser
                               /\ users[i] # NoUser => users'[i].name = users[i].name
  <2>1. PICK i \in Ids : i = req[h].id
    BY <1>1 DEF UpdateInMemory, At, AccountsInv, RequestInv
  <2>2. users[i] # NoUser /\ users[i] \in Users /\ req[h].patch \in Columns
    BY <1>1, <2>1, Promise DEF UpdateInMemory, AccountsInv, TypeOK, Requests
  <2>3. /\ Patched(users[i], req[h].patch) \in Users
        /\ Patched(users[i], req[h].patch).name = users[i].name
    BY <2>2, PatchedRow
  <2>4. NoUser \notin Users
    BY ValuesAssumption DEF Users
  <2> QED
    BY <1>1, <2>1, <2>2, <2>3, <2>4 DEF UpdateInMemory, AccountsInv, TypeOK
<1>2. CASE UNCHANGED <<users, byName, taken>>
  BY <1>2
<1>3. \A h \in Handlers : ~WriteUser(h) /\ ~WriteUserFails(h)
  BY DEF WriteUser, WriteUserFails, AccountsInv, RequestInv
<1>4. ~RestartOnPostgres
  BY DEF RestartOnPostgres
<1> QED
  BY <1>1, <1>2, <1>3, <1>4
     DEF Next, Serve, KeepToken, ReadUser, UserNotFound, Login, Update,
         ChangePassword, vars, tables, history

\* The maps of a new memory store agree.
LEMMA FreshMaps ==
    /\ \A i \in Ids : FreshUsers[i] # NoUser => FreshNames[FreshUsers[i].name] = i
    /\ \A n \in Names : FreshNames[n] # NoId =>
          FreshUsers[FreshNames[n]] # NoUser /\ FreshUsers[FreshNames[n]].name = n
<1>1. Admin # NoUser /\ Admin.name = AdminName /\ AdminId \in Ids /\ AdminId # NoId
  <2>1. Admin \in Users /\ NoUser \notin Users
    BY AdminTyped, ValuesAssumption DEF Users
  <2>2. Admin.name = AdminName
    BY DEF Admin
  <2>3. AdminId \in Ids /\ AdminId # NoId
    BY AdminAssumption, ValuesAssumption
  <2> QED
    BY <2>1, <2>2, <2>3
<1>2. \A i \in Ids : FreshUsers[i] # NoUser => i = AdminId
  BY DEF FreshUsers
<1>3. FreshUsers[AdminId] # NoUser /\ FreshUsers[AdminId].name = AdminName
  BY <1>1 DEF FreshUsers
<1>4. \A n \in Names : FreshNames[n] = IF n = AdminName THEN AdminId ELSE NoId
  BY DEF FreshNames
<1> QED
  BY <1>1, <1>2, <1>3, <1>4, AdminAssumption

\* Every step keeps names and users in agreement.
LEMMA NamesStep ==
    ASSUME AccountsInv, NamesFindUsers, [Next]_vars
    PROVE  NamesFindUsers'
<1>0. store' = store
  BY DEF Next, CreateUser, DeleteUser, Serve, KeepToken, UpdateInMemory, ReadUser,
         UserNotFound, WriteUser, WriteUserFails, Login, Update, ChangePassword,
         RestartInMemory, RestartOnPostgres, Stop, vars
<1> SUFFICES ASSUME store = "memory"
             PROVE  NamesFindUsers'
  BY <1>0 DEF NamesFindUsers
<1>1. /\ users \in [Ids -> Users \cup {NoUser}] /\ byName \in [Names -> Ids \cup {NoId}]
      /\ NoUser \notin Users /\ NoId \notin Ids
      /\ \A u \in Users : u.name \in Names
  BY ValuesAssumption DEF AccountsInv, TypeOK, Users
<1>2. /\ \A i \in Ids : users[i] # NoUser => byName[users[i].name] = i
      /\ \A n \in Names : byName[n] # NoId /\ byName[n] \notin taken
              => users[byName[n]] # NoUser /\ users[byName[n]].name = n
  BY DEF NamesFindUsers
<1>3. ASSUME NEW i \in Ids, NEW n \in Names, NEW p \in FirstPasswords, CreateUser(i, n, p)
      PROVE  NamesFindUsers'
  <2> DEFINE u == [name |-> n, password |-> p, active |-> TRUE]
  <2>1. u \in Users /\ u # NoUser /\ u.name = n
    <3>1. u \in Users /\ u.name = n
      BY ValuesAssumption DEF Users
    <3> QED
      BY <1>1, <3>1
  <2> HIDE DEF u
  <2>2. /\ byName[n] = NoId /\ users' = [users EXCEPT ![i] = u]
        /\ byName' = [byName EXCEPT ![n] = i]
        /\ taken' = IF promised[i] = NoUser THEN taken ELSE taken \cup {i}
    BY <1>3 DEF CreateUser, MayCreate, u
  <2>3. i \notin taken' => users[i] = NoUser
    BY <2>2, Promise
  <2>4. /\ users'[i] = u /\ byName'[n] = i
        /\ \A j \in Ids \ {i} : users'[j] = users[j]
        /\ \A m \in Names \ {n} : byName'[m] = byName[m]
    BY <1>1, <2>2
  <2>5. \A j \in Ids : users'[j] # NoUser => byName'[users'[j].name] = j
    <3>1. \A j \in Ids \ {i} : users[j] # NoUser => users[j].name \in Names \ {n}
      BY <1>1, <1>2, <2>2
    <3> QED
      BY <1>2, <2>1, <2>4, <3>1
  <2>6. ASSUME NEW m \in Names, byName'[m] # NoId, byName'[m] \notin taken'
        PROVE  users'[byName'[m]] # NoUser /\ users'[byName'[m]].name = m
    <3>1. CASE m = n
      BY <2>1, <2>4, <3>1
    <3>2. CASE m # n
      <4>1. byName'[m] = byName[m] /\ byName[m] \in Ids /\ byName[m] \notin taken
        BY <1>1, <2>2, <2>4, <2>6, <3>2
      <4>2. users[byName[m]] # NoUser /\ users[byName[m]].name = m
        BY <1>2, <2>6, <4>1
      <4>3. byName[m] # i
        BY <2>3, <2>6, <4>1, <4>2
      <4> QED
        BY <2>4, <4>1, <4>2, <4>3
    <3> QED
      BY <3>1, <3>2
  <2> QED
    BY <2>5, <2>6 DEF NamesFindUsers
<1>4. ASSUME NEW i \in Ids, DeleteUser(i)
      PROVE  NamesFindUsers'
  <2> DEFINE n == users[i].name
  <2>1. /\ users[i] # NoUser /\ users' = [users EXCEPT ![i] = NoUser]
        /\ byName' = [byName EXCEPT ![n] = NoId] /\ taken' = taken /\ n \in Names
    BY <1>1, <1>4 DEF DeleteUser
  <2> HIDE DEF n
  <2>2. /\ users'[i] = NoUser /\ byName'[n] = NoId
        /\ \A j \in Ids \ {i} : users'[j] = users[j]
        /\ \A m \in Names \ {n} : byName'[m] = byName[m]
    BY <1>1, <2>1
  <2>3. \A j \in Ids \ {i} : users[j] # NoUser => users[j].name \in Names \ {n}
    BY <1>1, <1>2, <2>1 DEF n
  <2>4. \A j \in Ids : users'[j] # NoUser => byName'[users'[j].name] = j
    BY <1>2, <2>2, <2>3
  <2>5. ASSUME NEW m \in Names, byName'[m] # NoId, byName'[m] \notin taken'
        PROVE  users'[byName'[m]] # NoUser /\ users'[byName'[m]].name = m
    <3>1. m # n /\ byName'[m] = byName[m] /\ byName[m] \in Ids /\ byName[m] \notin taken
      BY <1>1, <2>1, <2>2, <2>5
    <3>2. users[byName[m]] # NoUser /\ users[byName[m]].name = m
      BY <1>2, <2>5, <3>1
    <3>3. byName[m] # i
      BY <3>1, <3>2 DEF n
    <3> QED
      BY <2>2, <3>1, <3>2, <3>3
  <2> QED
    BY <2>4, <2>5 DEF NamesFindUsers
<1>5. CASE RestartInMemory
  <2>1. users' = FreshUsers /\ byName' = FreshNames
    BY <1>5 DEF RestartInMemory
  <2> QED
    BY <2>1, FreshMaps DEF NamesFindUsers
<1>6. CASE /\ ~RestartInMemory /\ \A i \in Ids : ~DeleteUser(i)
           /\ \A i \in Ids, n \in Names, p \in FirstPasswords : ~CreateUser(i, n, p)
  <2>1. /\ byName' = byName /\ taken' = taken
        /\ \A i \in Ids : /\ users'[i] = NoUser <=> users[i] = NoUser
                          /\ users[i] # NoUser => users'[i].name = users[i].name
    BY <1>6, MapsStep
  <2> QED
    BY <1>1, <1>2, <2>1 DEF NamesFindUsers
<1> QED
  BY <1>3, <1>4, <1>5, <1>6

\* A user is found under the name it has, and the name of a deleted user is
\* free, except for ids that were given twice.
THEOREM NamesAgree == Spec => []NamesFindUsers
<1>1. Init => NamesFindUsers
  BY FreshMaps DEF Init, NamesFindUsers
<1>2. AccountsInv /\ NamesFindUsers /\ [Next]_vars => NamesFindUsers'
  BY NamesStep
<1> QED
  BY <1>1, <1>2, AccountsInvariant, PTL DEF Spec
=============================================================================
