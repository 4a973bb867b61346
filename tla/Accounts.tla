------------------------------ MODULE Accounts ------------------------------
(***************************************************************************)
(* Users, their passwords and their tokens.  A user is kept under its      *)
(* user_id; the memory store has a second map from user names to ids, the  *)
(* users table has two UNIQUE columns.  The tokens are a map in the memory *)
(* of the process.  A login also updates the user (last_login_at), and the *)
(* PostgreSQL store updates by reading the row, patching the copy and      *)
(* writing every column of it back, in two statements.                     *)
(*                                                                         *)
(* The process may stop at any time; the unsynchronised map of tokens is   *)
(* one more cause, the Go runtime ends a process that it sees read and     *)
(* write a map at once.                                                    *)
(***************************************************************************)
EXTENDS Naturals

CONSTANTS
    Handlers,    \* goroutines that serve requests
    Ids,         \* user ids
    Names,       \* user names
    Passwords,
    NoId,        \* no user id, or no entry under a name
    NoUser,      \* no user under an id
    Unsure,      \* nothing is promised of a user
    Keep,        \* a column that a patch leaves alone
    Patches,     \* bodies of PUT /api/user/{user_id}
    FirstPasswords, \* passwords that users are created with
    AdminId, AdminName, AdminPassword, \* the user every store starts with
    Stores,      \* the stores to check: "memory", "postgres"
    StoreErrors, \* a statement may fail on PostgreSQL
    MaxRestarts  \* bound: times the process stops

ASSUME AdminAssumption ==
    /\ AdminId \in Ids /\ AdminName \in Names /\ AdminPassword \in Passwords

ASSUME ValuesAssumption ==
    /\ NoId \notin Ids
    /\ FirstPasswords \subseteq Passwords
    /\ Patches \subseteq [password : Passwords \cup {Keep}, active : BOOLEAN \cup {Keep}]
    /\ Keep \notin Passwords \cup BOOLEAN
    /\ NoUser \notin [name : Names, password : Passwords, active : BOOLEAN]
    /\ NoUser # Unsure
    /\ {NoUser, Unsure} \cap
          [password : Passwords \cup {Keep}, active : BOOLEAN \cup {Keep}] = {}
    /\ Stores \subseteq {"memory", "postgres"}
    /\ StoreErrors \in BOOLEAN
    /\ MaxRestarts \in Nat

VARIABLES
    store,     \* which store the process runs on
    users,     \* users by id
    byName,    \* MemoryStore.usersByUsername; unused on PostgreSQL
    tokens,    \* Server.tokens: the ids that tokens stand for
    req,       \* what each goroutine is doing
    promised,  \* history: the columns that the last answer has told of an id;
               \* Unsure once two updates overlapped or one failed
    taken,     \* history: ids the memory store gave to more than one user
    deleted,   \* history: ids of users that were deleted
    restarts

tables == <<users, byName>>
history == <<promised, taken, deleted>>
vars == <<store, tables, tokens, req, history, restarts>>

Users == [name : Names, password : Passwords, active : BOOLEAN]
Columns == [password : Passwords \cup {Keep}, active : BOOLEAN \cup {Keep}]
NoPatch == [password |-> Keep, active |-> Keep]
CopyOf(u) == [password |-> u.password, active |-> u.active]
Patched(u, patch) ==
    [u EXCEPT !.password = IF patch.password = Keep THEN @ ELSE patch.password,
              !.active = IF patch.active = Keep THEN @ ELSE patch.active]

\* pc: the next call; patch: the columns to change; copy: the columns read.
Requests == [pc : {"idle", "token", "read", "write"}, id : Ids \cup {NoId},
             patch : Columns, copy : Columns]
Idle == [pc |-> "idle", id |-> NoId, patch |-> NoPatch, copy |-> NoPatch]

At(h, step) == req[h].pc = step
Finish(h) == req' = [req EXCEPT ![h] = Idle]

Admin == [name |-> AdminName, password |-> AdminPassword, active |-> TRUE]

FreshUsers == [i \in Ids |-> IF i = AdminId THEN Admin ELSE NoUser]
FreshPromises == [i \in Ids |-> IF i = AdminId THEN CopyOf(Admin) ELSE NoUser]
FreshNames == [n \in Names |-> IF n = AdminName THEN AdminId ELSE NoId]

Init ==
    /\ store \in Stores
    /\ users = FreshUsers /\ byName = FreshNames
    /\ tokens = {}
    /\ req = [h \in Handlers |-> Idle]
    /\ promised = FreshPromises
    /\ taken = {}
    /\ deleted = {}
    /\ restarts = 0

-----------------------------------------------------------------------------
(* Users are created and deleted in one statement.                         *)

\* The memory store looks only at the name: a user may replace another one
\* that has the same id.
MayCreate(i, n) ==
    IF store = "memory" THEN byName[n] = NoId
    ELSE users[i] = NoUser /\ \A j \in Ids : users[j] # NoUser => users[j].name # n

\* A request that has read the row and not written it back yet.
Updating(h, i) == At(h, "write") /\ req[h].id = i

\* POST /api/user, /api/auth/create-user and init-admin, the id given in the
\* body or made by newID.
CreateUser(i, n, p) ==
    LET u == [name |-> n, password |-> p, active |-> TRUE] IN
    /\ MayCreate(i, n)
    /\ users' = [users EXCEPT ![i] = u]
    /\ byName' = IF store = "memory" THEN [byName EXCEPT ![n] = i] ELSE byName
    /\ promised' = [promised EXCEPT ![i] =
                       IF \E h \in Handlers : Updating(h, i) THEN Unsure ELSE CopyOf(u)]
    /\ taken' = IF promised[i] = NoUser \/ store = "postgres" THEN taken ELSE taken \cup {i}
    /\ deleted' = deleted \ {i}
    /\ UNCHANGED <<store, tokens, req, restarts>>

MutantDeleteUser(i) ==
    /\ users[i] # NoUser
    /\ users' = [users EXCEPT ![i] = NoUser]
    /\ deleted' = deleted \cup {i}
    /\ UNCHANGED <<store, byName, tokens, req, promised, taken, restarts>>

DeleteUser(i) ==
    /\ users[i] # NoUser
    /\ users' = [users EXCEPT ![i] = NoUser]
    /\ byName' = IF store = "memory" THEN [byName EXCEPT ![users[i].name] = NoId] ELSE byName
    /\ deleted' = deleted \cup {i}
    /\ UNCHANGED <<store, tokens, req, promised, taken, restarts>>

-----------------------------------------------------------------------------
(* UpdateUser.                                                             *)

\* The answer tells the columns of the patch; the others were told before.
Tell(h) ==
    promised' = [promised EXCEPT ![req[h].id] =
                    IF @ = Unsure THEN Unsure ELSE Patched(@, req[h].patch)]

MutantUpdateInMemory(h) ==
    /\ At(h, "read") /\ store = "memory" /\ users[req[h].id] # NoUser
    /\ req' = [req EXCEPT ![h].pc = "write", ![h].copy = CopyOf(users[req[h].id])]
    /\ UNCHANGED <<store, tables, tokens, history, restarts>>

\* The memory store holds its mutex from the read to the write.
UpdateInMemory(h) ==
    /\ At(h, "read") /\ store = "memory" /\ users[req[h].id] # NoUser
    /\ users' = [users EXCEPT ![req[h].id] = Patched(@, req[h].patch)]
    /\ Tell(h)
    /\ Finish(h)
    /\ UNCHANGED <<store, byName, tokens, taken, deleted, restarts>>

ReadUser(h) ==
    /\ At(h, "read") /\ store = "postgres" /\ users[req[h].id] # NoUser
    /\ req' = [req EXCEPT ![h].pc = "write", ![h].copy = CopyOf(users[req[h].id])]
    /\ promised' = [promised EXCEPT ![req[h].id] =
                       IF \E g \in Handlers : Updating(g, req[h].id) THEN Unsure ELSE @]
    /\ UNCHANGED <<store, tables, tokens, taken, deleted, restarts>>

\* No user under the id, or the select fails: 404.
UserNotFound(h) ==
    /\ At(h, "read")
    /\ users[req[h].id] = NoUser \/ (StoreErrors /\ store = "postgres")
    /\ Finish(h)
    /\ UNCHANGED <<store, tables, tokens, history, restarts>>

\* Every column but the name goes back, patched or as it was read.
Rewritten(row, r) == Patched(Patched(row, r.copy), r.patch)

MutantWriteUser(h) ==
    LET i == req[h].id IN
    /\ At(h, "write")
    /\ users' = [users EXCEPT ![i] =
                    Rewritten(IF @ = NoUser THEN Admin ELSE @, req[h])]
    /\ Tell(h)
    /\ Finish(h)
    /\ UNCHANGED <<store, byName, tokens, taken, deleted, restarts>>

\* A row that was deleted meanwhile stays away.
WriteUser(h) ==
    LET i == req[h].id IN
    /\ At(h, "write")
    /\ users' = [users EXCEPT ![i] =
                    IF @ = NoUser THEN NoUser ELSE Rewritten(@, req[h])]
    /\ IF users[i] = NoUser THEN promised' = promised ELSE Tell(h)
    /\ Finish(h)
    /\ UNCHANGED <<store, byName, tokens, taken, deleted, restarts>>

\* The update fails or its answer is lost.  PUT /api/user answers 404,
\* change-password answers success without a look at it.
WriteUserFails(h) ==
    LET i == req[h].id IN
    /\ At(h, "write") /\ StoreErrors
    /\ users' \in {users, [users EXCEPT ![i] =
                    IF @ = NoUser THEN NoUser ELSE Rewritten(@, req[h])]}
    /\ promised' = [promised EXCEPT ![i] = Unsure]
    /\ Finish(h)
    /\ UNCHANGED <<store, byName, tokens, taken, deleted, restarts>>

-----------------------------------------------------------------------------
(* Requests.                                                               *)

\* GetUserByUsername: the ids found under a name, one or none.
FindByName(n) ==
    IF store = "memory" THEN {i \in {byName[n]} : i # NoId /\ users[i] # NoUser}
    ELSE {i \in Ids : users[i] # NoUser /\ users[i].name = n}

\* POST /api/auth/login with the right password of an active user; Passwords
\* has no empty one, with which the code asks for none.
Login(h, n, p) ==
    /\ At(h, "idle")
    /\ \E i \in FindByName(n) :
          /\ users[i].active /\ users[i].password = p
          /\ req' = [req EXCEPT ![h] = [Idle EXCEPT !.pc = "token", !.id = i]]
    /\ UNCHANGED <<store, tables, tokens, history, restarts>>

\* The token is kept, then last_login_at is updated.
KeepToken(h) ==
    /\ At(h, "token")
    /\ tokens' = tokens \cup {req[h].id}
    /\ req' = [req EXCEPT ![h].pc = "read"]
    /\ UNCHANGED <<store, tables, history, restarts>>

\* PUT /api/user/{user_id} and its password, for any id.
Update(h, i, patch) ==
    /\ At(h, "idle")
    /\ req' = [req EXCEPT ![h] = [Idle EXCEPT !.pc = "read", !.id = i, !.patch = patch]]
    /\ UNCHANGED <<store, tables, tokens, history, restarts>>

\* POST /api/auth/change-password: currentUser finds the user of the token,
\* active or not.
ChangePassword(h, i, p) ==
    /\ At(h, "idle")
    /\ i \in tokens /\ users[i] # NoUser
    /\ req' = [req EXCEPT ![h] = [Idle EXCEPT !.pc = "read", !.id = i,
                                              !.patch = [NoPatch EXCEPT !.password = p]]]
    /\ UNCHANGED <<store, tables, tokens, history, restarts>>

Stop ==
    /\ restarts < MaxRestarts
    /\ restarts' = restarts + 1
    /\ req' = [h \in Handlers |-> Idle]
    /\ tokens' = {}
    /\ store' = store

RestartInMemory ==
    /\ store = "memory"
    /\ Stop
    /\ users' = FreshUsers /\ byName' = FreshNames
    /\ promised' = FreshPromises
    /\ taken' = {} /\ deleted' = {}

\* What the table may hold when the process is gone: an update whose statement
\* was on its way may count.
LeftBehind ==
    {users} \cup
    {[users EXCEPT ![req[h].id] = IF @ = NoUser THEN NoUser ELSE Rewritten(@, req[h])] :
        h \in {g \in Handlers : At(g, "write")}}

\* With AUTO_MIGRATE, Seed makes the administrator again unless the name is
\* taken.  When only the id is, the process does not come up.
RestartOnPostgres ==
    /\ store = "postgres"
    /\ Stop
    /\ \E t \in LeftBehind, seed \in BOOLEAN :
          LET missing == \A i \in Ids : t[i] # NoUser => t[i].name # AdminName
              again == IF seed /\ missing THEN {AdminId} ELSE {}
          IN  /\ \A i \in again : t[i] = NoUser
              /\ users' = [i \in Ids |-> IF i \in again THEN Admin ELSE t[i]]
              /\ deleted' = deleted \ again
              /\ promised' = [i \in Ids |->
                    IF i \in again THEN CopyOf(Admin)
                    ELSE IF \E h \in Handlers : Updating(h, i) THEN Unsure
                    ELSE promised[i]]
    /\ UNCHANGED <<byName, taken>>

Serve(h) ==
    \/ KeepToken(h) \/ UpdateInMemory(h) \/ ReadUser(h) \/ UserNotFound(h)
    \/ WriteUser(h) \/ WriteUserFails(h)

Next ==
    \/ \E i \in Ids, n \in Names, p \in FirstPasswords : CreateUser(i, n, p)
    \/ \E i \in Ids : DeleteUser(i)
    \/ \E h \in Handlers : Serve(h)
    \/ \E h \in Handlers, n \in Names, p \in Passwords : Login(h, n, p)
    \/ \E h \in Handlers, i \in Ids, patch \in Patches : Update(h, i, patch)
    \/ \E h \in Handlers, i \in Ids, p \in Passwords : ChangePassword(h, i, p)
    \/ RestartInMemory \/ RestartOnPostgres

Spec == Init /\ [][Next]_vars

-----------------------------------------------------------------------------
(* Properties.                                                             *)

\* Every variable keeps the shape the code gives it.
TypeOK ==
    /\ store \in Stores
    /\ users \in [Ids -> Users \cup {NoUser}]
    /\ byName \in [Names -> Ids \cup {NoId}]
    /\ tokens \subseteq Ids
    /\ req \in [Handlers -> Requests]
    /\ promised \in [Ids -> Columns \cup {NoUser, Unsure}]
    /\ taken \subseteq Ids /\ deleted \subseteq Ids
    /\ restarts \in 0..MaxRestarts

\* A password and a deactivation that were acknowledged are what the store
\* has, unless two updates of that user overlapped, or one failed.  A login is
\* an update too: it may undo them on PostgreSQL, and never in memory.
PromisesKept ==
    \A i \in Ids :
        users[i] # NoUser =>
            \/ promised[i] = CopyOf(users[i])
            \/ promised[i] = Unsure /\ store = "postgres"

\* A user that was deleted does not come back, whatever login or update of
\* the user was on its way.
DeletedStaysDeleted ==
    \A i \in deleted : users[i] = NoUser

\* The two maps of the memory store agree: a user is found under the name it
\* has, and a name stands for a user that has it, so that the name of a
\* deleted user is free again; except for an id that was given twice.
NamesFindUsers ==
    store = "memory" =>
        /\ \A i \in Ids : users[i] # NoUser => byName[users[i].name] = i
        /\ \A n \in Names : byName[n] # NoId /\ byName[n] \notin taken
              => users[byName[n]] # NoUser /\ users[byName[n]].name = n
=============================================================================
