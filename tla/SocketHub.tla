------------------------------ MODULE SocketHub ------------------------------
(***************************************************************************)
(* The Socket.IO hub: sessions, rooms (one per event) and the packets on   *)
(* their way to the browsers.  A browser polls (GET), posts its packets    *)
(* (POST), or has a websocket, whose goroutine reads the packets and ends  *)
(* by removing the session.  Stored messages are broadcast by the          *)
(* goroutines of the HTTP handlers.                                        *)
(*                                                                         *)
(* One lock guards the registry and the rooms.  A broadcast holds it for   *)
(* reading from its first member to its last; the queues and the websocket *)
(* are written without any lock.  Two writes to one websocket at the same  *)
(* time panic or garble each other; a panic ends the goroutine's request.  *)
(***************************************************************************)
EXTENDS Naturals, Sequences, FiniteSets, SequencesExt

CONSTANTS
    Sessions,     \* session ids, each made at most once
    Rooms,        \* event ids that are joined
    Conns,        \* websocket connections and the goroutines reading them
    Deaf,         \* those whose browser may stop reading, or be gone unnoticed
    Posters,      \* goroutines that serve the POSTs of polling clients
    Callers,      \* goroutines that broadcast a stored message
    Packets,      \* what the clients send
    NoSession, NoRoom, NoConn,
    QueueCap,     \* capacity of Session.Queue (256)
    BatchMax,     \* packets in the answer to a poll (16)
    Orderly,      \* a client posts its next packet after the last was answered
    PollsAbort,   \* clients may go away during a poll
    Upgrades,     \* a client may use polling and websockets for one session
    MaxMessages   \* bound: new_message packets of a behaviour

Handlers == Conns \cup Posters \cup Callers

ASSUME HubAssumption ==
    /\ NoSession \notin Sessions /\ NoRoom \notin Rooms /\ NoConn \notin Conns
    /\ Conns \cap Posters = {} /\ Conns \cap Callers = {} /\ Posters \cap Callers = {}
    /\ Callers \cap Sessions = {} /\ Deaf \subseteq Conns
    /\ Packets \subseteq {"join", "leave", "message", "test", "engine", "invalid"}
    /\ QueueCap \in Nat \ {0} /\ BatchMax \in Nat \ {0}
    /\ MaxMessages \in Nat
    /\ Orderly \in BOOLEAN /\ PollsAbort \in BOOLEAN /\ Upgrades \in BOOLEAN

VARIABLES
    state,      \* of a session: "new", "live" in Hub.sessions, or "gone"
    roomsOf,    \* Session.Rooms
    members,    \* Hub.rooms
    late,       \* history: sessions that were in use when they were removed
    queue,      \* Session.Queue
    wsOf,       \* Session.WS
    conn,       \* the connections
    handler,    \* what each goroutine is doing
    poll,       \* the GET of a session in progress
    log,        \* history: author and audience of the messages broadcast
    received,   \* history: messages a client got from its polls
    heard,      \* history: messages a client got from its websocket
    missing,    \* history: messages and statuses that did not get to a client
    cut,        \* history: messages whose broadcast was ended by a panic
    view        \* rooms the client has been told it is in

registry == <<state, roomsOf, members, late>>
client == <<received, heard, missing, view>>
vars == <<registry, queue, wsOf, conn, handler, poll, log, cut, client>>

Packet(k, x) == [kind |-> k, arg |-> x]

AllPackets == [kind : {"message", "joined", "left", "notice", "none"},
               arg : Rooms \cup {NoRoom} \cup Nat]

\* A step is named for what the goroutine does next.
Steps == {"idle", "join", "leave", "joined", "greet", "left", "test", "engine",
          "invalid", "announce", "message", "deliver"}
Jobs == [pc : Steps, session : Sessions \cup {NoSession},
         room : Rooms \cup {NoRoom}, msg : Nat, targets : SUBSET Sessions,
         write : [conn : Conns \cup {NoConn}, to : Sessions \cup {NoSession},
                  packet : AllPackets, clash : BOOLEAN]]

NoWrite == [conn |-> NoConn, to |-> NoSession, packet |-> Packet("none", NoRoom), clash |-> FALSE]
Idle == [pc |-> "idle", session |-> NoSession, room |-> NoRoom, msg |-> 0,
         targets |-> {}, write |-> NoWrite]
NoPoll == [on |-> FALSE, aborted |-> FALSE, batch |-> <<>>]

Init ==
    /\ state = [s \in Sessions |-> "new"]
    /\ roomsOf = [s \in Sessions |-> {}]
    /\ members = [r \in Rooms |-> {}]
    /\ late = {}
    /\ queue = [s \in Sessions |-> <<>>]
    /\ wsOf = [s \in Sessions |-> NoConn]
    /\ conn = [c \in Conns |-> [pc |-> "none", session |-> NoSession]]
    /\ handler = [h \in Handlers |-> Idle]
    /\ poll = [s \in Sessions |-> NoPoll]
    /\ log = <<>>
    /\ cut = {}
    /\ received = [s \in Sessions |-> <<>>]
    /\ heard = [s \in Sessions |-> <<>>]
    /\ missing = [s \in Sessions |-> {}]
    /\ view = [s \in Sessions |-> {}]

At(h, step) == handler[h].pc = step /\ handler[h].write = NoWrite
Goto(h, step) == [handler[h] EXCEPT !.pc = step]

\* No broadcast holds the lock for reading.
WriteLock == \A h \in Handlers : handler[h].pc # "deliver"

\* Messages of a sequence of packets, in order.
Messages(ps) ==
    LET ms[i \in 0..Len(ps)] ==
            IF i = 0 THEN <<>>
            ELSE IF ps[i].kind = "message" THEN Append(ms[i - 1], ps[i].arg)
            ELSE ms[i - 1]
    IN  ms[Len(ps)]

\* The rooms a client takes itself to be in after reading ps: for each room
\* the last status counts.
After(rooms, ps) ==
    {r \in Rooms :
        \/ \E i \in DOMAIN ps :
              /\ ps[i] = Packet("joined", r)
              /\ \A j \in DOMAIN ps : j > i => ps[j] # Packet("left", r)
        \/ r \in rooms /\ \A j \in DOMAIN ps : ps[j] # Packet("left", r)}

-----------------------------------------------------------------------------
(* Sending a packet to a session.                                          *)

IsOpen(c) == c # NoConn /\ conn[c].pc \in {"open", "closing"}
Writers(c) == {g \in Handlers : handler[g].write.conn = c}

\* The mutants, named for the mistake, each stand for a definition below.
MutantEnqueueDropsOldest(s, p) ==
    queue' = [queue EXCEPT ![s] = Append(IF Len(@) < QueueCap THEN @ ELSE Tail(@), p)]

\* A full queue drops the packet.
Enqueue(s, p) ==
    queue' = IF Len(queue[s]) < QueueCap THEN [queue EXCEPT ![s] = Append(@, p)]
                                         ELSE queue

\* Greetings and other notices are not kept.
Matters(p) == p.kind \in {"message", "joined", "left"}
Misses(s, p) ==
    missing' = IF Matters(p) THEN [missing EXCEPT ![s] = @ \cup {p}] ELSE missing

\* The writer panics: its request ends, and for a reader its connection.
Panic(h, s, p, msg) ==
    /\ handler' = [handler EXCEPT ![h] = Idle]
    /\ conn' = IF h \in Conns THEN [conn EXCEPT ![h].pc = "closing"] ELSE conn
    /\ cut' = IF msg = 0 THEN cut ELSE cut \cup {msg}
    /\ Misses(s, p)

\* The goroutine h begins to write p to the connection c and then goes on as
\* in next.  Two writers at a time are noticed by the one or the other, which
\* panics, or by none.
BeginWrite(h, c, s, p, next) ==
    LET write == [conn |-> c, to |-> s, packet |-> p, clash |-> Writers(c) # {}] IN
    \/ /\ handler' = [g \in Handlers |->
                        IF g = h THEN [next EXCEPT !.write = write]
                        ELSE IF g \in Writers(c) THEN [handler[g] EXCEPT !.write.clash = TRUE]
                        ELSE handler[g]]
       /\ UNCHANGED <<conn, cut, missing>>
    \/ Writers(c) # {} /\ Panic(h, s, p, next.msg)

\* What the browser of a connection may not get, though it was written.
Fails(w) == w.clash \/ w.conn \in Deaf \/ conn[w.conn].pc = "closed"

\* WriteMessage returns.  The hub sets no deadline for it.
EndWrite(h) ==
    LET w == handler[h].write IN
    /\ w # NoWrite
    /\ \/ /\ handler' = [handler EXCEPT ![h].write = NoWrite]
          /\ \/ /\ heard' = [heard EXCEPT ![w.to] = @ \o Messages(<<w.packet>>)]
                /\ view' = [view EXCEPT ![w.to] = After(@, <<w.packet>>)]
                /\ missing' = missing
             \/ Fails(w) /\ Misses(w.to, w.packet) /\ UNCHANGED <<heard, view>>
          /\ UNCHANGED <<conn, cut>>
       \/ w.clash /\ Panic(h, w.to, w.packet, handler[h].msg) /\ UNCHANGED <<heard, view>>
    /\ UNCHANGED <<registry, queue, wsOf, poll, log, received>>

\* Into the queue, and then to the websocket if there is one.
Send(h, s, p, next) ==
    /\ Enqueue(s, p)
    /\ IF IsOpen(wsOf[s]) THEN BeginWrite(h, wsOf[s], s, p, next)
       ELSE /\ handler' = [handler EXCEPT ![h] = next]
            /\ IF Len(queue[s]) = QueueCap THEN Misses(s, p) ELSE missing' = missing
            /\ UNCHANGED <<conn, cut>>
    /\ UNCHANGED <<registry, wsOf, poll, log, received, heard, view>>

-----------------------------------------------------------------------------
(* Polling.                                                                *)

\* The first GET makes the session.
NewSession(s) ==
    /\ state[s] = "new" /\ WriteLock
    /\ state' = [state EXCEPT ![s] = "live"]
    /\ UNCHANGED <<roomsOf, members, late, queue, wsOf, conn, handler, poll, log, cut, client>>

\* The sid names a session, and its client uses polling.
Polled(s) == state[s] = "live" /\ (Upgrades \/ \A c \in Conns : conn[c].session # s)

Poll(s) ==
    /\ Polled(s) /\ ~poll[s].on
    /\ poll' = [poll EXCEPT ![s].on = TRUE]
    /\ UNCHANGED <<registry, queue, wsOf, conn, handler, log, cut, client>>

MutantDrainOneNewest(s) ==
    /\ poll[s].on /\ queue[s] # <<>> /\ Len(poll[s].batch) < BatchMax
    /\ poll' = [poll EXCEPT ![s].batch = Append(@, Last(queue[s]))]
    /\ queue' = [queue EXCEPT ![s] = Front(@)]
    /\ UNCHANGED <<registry, wsOf, conn, handler, log, cut, client>>

\* drainPackets takes what is there, up to BatchMax packets.
DrainOne(s) ==
    /\ poll[s].on /\ queue[s] # <<>> /\ Len(poll[s].batch) < BatchMax
    /\ poll' = [poll EXCEPT ![s].batch = Append(@, Head(queue[s]))]
    /\ queue' = [queue EXCEPT ![s] = Tail(@)]
    /\ UNCHANGED <<registry, wsOf, conn, handler, log, cut, client>>

MutantRespondFullBatches(s) ==
    /\ poll[s].on /\ ~poll[s].aborted
    /\ poll[s].batch = <<>> \/ Len(poll[s].batch) = BatchMax
    /\ poll' = [poll EXCEPT ![s] = NoPoll]
    /\ received' = [received EXCEPT ![s] = @ \o Messages(poll[s].batch)]
    /\ view' = [view EXCEPT ![s] = After(@, poll[s].batch)]
    /\ UNCHANGED <<registry, queue, wsOf, conn, handler, log, cut, heard, missing>>

\* The answer goes out when no more packets were there, or a ping after 20
\* seconds without any.
Respond(s) ==
    /\ poll[s].on /\ ~poll[s].aborted
    /\ queue[s] = <<>> \/ Len(poll[s].batch) = BatchMax
    /\ poll' = [poll EXCEPT ![s] = NoPoll]
    /\ received' = [received EXCEPT ![s] = @ \o Messages(poll[s].batch)]
    /\ view' = [view EXCEPT ![s] = After(@, poll[s].batch)]
    /\ UNCHANGED <<registry, queue, wsOf, conn, handler, log, cut, heard, missing>>

\* The client goes away; the server may still take packets for it.
AbortPoll(s) ==
    /\ PollsAbort /\ poll[s].on
    /\ poll' = [poll EXCEPT ![s].aborted = TRUE]
    /\ UNCHANGED <<registry, queue, wsOf, conn, handler, log, cut, client>>

RespondToNobody(s) ==
    /\ poll[s].on /\ poll[s].aborted
    /\ poll[s].batch = <<>> \/ queue[s] = <<>> \/ Len(poll[s].batch) = BatchMax
    /\ poll' = [poll EXCEPT ![s] = NoPoll]
    /\ missing' = [missing EXCEPT ![s] = @ \cup {p \in Range(poll[s].batch) : Matters(p)}]
    /\ UNCHANGED <<registry, queue, wsOf, conn, handler, log, cut, received, heard, view>>

-----------------------------------------------------------------------------
(* Websockets.                                                             *)

\* The session of the sid, or a new one.
FindSession(c, s) ==
    /\ conn[c].pc = "none"
    /\ \/ Upgrades /\ state[s] = "live" /\ state' = state
       \/ state[s] = "new" /\ WriteLock /\ state' = [state EXCEPT ![s] = "live"]
    /\ conn' = [conn EXCEPT ![c] = [pc |-> "found", session |-> s]]
    /\ UNCHANGED <<roomsOf, members, late, queue, wsOf, handler, poll, log, cut, client>>

\* s.WS = conn, without the lock, and the open packet.
OpenSocket(c) ==
    LET s == conn[c].session IN
    /\ conn[c].pc = "found"
    /\ wsOf' = [wsOf EXCEPT ![s] = c]
    /\ conn' = [conn EXCEPT ![c].pc = "open"]
    /\ handler' = [handler EXCEPT ![c].write =
                     [NoWrite EXCEPT !.conn = c, !.to = s]]
    /\ UNCHANGED <<registry, queue, poll, log, cut, client>>

\* Somebody else is about to join the session to a room, or has a websocket
\* through which its client may ask for it.
InUse(c, s) ==
    \E h \in Handlers \ {c} :
        \/ handler[h].pc = "join" /\ handler[h].session = s
        \/ h \in Conns /\ conn[h].session = s /\ conn[h].pc \in {"found", "open"}

MutantRemoveSessionKeepsRooms(c) ==
    LET s == conn[c].session IN
    /\ conn[c].pc \in {"open", "closing"} /\ At(c, "idle") /\ WriteLock
    /\ conn' = [conn EXCEPT ![c].pc = "closed"]
    /\ state' = [state EXCEPT ![s] = "gone"]
    /\ late' = IF InUse(c, s) THEN late \cup {s} ELSE late
    /\ UNCHANGED <<roomsOf, members, queue, wsOf, handler, poll, log, cut, client>>

\* Reading fails or the reader has panicked: the deferred removeSession.
RemoveSession(c) ==
    LET s == conn[c].session IN
    /\ conn[c].pc \in {"open", "closing"} /\ At(c, "idle") /\ WriteLock
    /\ conn' = [conn EXCEPT ![c].pc = "closed"]
    /\ IF state[s] = "live"
         THEN /\ state' = [state EXCEPT ![s] = "gone"]
              /\ members' = [r \in Rooms |-> IF r \in roomsOf[s] THEN members[r] \ {s}
                                                                 ELSE members[r]]
              /\ late' = IF InUse(c, s) THEN late \cup {s} ELSE late
         ELSE UNCHANGED <<state, members, late>>
    /\ UNCHANGED <<roomsOf, queue, wsOf, handler, poll, log, cut, client>>

-----------------------------------------------------------------------------
(* Packets of the clients.                                                 *)

Busy(s) == \E h \in Handlers : handler[h].session = s
\* new_message packets there are or will be.
Pending == {h \in Handlers : handler[h].pc \in {"test", "message"}}
MessageLeft == Len(log) + Cardinality(Pending) < MaxMessages

\* A POST that found its session, or the websocket of the session.
Reads(h, s) ==
    \/ h \in Posters /\ Polled(s) /\ (Orderly => ~Busy(s))
    \/ h \in Conns /\ conn[h] = [pc |-> "open", session |-> s]

\* Handling goes on at the step named for the packet; a pong needs none.
Receive(h, s, kind, room) ==
    /\ At(h, "idle") /\ Reads(h, s)
    /\ kind \in {"test", "message"} => MessageLeft
    /\ handler' = [handler EXCEPT ![h].pc = kind, ![h].session = s, ![h].room = room]
    /\ UNCHANGED <<registry, queue, wsOf, conn, poll, log, cut, client>>

MutantJoinRoomHalf(h) ==
    LET s == handler[h].session
        r == handler[h].room
    IN
    /\ At(h, "join") /\ WriteLock
    /\ roomsOf' = [roomsOf EXCEPT ![s] = @ \cup {r}]
    /\ members' = members
    /\ handler' = [handler EXCEPT ![h].pc = "joined"]
    /\ UNCHANGED <<state, late, queue, wsOf, conn, poll, log, cut, client>>

JoinRoom(h) ==
    LET s == handler[h].session
        r == handler[h].room
    IN
    /\ At(h, "join") /\ WriteLock
    /\ roomsOf' = [roomsOf EXCEPT ![s] = @ \cup {r}]
    /\ members' = [members EXCEPT ![r] = @ \cup {s}]
    /\ handler' = [handler EXCEPT ![h].pc = "joined"]
    /\ UNCHANGED <<state, late, queue, wsOf, conn, poll, log, cut, client>>

LeaveRoom(h) ==
    LET s == handler[h].session
        r == handler[h].room
    IN
    /\ At(h, "leave") /\ WriteLock
    /\ roomsOf' = [roomsOf EXCEPT ![s] = @ \ {r}]
    /\ members' = [members EXCEPT ![r] = @ \ {s}]
    /\ handler' = [handler EXCEPT ![h].pc = "left"]
    /\ UNCHANGED <<state, late, queue, wsOf, conn, poll, log, cut, client>>

\* emitToSession: the status of a join or leave, the greeting after a join,
\* the answer to a test, an error; and where the goroutine goes next.
EmitToSession(h) ==
    LET s == handler[h].session
        r == handler[h].room
        Emit(step, kind, next) ==
            At(h, step) /\ Send(h, s, Packet(kind, r), next)
    IN
    \/ Emit("joined", "joined", Goto(h, "greet"))
    \/ Emit("greet", "notice", Goto(h, "announce"))
    \/ Emit("left", "left", Idle)
    \/ Emit("test", "notice", Goto(h, "message"))
    \/ Emit("invalid", "notice", Idle)

\* The acknowledgement of an Engine.IO packet goes one way only.
Acknowledge(h) ==
    LET s == handler[h].session
        p == Packet("notice", handler[h].room)
    IN
    /\ At(h, "engine")
    /\ IF h \in Conns
         THEN /\ BeginWrite(h, h, s, p, Idle)
              /\ UNCHANGED queue
         ELSE /\ Enqueue(s, p)
              /\ handler' = [handler EXCEPT ![h] = Idle]
              /\ IF Len(queue[s]) = QueueCap THEN Misses(s, p) ELSE missing' = missing
              /\ UNCHANGED <<conn, cut>>
    /\ UNCHANGED <<registry, wsOf, poll, log, received, heard, view>>

-----------------------------------------------------------------------------
(* Broadcast.                                                              *)

\* An HTTP handler has stored a message of event room.
BroadcastMessage(h, room) ==
    /\ h \in Callers /\ At(h, "idle") /\ MessageLeft
    /\ handler' = [handler EXCEPT ![h].pc = "message", ![h].room = room]
    /\ UNCHANGED <<registry, queue, wsOf, conn, poll, log, cut, client>>

Author(h) == IF h \in Callers THEN h ELSE handler[h].session

\* RLock; the members are those of this moment.
StartBroadcast(h) ==
    LET audience == members[handler[h].room] IN
    /\ \/ At(h, "announce") /\ log' = log
       \/ At(h, "message") /\ log' = Append(log, [author |-> Author(h), audience |-> audience])
    /\ handler' = [handler EXCEPT
                     ![h].pc = "deliver",
                     ![h].targets = audience,
                     ![h].msg = IF At(h, "message") THEN Len(log) + 1 ELSE 0]
    /\ UNCHANGED <<registry, queue, wsOf, conn, poll, cut, client>>

\* The members come in the order of a Go map.
DeliverOne(h) ==
    LET p == IF handler[h].msg = 0 THEN Packet("notice", handler[h].room)
                                   ELSE Packet("message", handler[h].msg)
    IN
    /\ At(h, "deliver")
    /\ \E s \in handler[h].targets :
          Send(h, s, p, [handler[h] EXCEPT !.targets = @ \ {s}])

MutantEndBroadcastKeepsLock(h) ==
    /\ At(h, "deliver") /\ handler[h].targets = {}
    /\ \A s \in Sessions : missing[s] = {}
    /\ handler' = [handler EXCEPT ![h] = Idle]
    /\ UNCHANGED <<registry, queue, wsOf, conn, poll, log, cut, client>>

EndBroadcast(h) ==
    /\ At(h, "deliver") /\ handler[h].targets = {}
    /\ handler' = [handler EXCEPT ![h] = Idle]
    /\ UNCHANGED <<registry, queue, wsOf, conn, poll, log, cut, client>>

-----------------------------------------------------------------------------
Work(h) ==
    \/ JoinRoom(h) \/ LeaveRoom(h) \/ EmitToSession(h) \/ Acknowledge(h)
    \/ StartBroadcast(h) \/ DeliverOne(h) \/ EndBroadcast(h) \/ EndWrite(h)

Polling(s) == Poll(s) \/ DrainOne(s) \/ Respond(s) \/ RespondToNobody(s)

Next ==
    \/ \E s \in Sessions : NewSession(s) \/ Polling(s) \/ AbortPoll(s)
    \/ \E c \in Conns : (\E s \in Sessions : FindSession(c, s)) \/ OpenSocket(c) \/ RemoveSession(c)
    \/ \E h \in Handlers, s \in Sessions, k \in Packets, r \in Rooms : Receive(h, s, k, r)
    \/ \E h \in Handlers, r \in Rooms : BroadcastMessage(h, r)
    \/ \E h \in Handlers : Work(h)

Spec == Init /\ [][Next]_vars

\* A write to a browser that has stopped reading may never return, unless the
\* connection is closed.
MayHang(h) == LET c == handler[h].write.conn IN c \in Deaf /\ conn[c].pc # "closed"

\* Steps for which the goroutine h waits for nobody.
Freely(h) ==
    \/ EmitToSession(h) \/ Acknowledge(h) \/ DeliverOne(h) \/ EndBroadcast(h)
    \/ ~MayHang(h) /\ EndWrite(h)

\* Steps that take the lock.  While a broadcast holds it for reading, another
\* reader may have to wait too: sync.RWMutex lets none pass a waiting writer.
Locks(h) == WriteLock /\ (JoinRoom(h) \/ LeaveRoom(h) \/ StartBroadcast(h))

\* Goroutines are scheduled; who waits for the lock gets it if it is free
\* again and again; a polling client polls again.
FairSpec ==
    /\ Spec
    /\ \A h \in Handlers : WF_vars(Freely(h)) /\ SF_vars(Locks(h))
    /\ \A s \in Sessions :
          SF_vars(WriteLock /\ Poll(s)) /\ WF_vars(DrainOne(s)) /\ WF_vars(Respond(s))

-----------------------------------------------------------------------------
(* Properties.                                                             *)

\* The registry, the queues and the goroutines keep their shape, and no
\* queue or batch grows beyond its limit.
TypeOK ==
    /\ state \in [Sessions -> {"new", "live", "gone"}]
    /\ roomsOf \in [Sessions -> SUBSET Rooms]
    /\ members \in [Rooms -> SUBSET Sessions]
    /\ queue \in [Sessions -> Seq(AllPackets)]
    /\ wsOf \in [Sessions -> Conns \cup {NoConn}]
    /\ conn \in [Conns -> [pc : {"none", "found", "open", "closing", "closed"},
                           session : Sessions \cup {NoSession}]]
    /\ handler \in [Handlers -> Jobs]
    /\ poll \in [Sessions -> [on : BOOLEAN, aborted : BOOLEAN, batch : Seq(AllPackets)]]
    /\ log \in Seq([author : Callers \cup Sessions \cup {NoSession}, audience : SUBSET Sessions])
    /\ \A s \in Sessions : /\ Len(queue[s]) <= QueueCap
                           /\ Len(poll[s].batch) <= BatchMax

\* A registered session is among the members of exactly the rooms it lists.
ListsAgree ==
    \A s \in Sessions, r \in Rooms :
        state[s] = "live" => (s \in members[r] <=> r \in roomsOf[s])

\* A removed session is left in a room, where every broadcast goes on filling
\* its queue and nothing removes it a second time, only when somebody was
\* about to join it, or could ask for it, while it was being removed.
GhostsHaveCauses ==
    \A s \in Sessions, r \in Rooms : s \in members[r] => state[s] = "live" \/ s \in late

\* The two ways of keeping who is where agree, and leave nobody behind but
\* for the one race that removeSession loses.
RoomsAgree == ListsAgree /\ GhostsHaveCauses

Unread(s) == Messages(poll[s].batch \o queue[s])
Writing(s) ==
    {handler[h].write.packet : h \in {g \in Handlers : handler[g].write.to = s}}
InOrder(ms) ==
    \A i, j \in DOMAIN ms : i < j =>
        /\ ms[i] # ms[j]
        /\ log[ms[i]].author = log[ms[j]].author => ms[i] < ms[j]

\* Whatever is broadcast at the same time, a client gets the messages of one
\* author in the order the author sent them, and none twice.
AuthorsInOrder ==
    \A s \in Sessions : InOrder(received[s] \o Unread(s)) /\ InOrder(heard[s])

\* When a broadcast is over, every member of the room has got the message or
\* has it waiting, unless its queue was full, its poll had been given up, or
\* its websocket was written to twice at a time, closed or no longer read.
MembersServed ==
    \A m \in DOMAIN log \ cut : (\A h \in Handlers : handler[h].msg # m) =>
        \A s \in log[m].audience :
            \/ m \in Range(received[s] \o heard[s] \o Unread(s))
            \/ Packet("message", m) \in missing[s] \cup Writing(s)

\* Once its packets are read, a client that polls and posts one packet at a
\* time takes itself to be in the rooms the hub has it in, however the
\* statuses were batched, as long as none was dropped.
StatusTellsTheTruth ==
    \A s \in Sessions :
        /\ state[s] = "live" /\ ~Busy(s) /\ \A c \in Conns : conn[c].session # s
        /\ \A p \in missing[s] : p.kind \notin {"joined", "left"}
        => After(view[s], poll[s].batch \o queue[s]) = roomsOf[s]

\* The documentation of the websocket package: a connection supports one
\* concurrent writer.  The hub has no lock around its writes.
OneWriter == \A c \in Conns : Cardinality(Writers(c)) <= 1

\* A broadcast is writing to a browser that may have stopped reading.
Hung == \E g \in Handlers : handler[g].pc = "deliver" /\ MayHang(g)

\* A message that was put into the queue of a client that goes on polling is
\* received, unless its poll is given up, the session is removed before, or
\* a broadcast hangs in a write for ever and with it the lock.
QueuedIsReceived ==
    \A s \in Sessions, m \in 1..MaxMessages :
        (m \in Range(Unread(s))) ~>
            \/ m \in Range(received[s])
            \/ Packet("message", m) \in missing[s]
            \/ state[s] = "gone"
            \/ []Hung

\* No request stays in the hub but in a write to a browser that has stopped
\* reading, its own or that of a broadcast, which keeps the lock meanwhile.
RequestsEnd ==
    \A h \in Handlers :
        (handler[h].pc # "idle") ~> (handler[h].pc = "idle" \/ [](MayHang(h) \/ Hung))
=============================================================================
