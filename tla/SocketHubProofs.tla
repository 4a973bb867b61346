--------------------------- MODULE SocketHubProofs ---------------------------
(***************************************************************************)
(* Theorems about SocketHub for any number of sessions, rooms, websockets  *)
(* and requests, any capacities, and clients that behave in any way.       *)
(***************************************************************************)
EXTENDS SocketHub, TLAPS, WellFoundedInduction

-----------------------------------------------------------------------------
(* Types.                                                                  *)

PacketSteps == {"join", "leave", "joined", "greet", "left", "test", "engine", "invalid"}

\* A goroutine that handles a packet does so for a session and a room.
WorkInv ==
    \A h \in Handlers :
        /\ handler[h].pc \in PacketSteps => handler[h].session \in Sessions
        /\ handler[h].pc \notin {"idle", "deliver"} => handler[h].room \in Rooms

TypeInv == TypeOK /\ WorkInv

\* The initial state is well typed.
LEMMA InitTypeInv == Init => TypeInv
BY HubAssumption
   DEF Init, TypeInv, TypeOK, WorkInv, PacketSteps, Jobs, Steps, AllPackets, Idle,
       NoWrite, NoPoll, Packet

Conn == [pc : {"none", "found", "open", "closing", "closed"},
         session : Sessions \cup {NoSession}]

\* The goroutine h has gone on to step next, or it has panicked; no other
\* goroutine has done anything but notice a clash.
Went(h, next) ==
    /\ \A g \in Handlers \ {h} : /\ handler'[g].pc = handler[g].pc
                                 /\ handler'[g].session = handler[g].session
                                 /\ handler'[g].room = handler[g].room
                                 /\ handler'[g].write = NoWrite <=> handler[g].write = NoWrite
    /\ \/ /\ handler'[h].pc = next.pc
          /\ handler'[h].session = next.session
          /\ handler'[h].room = next.room
          /\ conn' = conn
       \/ /\ handler'[h] = Idle
          /\ conn' = IF h \in Conns THEN [conn EXCEPT ![h].pc = "closing"] ELSE conn

\* A write that begins, or the panic in its place, keeps the types.
LEMMA BeginWriteTyped ==
    ASSUME TypeOK, NEW h \in Handlers, NEW c \in Conns,
           NEW s \in Sessions, NEW p \in AllPackets, NEW next \in Jobs,
           BeginWrite(h, c, s, p, next)
    PROVE  /\ handler' \in [Handlers -> Jobs]
           /\ conn' \in [Conns -> Conn]
           /\ Went(h, next)
<1> DEFINE write == [conn |-> c, to |-> s, packet |-> p, clash |-> Writers(c) # {}]
<1>1. handler \in [Handlers -> Jobs] /\ conn \in [Conns -> Conn]
  BY DEF TypeOK, Conn
<1>2. Idle \in Jobs
  BY DEF Idle, Jobs, Steps, NoWrite, Packet, AllPackets
<1>3. CASE Panic(h, s, p, next.msg)
  BY <1>1, <1>2, <1>3 DEF Panic, Conn, Went
<1>4. CASE /\ handler' = [g \in Handlers |->
                            IF g = h THEN [next EXCEPT !.write = write]
                            ELSE IF g \in Writers(c) THEN [handler[g] EXCEPT !.write.clash = TRUE]
                            ELSE handler[g]]
           /\ UNCHANGED conn
  <2>1. [next EXCEPT !.write = write] \in Jobs
    BY DEF Jobs
  <2>2. \A g \in Handlers : [handler[g] EXCEPT !.write.clash = TRUE] \in Jobs
    BY <1>1 DEF Jobs
  <2>3. /\ [next EXCEPT !.write = write].pc = next.pc
        /\ [next EXCEPT !.write = write].session = next.session
        /\ [next EXCEPT !.write = write].room = next.room
    BY DEF Jobs
  <2>4. \A g \in Handlers :
           /\ [handler[g] EXCEPT !.write.clash = TRUE].pc = handler[g].pc
           /\ [handler[g] EXCEPT !.write.clash = TRUE].session = handler[g].session
           /\ [handler[g] EXCEPT !.write.clash = TRUE].room = handler[g].room
           /\ g \in Writers(c) => /\ handler[g].write # NoWrite
                                  /\ [handler[g] EXCEPT !.write.clash = TRUE].write # NoWrite
    BY <1>1, HubAssumption DEF Jobs, Writers, NoWrite
  <2> HIDE DEF write
  <2> QED
    BY <1>1, <1>4, <2>1, <2>2, <2>3, <2>4 DEF Went
<1> QED
  BY <1>3, <1>4 DEF BeginWrite

\* The queue keeps its type and its limit.
LEMMA EnqueueTyped ==
    ASSUME TypeOK, NEW s \in Sessions, NEW p \in AllPackets, Enqueue(s, p)
    PROVE  /\ queue' \in [Sessions -> Seq(AllPackets)]
           /\ \A t \in Sessions : Len(queue'[t]) <= QueueCap
<1>1. queue[s] \in Seq(AllPackets) /\ Len(queue[s]) \in Nat /\ QueueCap \in Nat
  BY HubAssumption DEF TypeOK
<1>2. Append(queue[s], p) \in Seq(AllPackets) /\ Len(Append(queue[s], p)) = Len(queue[s]) + 1
  BY <1>1
<1> QED
  BY <1>1, <1>2 DEF Enqueue, TypeOK

\* So does a packet that is sent to a session.
LEMMA SendTyped ==
    ASSUME TypeOK, NEW h \in Handlers, NEW s \in Sessions, NEW p \in AllPackets,
           NEW next \in Jobs, Send(h, s, p, next)
    PROVE  TypeOK' /\ Went(h, next) /\ UNCHANGED registry
<1>1. /\ queue' \in [Sessions -> Seq(AllPackets)]
      /\ \A t \in Sessions : Len(queue'[t]) <= QueueCap
  BY EnqueueTyped DEF Send
<1>2. /\ handler' \in [Handlers -> Jobs]
      /\ conn' \in [Conns -> Conn]
      /\ Went(h, next)
  <2>1. CASE IsOpen(wsOf[s])
    <3>1. wsOf[s] \in Conns
      BY <2>1 DEF IsOpen, TypeOK
    <3> QED
      BY <2>1, <3>1, BeginWriteTyped DEF Send
  <2>2. CASE ~IsOpen(wsOf[s])
    BY <2>2 DEF Send, TypeOK, Conn, Went
  <2> QED
    BY <2>1, <2>2
<1>3. UNCHANGED <<registry, wsOf, poll, log>>
  BY DEF Send
<1> QED
  BY <1>1, <1>2, <1>3 DEF TypeOK, Conn, registry

\* What a goroutine at work may do to itself, the others and its connection.
Continues(h) ==
    /\ \A g \in Handlers \ {h} : /\ handler'[g].pc = handler[g].pc
                                 /\ handler'[g].session = handler[g].session
                                 /\ handler'[g].room = handler[g].room
                                 /\ handler'[g].write = NoWrite <=> handler[g].write = NoWrite
    /\ handler'[h].pc \in {"join", "leave"} => handler'[h].pc = handler[h].pc
    /\ handler'[h].pc # "idle" => /\ handler[h].pc # "idle"
                                 /\ handler'[h].session = handler[h].session
    /\ \/ /\ handler'[h].session \in {handler[h].session, NoSession}
          /\ conn' = conn
       \/ /\ handler'[h] = Idle
          /\ conn' = IF h \in Conns THEN [conn EXCEPT ![h].pc = "closing"] ELSE conn

\* A goroutine that sends and goes on, ends, or panics keeps the types and
\* leaves the registry alone.
LEMMA SendContinues ==
    ASSUME TypeInv, NEW h \in Handlers, NEW s \in Sessions, NEW p \in AllPackets,
           NEW next \in Jobs, Send(h, s, p, next),
           next.pc \notin {"join", "leave"},
           next.session \in {handler[h].session, NoSession},
           next.pc # "idle" => /\ handler[h].pc # "idle"
                               /\ next.session = handler[h].session,
           next.pc \in PacketSteps => next.session \in Sessions,
           next.pc \notin {"idle", "deliver"} => next.room \in Rooms
    PROVE  TypeInv' /\ Continues(h) /\ UNCHANGED registry
<1>1. TypeOK' /\ Went(h, next) /\ UNCHANGED registry
  BY SendTyped DEF TypeInv
<1>2. Idle.pc = "idle" /\ Idle.session = NoSession
  BY DEF Idle
<1>3. Continues(h)
  BY <1>1, <1>2 DEF Went, Continues
<1>4. WorkInv'
  BY <1>1, <1>2 DEF Went, WorkInv, TypeInv, PacketSteps
<1> QED
  BY <1>1, <1>3, <1>4 DEF TypeInv

\* A goroutine that has nothing to do.
LEMMA IdleJob == Idle \in Jobs /\ Idle.pc = "idle" /\ Idle.session = NoSession /\ Idle.write = NoWrite
BY HubAssumption DEF Idle, Jobs, Steps, NoWrite, Packet, AllPackets

\* emitToSession is such a sending.
LEMMA EmitContinues ==
    ASSUME TypeInv, NEW h \in Handlers, EmitToSession(h)
    PROVE  TypeInv' /\ Continues(h) /\ UNCHANGED registry
<1> DEFINE s == handler[h].session
           r == handler[h].room
<1>1. handler[h] \in Jobs
  BY DEF TypeInv, TypeOK
<1>2. handler[h].pc \in {"joined", "greet", "left", "test", "invalid"}
  BY DEF EmitToSession, At
<1>3. s \in Sessions /\ r \in Rooms
  BY <1>2 DEF TypeInv, WorkInv, PacketSteps
<1>4. \A kind \in {"joined", "notice", "left"} : Packet(kind, r) \in AllPackets
  BY <1>3 DEF Packet, AllPackets
<1>5. \A step \in {"greet", "announce", "message"} :
         /\ Goto(h, step) \in Jobs
         /\ Goto(h, step).pc = step
         /\ Goto(h, step).session = s
         /\ Goto(h, step).room = r
  BY <1>1 DEF Goto, Jobs, Steps
<1>6. CASE Send(h, s, Packet("joined", r), Goto(h, "greet"))
  BY <1>2, <1>3, <1>4, <1>5, <1>6, SendContinues
<1>7. CASE Send(h, s, Packet("notice", r), Goto(h, "announce"))
  BY <1>2, <1>3, <1>4, <1>5, <1>7, SendContinues DEF PacketSteps
<1>8. CASE Send(h, s, Packet("left", r), Idle)
  BY <1>3, <1>4, <1>8, SendContinues, IdleJob DEF PacketSteps
<1>9. CASE Send(h, s, Packet("notice", r), Goto(h, "message"))
  BY <1>2, <1>3, <1>4, <1>5, <1>9, SendContinues DEF PacketSteps
<1>10. CASE Send(h, s, Packet("notice", r), Idle)
  BY <1>3, <1>4, <1>10, SendContinues, IdleJob DEF PacketSteps
<1> QED
  BY <1>6, <1>7, <1>8, <1>9, <1>10 DEF EmitToSession

\* So is the acknowledgement of an Engine.IO packet.
LEMMA AcknowledgeContinues ==
    ASSUME TypeInv, NEW h \in Handlers, Acknowledge(h)
    PROVE  TypeInv' /\ Continues(h) /\ UNCHANGED registry
<1> DEFINE s == handler[h].session
           p == Packet("notice", handler[h].room)
<1>1. s \in Sessions /\ handler[h].room \in Rooms
  BY DEF TypeInv, WorkInv, PacketSteps, Acknowledge, At
<1>2. p \in AllPackets
  BY <1>1 DEF Packet, AllPackets
<1> HIDE DEF p
<1>3. TypeOK
  BY DEF TypeInv
<1>4. /\ handler' \in [Handlers -> Jobs]
      /\ conn' \in [Conns -> Conn]
      /\ Went(h, Idle)
  <2>1. CASE h \in Conns
    <3>1. BeginWrite(h, h, s, p, Idle)
      BY <2>1 DEF Acknowledge, p
    <3> QED
      BY <1>1, <1>2, <1>3, <2>1, <3>1, BeginWriteTyped, IdleJob
  <2>2. CASE h \notin Conns
    BY <1>3, <2>2, IdleJob DEF Acknowledge, Went, TypeOK, Conn
  <2> QED
    BY <2>1, <2>2
<1>5. /\ queue' \in [Sessions -> Seq(AllPackets)]
      /\ \A t \in Sessions : Len(queue'[t]) <= QueueCap
  <2>1. CASE h \in Conns
    BY <1>3, <2>1 DEF Acknowledge, TypeOK
  <2>2. CASE h \notin Conns
    <3>1. Enqueue(s, p)
      BY <2>2 DEF Acknowledge, p
    <3> QED
      BY <1>1, <1>2, <1>3, <3>1, EnqueueTyped
  <2> QED
    BY <2>1, <2>2
<1>6. UNCHANGED <<registry, wsOf, poll, log>>
  BY DEF Acknowledge
<1>7. TypeOK'
  BY <1>3, <1>4, <1>5, <1>6 DEF TypeOK, Conn, registry
<1>8. Continues(h) /\ WorkInv'
  BY <1>4, IdleJob DEF Went, Continues, WorkInv, TypeInv, PacketSteps
<1> QED
  BY <1>6, <1>7, <1>8 DEF TypeInv

\* So are the steps of a broadcast.
LEMMA BroadcastContinues ==
    ASSUME TypeInv, NEW h \in Handlers, StartBroadcast(h) \/ DeliverOne(h) \/ EndBroadcast(h)
    PROVE  TypeInv' /\ Continues(h) /\ UNCHANGED registry
<1>1. handler[h] \in Jobs
  BY DEF TypeInv, TypeOK
<1>2. CASE StartBroadcast(h)
  <2> DEFINE audience == members[handler[h].room]
  <2>1. handler[h].room \in Rooms
    BY <1>2 DEF StartBroadcast, At, TypeInv, WorkInv
  <2>2. audience \subseteq Sessions
    BY <2>1 DEF TypeInv, TypeOK
  <2>3. Author(h) \in Callers \cup Sessions \cup {NoSession}
    BY <1>1 DEF Author, Jobs
  <2> DEFINE Entries == [author : Callers \cup Sessions \cup {NoSession},
                         audience : SUBSET Sessions]
             entry == [author |-> Author(h), audience |-> audience]
  <2>4. entry \in Entries
    BY <2>2, <2>3
  <2>5. log \in Seq(Entries)
    BY DEF TypeInv, TypeOK
  <2>6. log' = log \/ log' = Append(log, entry)
    BY <1>2 DEF StartBroadcast
  <2> HIDE DEF Entries, entry
  <2>7. log' \in Seq(Entries)
    BY <2>4, <2>5, <2>6
  <2>8. Len(log) + 1 \in Nat
    BY DEF TypeInv, TypeOK
  <2>9. ASSUME NEW n \in Nat
        PROVE  [handler[h] EXCEPT !.pc = "deliver", !.targets = audience, !.msg = n] \in Jobs
    BY <1>1, <2>2 DEF Jobs, Steps
  <2>10. PICK n \in Nat : handler' = [handler EXCEPT ![h] =
           [handler[h] EXCEPT !.pc = "deliver", !.targets = audience, !.msg = n]]
    BY <1>2, <2>8 DEF StartBroadcast
  <2>11. handler \in [Handlers -> Jobs]
    BY DEF TypeInv, TypeOK
  <2> HIDE DEF audience
  <2>12. handler' \in [Handlers -> Jobs]
    BY <2>9, <2>10, <2>11
  <2> USE DEF audience
  <2>13. Continues(h) /\ WorkInv'
    <3>1. handler[h].pc \in {"announce", "message"}
      BY <1>2 DEF StartBroadcast, At
    <3>2. \A g \in Handlers \ {h} : handler'[g] = handler[g]
      BY <2>10, <2>11
    <3>3. handler'[h].pc = "deliver" /\ handler'[h].session = handler[h].session
      BY <2>10, <2>11 DEF Jobs
    <3>4. conn' = conn
      BY <1>2 DEF StartBroadcast
    <3> QED
      BY <3>1, <3>2, <3>3, <3>4 DEF Continues, TypeInv, WorkInv, PacketSteps
  <2>14. UNCHANGED <<registry, queue, wsOf, conn, poll>>
    BY <1>2 DEF StartBroadcast
  <2> QED
    BY <2>7, <2>12, <2>13, <2>14 DEF TypeInv, TypeOK, registry, Entries
<1>3. CASE DeliverOne(h)
  <2> DEFINE p == IF handler[h].msg = 0 THEN Packet("notice", handler[h].room)
                                        ELSE Packet("message", handler[h].msg)
  <2>1. p \in AllPackets
    BY <1>1 DEF Jobs, Packet, AllPackets
  <2> HIDE DEF p
  <2>2. PICK s \in handler[h].targets :
           Send(h, s, p, [handler[h] EXCEPT !.targets = @ \ {s}])
    BY <1>3 DEF DeliverOne, p
  <2> DEFINE next == [handler[h] EXCEPT !.targets = @ \ {s}]
  <2>3. /\ s \in Sessions
        /\ next \in Jobs
        /\ next.pc = "deliver"
        /\ next.session = handler[h].session
        /\ handler[h].pc = "deliver"
    BY <1>1, <1>3 DEF DeliverOne, At, Jobs
  <2>4. Send(h, s, p, next)
    BY <2>2
  <2> HIDE DEF next
  <2> QED
    BY <2>1, <2>3, <2>4, SendContinues DEF PacketSteps
<1>4. CASE EndBroadcast(h)
  BY <1>4, IdleJob DEF EndBroadcast, Continues, TypeInv, TypeOK, WorkInv, PacketSteps, registry
<1> QED
  BY <1>2, <1>3, <1>4

\* So is the end of a write to a websocket.
LEMMA EndWriteContinues ==
    ASSUME TypeInv, NEW h \in Handlers, EndWrite(h)
    PROVE  TypeInv' /\ Continues(h) /\ UNCHANGED registry
<1> DEFINE w == handler[h].write
<1>1. UNCHANGED <<registry, queue, wsOf, poll, log>>
  BY DEF EndWrite
<1>2. CASE handler' = [handler EXCEPT ![h].write = NoWrite] /\ UNCHANGED conn
  <2>1. NoWrite \in [conn : Conns \cup {NoConn}, to : Sessions \cup {NoSession},
                     packet : AllPackets, clash : BOOLEAN]
    BY DEF NoWrite, Packet, AllPackets
  <2> HIDE DEF w
  <2>2. handler \in [Handlers -> Jobs]
    BY DEF TypeInv, TypeOK
  <2>3. [handler[h] EXCEPT !.write = NoWrite] \in Jobs
    BY <2>1, <2>2 DEF Jobs
  <2>4. handler' \in [Handlers -> Jobs]
    BY <1>2, <2>2, <2>3
  <2>5. Continues(h) /\ WorkInv'
    BY <1>2 DEF Continues, TypeInv, TypeOK, WorkInv, Jobs
  <2> QED
    BY <1>1, <1>2, <2>4, <2>5 DEF TypeInv, TypeOK, registry
<1>3. CASE Panic(h, w.to, w.packet, handler[h].msg)
  BY <1>1, <1>3, IdleJob
     DEF Panic, Continues, TypeInv, TypeOK, WorkInv, PacketSteps, registry
<1> QED
  BY <1>2, <1>3 DEF EndWrite

\* Whatever a goroutine at work does besides joining and leaving.
Others(h) ==
    \/ EmitToSession(h) \/ Acknowledge(h) \/ StartBroadcast(h)
    \/ DeliverOne(h) \/ EndBroadcast(h) \/ EndWrite(h)

\* All of it together.
LEMMA OthersContinue ==
    ASSUME TypeInv, NEW h \in Handlers, Others(h)
    PROVE  TypeInv' /\ Continues(h) /\ UNCHANGED registry
BY EmitContinues, AcknowledgeContinues, BroadcastContinues, EndWriteContinues DEF Others

\* Joining and leaving keep the types.
LEMMA JoinLeaveTyped ==
    ASSUME TypeInv, NEW h \in Handlers, JoinRoom(h) \/ LeaveRoom(h)
    PROVE  TypeInv'
<1>1. handler[h] \in Jobs /\ handler[h].session \in Sessions /\ handler[h].room \in Rooms
  BY DEF TypeInv, TypeOK, WorkInv, PacketSteps, JoinRoom, LeaveRoom, At
<1>2. \A step \in {"joined", "left"} : [handler[h] EXCEPT !.pc = step] \in Jobs
  BY <1>1 DEF Jobs, Steps
<1>3. handler' \in [Handlers -> Jobs]
  BY <1>2 DEF TypeInv, TypeOK, JoinRoom, LeaveRoom
<1>4. roomsOf' \in [Sessions -> SUBSET Rooms] /\ members' \in [Rooms -> SUBSET Sessions]
  <2>1. CASE JoinRoom(h)
    BY <1>1, <2>1 DEF TypeInv, TypeOK, JoinRoom
  <2>2. CASE LeaveRoom(h)
    BY <1>1, <2>2 DEF TypeInv, TypeOK, LeaveRoom
  <2> QED
    BY <2>1, <2>2
<1>5. WorkInv'
  <2>1. PICK step \in {"joined", "left"} : handler' = [handler EXCEPT ![h].pc = step]
    BY DEF JoinRoom, LeaveRoom
  <2>2. handler \in [Handlers -> Jobs] /\ WorkInv
    BY DEF TypeInv, TypeOK
  <2> QED
    BY <1>1, <2>1, <2>2 DEF WorkInv, Jobs
<1>6. UNCHANGED <<state, queue, wsOf, conn, poll, log>>
  BY DEF JoinRoom, LeaveRoom
<1> QED
  BY <1>3, <1>4, <1>5, <1>6 DEF TypeInv, TypeOK

\* So do the packets that come in and the messages to broadcast.
LEMMA ReceiveTyped ==
    ASSUME TypeInv, NEW h \in Handlers, NEW r \in Rooms,
           \/ \E s \in Sessions, k \in Packets : Receive(h, s, k, r)
           \/ BroadcastMessage(h, r)
    PROVE  TypeInv'
<1>1. handler \in [Handlers -> Jobs] /\ WorkInv
  BY DEF TypeInv, TypeOK
<1>2. handler' \in [Handlers -> Jobs] /\ WorkInv'
  <2>1. ASSUME NEW s \in Sessions, NEW k \in Packets, Receive(h, s, k, r)
        PROVE  handler' \in [Handlers -> Jobs] /\ WorkInv'
    <3>1. k \in Steps /\ k # "deliver"
      BY HubAssumption DEF Steps
    <3>2. [handler[h] EXCEPT !.pc = k, !.session = s, !.room = r] \in Jobs
      BY <1>1, <3>1 DEF Jobs
    <3>3. handler' = [handler EXCEPT ![h] =
                        [handler[h] EXCEPT !.pc = k, !.session = s, !.room = r]]
      BY <2>1 DEF Receive
    <3>4. handler' \in [Handlers -> Jobs]
      BY <1>1, <3>2, <3>3
    <3>5. WorkInv'
      BY <1>1, <3>3 DEF WorkInv, Jobs
    <3> QED
      BY <3>4, <3>5
  <2>2. CASE BroadcastMessage(h, r)
    <3>1. [handler[h] EXCEPT !.pc = "message", !.room = r] \in Jobs
      BY <1>1 DEF Jobs, Steps
    <3>2. handler' = [handler EXCEPT ![h] =
                        [handler[h] EXCEPT !.pc = "message", !.room = r]]
      BY <2>2 DEF BroadcastMessage
    <3>3. handler' \in [Handlers -> Jobs]
      BY <1>1, <3>1, <3>2
    <3>4. WorkInv'
      BY <1>1, <3>2 DEF WorkInv, PacketSteps, Jobs
    <3> QED
      BY <3>3, <3>4
  <2> QED
    BY <2>1, <2>2
<1>3. UNCHANGED <<registry, queue, wsOf, conn, poll, log>>
  BY DEF Receive, BroadcastMessage
<1> QED
  BY <1>2, <1>3 DEF TypeInv, TypeOK, registry

\* So do polling clients.
LEMMA PollingTyped ==
    ASSUME TypeInv, NEW s \in Sessions, Polling(s) \/ AbortPoll(s)
    PROVE  TypeInv' /\ UNCHANGED <<registry, handler, conn>>
<1>1. UNCHANGED <<registry, wsOf, conn, handler, log>>
  BY DEF Polling, Poll, DrainOne, Respond, RespondToNobody, AbortPoll
<1>2. /\ NoPoll \in [on : BOOLEAN, aborted : BOOLEAN, batch : Seq(AllPackets)]
      /\ Len(NoPoll.batch) = 0
  BY DEF NoPoll
<1>3. BatchMax \in Nat /\ QueueCap \in Nat
  BY HubAssumption
<1>4. poll[s].batch \in Seq(AllPackets) /\ queue[s] \in Seq(AllPackets)
  BY DEF TypeInv, TypeOK
<1>5. CASE DrainOne(s)
  <2>1. /\ Head(queue[s]) \in AllPackets
        /\ Tail(queue[s]) \in Seq(AllPackets)
        /\ Len(Tail(queue[s])) <= Len(queue[s])
    BY <1>4, <1>5 DEF DrainOne
  <2>2. /\ Append(poll[s].batch, Head(queue[s])) \in Seq(AllPackets)
        /\ Len(Append(poll[s].batch, Head(queue[s]))) <= BatchMax
    BY <1>3, <1>4, <1>5, <2>1 DEF DrainOne
  <2>3. /\ queue' \in [Sessions -> Seq(AllPackets)]
        /\ \A t \in Sessions : Len(queue'[t]) <= QueueCap
    BY <1>3, <1>4, <1>5, <2>1 DEF DrainOne, TypeInv, TypeOK
  <2>4. /\ poll' \in [Sessions -> [on : BOOLEAN, aborted : BOOLEAN, batch : Seq(AllPackets)]]
        /\ \A t \in Sessions : Len(poll'[t].batch) <= BatchMax
    BY <1>5, <2>2 DEF DrainOne, TypeInv, TypeOK
  <2> QED
    BY <1>1, <2>3, <2>4 DEF TypeInv, TypeOK, WorkInv, registry
<1>6. CASE Poll(s) \/ Respond(s) \/ AbortPoll(s) \/ RespondToNobody(s)
  <2>1. /\ poll' \in [Sessions -> [on : BOOLEAN, aborted : BOOLEAN, batch : Seq(AllPackets)]]
        /\ \A t \in Sessions : Len(poll'[t].batch) <= BatchMax
    <3>1. /\ poll \in [Sessions -> [on : BOOLEAN, aborted : BOOLEAN, batch : Seq(AllPackets)]]
          /\ \A t \in Sessions : Len(poll[t].batch) <= BatchMax
      BY DEF TypeInv, TypeOK
    <3>2. CASE poll' = [poll EXCEPT ![s] = NoPoll]
      BY <1>2, <1>3, <3>1, <3>2
    <3>3. CASE poll' = [poll EXCEPT ![s].on = TRUE]
      BY <3>1, <3>3
    <3>4. CASE poll' = [poll EXCEPT ![s].aborted = TRUE]
      BY <3>1, <3>4
    <3> QED
      BY <1>6, <3>2, <3>3, <3>4 DEF Poll, Respond, AbortPoll, RespondToNobody
  <2>2. queue' = queue
    BY <1>6 DEF Poll, Respond, AbortPoll, RespondToNobody
  <2> QED
    BY <1>1, <2>1, <2>2 DEF TypeInv, TypeOK, WorkInv, registry
<1> QED
  BY <1>1, <1>5, <1>6 DEF Polling

\* So do sessions and websockets that come and go.
LEMMA SessionTyped ==
    ASSUME TypeInv, NEW c \in Conns,
           (\E s \in Sessions : FindSession(c, s)) \/ OpenSocket(c) \/ RemoveSession(c)
    PROVE  TypeInv'
<1>1. conn \in [Conns -> Conn] /\ handler \in [Handlers -> Jobs] /\ c \in Handlers
  BY DEF TypeInv, TypeOK, Conn, Handlers
<1>2. ASSUME NEW s \in Sessions, FindSession(c, s)
      PROVE  TypeInv'
  BY <1>2 DEF FindSession, TypeInv, TypeOK, WorkInv
<1>3. CASE OpenSocket(c)
  <2> DEFINE write == [NoWrite EXCEPT !.conn = c, !.to = conn[c].session]
  <2>1. write \in [conn : Conns \cup {NoConn}, to : Sessions \cup {NoSession},
                  packet : AllPackets, clash : BOOLEAN]
    BY <1>1 DEF NoWrite, Packet, AllPackets, Conn
  <2> HIDE DEF write
  <2>2. [handler[c] EXCEPT !.write = write] \in Jobs
    BY <1>1, <2>1 DEF Jobs
  <2>3. handler' = [handler EXCEPT ![c] = [handler[c] EXCEPT !.write = write]]
    BY <1>3 DEF OpenSocket, write
  <2>4. handler' \in [Handlers -> Jobs]
    BY <1>1, <2>2, <2>3
  <2>5. WorkInv'
    BY <1>1, <2>3 DEF TypeInv, WorkInv, Jobs
  <2>6. conn' \in [Conns -> Conn] /\ wsOf' \in [Sessions -> Conns \cup {NoConn}]
    BY <1>1, <1>3 DEF OpenSocket, TypeInv, TypeOK, Conn
  <2>7. UNCHANGED <<registry, queue, poll, log>>
    BY <1>3 DEF OpenSocket
  <2> QED
    BY <2>4, <2>5, <2>6, <2>7 DEF TypeInv, TypeOK, Conn, registry
<1>4. CASE RemoveSession(c)
  <2>1. members' \in [Rooms -> SUBSET Sessions]
    <3>1. members \in [Rooms -> SUBSET Sessions]
      BY DEF TypeInv, TypeOK
    <3>2. \/ members' = members
          \/ members' = [r \in Rooms |-> IF r \in roomsOf[conn[c].session]
                                        THEN members[r] \ {conn[c].session}
                                        ELSE members[r]]
      BY <1>4 DEF RemoveSession
    <3> QED
      BY <3>1, <3>2
  <2>2. state' \in [Sessions -> {"new", "live", "gone"}] /\ conn' \in [Conns -> Conn]
    BY <1>1, <1>4 DEF RemoveSession, TypeInv, TypeOK, Conn
  <2> QED
    BY <1>4, <2>1, <2>2 DEF RemoveSession, TypeInv, TypeOK, WorkInv, Conn
<1> QED
  BY <1>2, <1>3, <1>4

\* The types are inductive.
LEMMA StepTyped == TypeInv /\ [Next]_vars => TypeInv'
<1> SUFFICES ASSUME TypeInv, [Next]_vars
             PROVE  TypeInv'
  OBVIOUS
<1>1. ASSUME NEW s \in Sessions, NewSession(s)
      PROVE  TypeInv'
  BY <1>1 DEF NewSession, TypeInv, TypeOK, WorkInv
<1>2. ASSUME NEW h \in Handlers, Work(h)
      PROVE  TypeInv'
  BY <1>2, OthersContinue, JoinLeaveTyped DEF Work, Others
<1>3. CASE UNCHANGED vars
  BY <1>3 DEF vars, registry, client, TypeInv, TypeOK, WorkInv
<1>4. ASSUME NEW h \in Handlers, NEW r \in Rooms, BroadcastMessage(h, r)
      PROVE  TypeInv'
  BY <1>4, ReceiveTyped
<1> QED
  BY <1>1, <1>2, <1>3, <1>4, PollingTyped, SessionTyped, ReceiveTyped DEF Next

\* The registry, the queues, the goroutines and the polls keep their shape,
\* and no queue or batch exceeds its limit, whatever the clients send.
THEOREM Typing == Spec => []TypeOK
<1>1. TypeInv => TypeOK
  BY DEF TypeInv
<1> QED
  BY <1>1, InitTypeInv, StepTyped, PTL DEF Spec

-----------------------------------------------------------------------------
(* Who is where.                                                           *)

\* The part of the types that says what the registry is.
RegistryTyped ==
    /\ state \in [Sessions -> {"new", "live", "gone"}]
    /\ roomsOf \in [Sessions -> SUBSET Rooms]
    /\ members \in [Rooms -> SUBSET Sessions]
    /\ conn \in [Conns -> Conn]
    /\ handler \in [Handlers -> Jobs]

\* A session that does not exist yet is in no room and nobody uses it.
FreshInv ==
    /\ \A s \in Sessions : state[s] = "new" =>
          roomsOf[s] = {} /\ \A r \in Rooms : s \notin members[r]
    /\ \A h \in Handlers : handler[h].session \in Sessions => state[handler[h].session] # "new"
    /\ \A c \in Conns : conn[c].pc # "none" => /\ conn[c].session \in Sessions
                                               /\ state[conn[c].session] # "new"

\* A reader is at work on an open websocket only.
ReaderInv == \A c \in Conns : ~At(c, "idle") => conn[c].pc = "open"

AgreeInv == ListsAgree /\ FreshInv /\ ReaderInv

\* At the start there are neither sessions nor websockets.
LEMMA InitAgrees == Init => AgreeInv
BY HubAssumption DEF Init, AgreeInv, ListsAgree, FreshInv, ReaderInv, Idle, At, Handlers

\* Work that leaves the registry alone keeps everybody at known sessions.
LEMMA ContinuingAgrees ==
    ASSUME TypeInv, AgreeInv, NEW h \in Handlers, Others(h)
    PROVE  AgreeInv'
<1>1. conn \in [Conns -> Conn] /\ NoSession \notin Sessions
  BY HubAssumption DEF TypeInv, TypeOK, Conn
<1>2. Continues(h) /\ UNCHANGED registry
  BY OthersContinue
<1>3. ~At(h, "idle")
  BY DEF Others, At, EmitToSession, Acknowledge, StartBroadcast, DeliverOne,
         EndBroadcast, EndWrite
<1>4. \A g \in Handlers : handler'[g].session \in {handler[g].session, NoSession}
  BY <1>2, IdleJob DEF Continues
<1>5. \A c \in Conns : conn'[c].pc # "none" =>
         conn[c].pc # "none" /\ conn'[c].session = conn[c].session
  BY <1>1, <1>2, <1>3 DEF Continues, Conn, AgreeInv, ReaderInv
<1>6. ReaderInv'
  <2>1. \A c \in Conns \ {h} : At(c, "idle")' <=> At(c, "idle")
    BY <1>2 DEF Continues, At, Handlers
  <2>2. \A c \in Conns \ {h} : conn'[c] = conn[c]
    BY <1>1, <1>2 DEF Continues
  <2>3. h \in Conns => At(h, "idle")' \/ conn'[h].pc = "open"
    BY <1>2, <1>3, IdleJob DEF Continues, AgreeInv, ReaderInv, At
  <2> QED
    BY <2>1, <2>2, <2>3 DEF AgreeInv, ReaderInv
<1> QED
  BY <1>1, <1>2, <1>4, <1>5, <1>6 DEF AgreeInv, ListsAgree, FreshInv, registry

\* joinRoom and leaveRoom change both sides together.
LEMMA JoinLeaveAgrees ==
    ASSUME TypeInv, AgreeInv, NEW h \in Handlers, JoinRoom(h) \/ LeaveRoom(h)
    PROVE  AgreeInv'
<1> DEFINE s == handler[h].session
           r == handler[h].room
<1>1. s \in Sessions /\ r \in Rooms /\ state[s] # "new"
  BY DEF TypeInv, WorkInv, PacketSteps, JoinRoom, LeaveRoom, At, AgreeInv, FreshInv
<1>2. /\ roomsOf \in [Sessions -> SUBSET Rooms] /\ members \in [Rooms -> SUBSET Sessions]
      /\ handler \in [Handlers -> Jobs]
  BY DEF TypeInv, TypeOK
<1>types. RegistryTyped /\ RegistryTyped'
  BY JoinLeaveTyped DEF RegistryTyped, TypeInv, TypeOK, Conn
<1>3. \A g \in Handlers : handler'[g].session = handler[g].session
  <2>1. PICK step \in {"joined", "left"} : handler' = [handler EXCEPT ![h].pc = step]
    BY DEF JoinRoom, LeaveRoom
  <2> QED
    BY <1>2, <2>1 DEF Jobs
<1>4. UNCHANGED <<state, conn>>
  BY DEF JoinRoom, LeaveRoom
<1>5. /\ \A t \in Sessions : t # s => roomsOf'[t] = roomsOf[t]
      /\ \A q \in Rooms, t \in Sessions : t # s => (t \in members'[q] <=> t \in members[q])
      /\ \A q \in Rooms : q # r => /\ s \in members'[q] <=> s \in members[q]
                                   /\ q \in roomsOf'[s] <=> q \in roomsOf[s]
      /\ s \in members'[r] <=> r \in roomsOf'[s]
  <2>1. CASE JoinRoom(h)
    BY <1>1, <1>2, <2>1 DEF JoinRoom
  <2>2. CASE LeaveRoom(h)
    BY <1>1, <1>2, <2>2 DEF LeaveRoom
  <2> QED
    BY <2>1, <2>2
<1>6. ~At(h, "idle")
  BY DEF JoinRoom, LeaveRoom, At
<1> HIDE DEF s, r
<1>7. ListsAgree'
  <2> SUFFICES ASSUME NEW t \in Sessions, NEW q \in Rooms, state'[t] = "live"
               PROVE  t \in members'[q] <=> q \in roomsOf'[t]
    BY DEF ListsAgree
  <2>1. t \in members[q] <=> q \in roomsOf[t]
    BY <1>4 DEF AgreeInv, ListsAgree
  <2>2. CASE t = s
    BY <1>5, <1>types, <2>1, <2>2 DEF RegistryTyped
  <2>3. CASE t # s
    BY <1>5, <1>types, <2>1, <2>3 DEF RegistryTyped
  <2> QED
    BY <2>2, <2>3
<1>8. FreshInv'
  <2>1. \A t \in Sessions : state'[t] = "new" =>
           roomsOf'[t] = {} /\ \A q \in Rooms : t \notin members'[q]
    BY <1>1, <1>4, <1>5 DEF AgreeInv, FreshInv
  <2> QED
    BY <1>3, <1>4, <2>1 DEF AgreeInv, FreshInv
<1>9. ReaderInv'
  <2>1. \A g \in Handlers : At(g, "idle") => At(g, "idle")'
    BY <1>2, <1>6 DEF JoinRoom, LeaveRoom, At
  <2> QED
    BY <1>4, <2>1 DEF AgreeInv, ReaderInv, Handlers
<1> QED
  BY <1>7, <1>8, <1>9 DEF AgreeInv

\* So does removeSession.
LEMMA RemoveAgrees ==
    ASSUME TypeInv, AgreeInv, NEW c \in Conns, RemoveSession(c)
    PROVE  AgreeInv'
<1> DEFINE s == conn[c].session
<1>1. /\ state \in [Sessions -> {"new", "live", "gone"}]
      /\ roomsOf \in [Sessions -> SUBSET Rooms]
      /\ members \in [Rooms -> SUBSET Sessions]
      /\ conn \in [Conns -> Conn]
  BY DEF TypeInv, TypeOK, Conn
<1>2. s \in Sessions
  BY DEF RemoveSession, AgreeInv, FreshInv
<1>3. \A t \in Sessions : /\ state'[t] = "new" <=> state[t] = "new"
                          /\ state'[t] = "live" => t # s /\ state[t] = "live"
  <2>1. CASE state[s] = "live"
    <3>1. state' = [state EXCEPT ![s] = "gone"]
      BY <2>1 DEF RemoveSession
    <3> QED
      BY <1>1, <1>2, <2>1, <3>1
  <2>2. CASE state[s] # "live"
    <3>1. state' = state
      BY <2>2 DEF RemoveSession
    <3> QED
      BY <2>2, <3>1
  <2> QED
    BY <2>1, <2>2
<1>4. \A t \in Sessions, r \in Rooms : /\ t \in members'[r] => t \in members[r]
                                       /\ t # s => (t \in members'[r] <=> t \in members[r])
  <2>1. CASE members' = members
    BY <2>1
  <2>2. CASE members' = [r \in Rooms |-> IF r \in roomsOf[s] THEN members[r] \ {s}
                                                           ELSE members[r]]
    BY <2>2
  <2> QED
    BY <2>1, <2>2 DEF RemoveSession
<1>5. UNCHANGED <<roomsOf, handler>>
  BY DEF RemoveSession
<1>6. \A d \in Conns : /\ conn'[d].session = conn[d].session
                       /\ conn'[d].pc # "none" => conn[d].pc # "none"
                       /\ d # c => conn'[d] = conn[d]
  BY <1>1 DEF RemoveSession, Conn
<1> HIDE DEF s
<1>types. RegistryTyped /\ RegistryTyped'
  BY SessionTyped DEF RegistryTyped, TypeInv, TypeOK, Conn
<1>7. ListsAgree'
  <2> SUFFICES ASSUME NEW t \in Sessions, NEW q \in Rooms, state'[t] = "live"
               PROVE  t \in members'[q] <=> q \in roomsOf'[t]
    BY DEF ListsAgree
  <2>1. t \in members[q] <=> q \in roomsOf[t]
    BY <1>3 DEF AgreeInv, ListsAgree
  <2>2. t \in members'[q] <=> t \in members[q]
    BY <1>3, <1>4
  <2> QED
    BY <1>5, <2>1, <2>2
<1>8. FreshInv'
  <2>1. \A t \in Sessions : state'[t] = "new" =>
           roomsOf'[t] = {} /\ \A q \in Rooms : t \notin members'[q]
    BY <1>3, <1>4, <1>5, <1>types DEF AgreeInv, FreshInv, RegistryTyped
  <2>2. \A g \in Handlers : handler'[g].session \in Sessions => state'[handler'[g].session] # "new"
    BY <1>3, <1>5 DEF AgreeInv, FreshInv
  <2>3. \A d \in Conns : conn'[d].pc # "none" => /\ conn'[d].session \in Sessions
                                                 /\ state'[conn'[d].session] # "new"
    BY <1>3, <1>6 DEF AgreeInv, FreshInv
  <2> QED
    BY <2>1, <2>2, <2>3 DEF FreshInv
<1>9. ReaderInv'
  BY <1>5, <1>6 DEF AgreeInv, ReaderInv, RemoveSession, At
<1> QED
  BY <1>7, <1>8, <1>9 DEF AgreeInv

\* A new session, of a poll or a websocket, starts with no room.
LEMMA FindAgrees ==
    ASSUME TypeInv, AgreeInv, NEW s \in Sessions,
           NewSession(s) \/ \E c \in Conns : FindSession(c, s)
    PROVE  AgreeInv'
<1>1. /\ state \in [Sessions -> {"new", "live", "gone"}]
      /\ conn \in [Conns -> Conn]
      /\ \A c \in Conns : handler[c] \in Jobs
  BY DEF TypeInv, TypeOK, Conn, Handlers
<1>2. UNCHANGED <<roomsOf, members, handler>>
  BY DEF NewSession, FindSession
<1>3. \A t \in Sessions : /\ state'[t] = "new" => state[t] = "new"
                          /\ state[t] # "new" => state'[t] # "new"
                          /\ t # s => state'[t] = state[t]
  BY <1>1 DEF NewSession, FindSession
<1>4. state[s] = "new" \/ state'[s] = state[s]
  BY <1>1 DEF NewSession, FindSession
<1>5. state'[s] # "new"
  BY <1>1 DEF NewSession, FindSession
<1>6. ListsAgree'
  BY <1>2, <1>3, <1>4 DEF AgreeInv, ListsAgree, FreshInv
<1>7. FreshInv' /\ ReaderInv'
  <2>1. CASE NewSession(s)
    BY <1>2, <1>3, <2>1 DEF NewSession, AgreeInv, FreshInv, ReaderInv, At
  <2>2. ASSUME NEW c \in Conns, FindSession(c, s)
        PROVE  FreshInv' /\ ReaderInv'
    <3>1. /\ conn'[c].session = s
          /\ \A d \in Conns \ {c} : conn'[d] = conn[d]
          /\ At(c, "idle")
      BY <1>1, <2>2 DEF FindSession, AgreeInv, ReaderInv
    <3>2. FreshInv'
      <4>1. \A t \in Sessions : state'[t] = "new" =>
               roomsOf'[t] = {} /\ \A r \in Rooms : t \notin members'[r]
        BY <1>2, <1>3 DEF AgreeInv, FreshInv
      <4>2. \A g \in Handlers : handler'[g].session \in Sessions => state'[handler'[g].session] # "new"
        BY <1>2, <1>3 DEF AgreeInv, FreshInv
      <4>3. \A d \in Conns : conn'[d].pc # "none" => /\ conn'[d].session \in Sessions
                                                     /\ state'[conn'[d].session] # "new"
        BY <1>3, <1>5, <3>1 DEF AgreeInv, FreshInv
      <4> QED
        BY <4>1, <4>2, <4>3 DEF FreshInv
    <3>3. ReaderInv'
      BY <1>2, <3>1 DEF AgreeInv, ReaderInv, At
    <3> QED
      BY <3>2, <3>3
  <2> QED
    BY <2>1, <2>2
<1> QED
  BY <1>6, <1>7 DEF AgreeInv

\* Opening a websocket and reading a packet find a session that exists.
LEMMA ArrivalAgrees ==
    ASSUME TypeInv, AgreeInv,
           \/ \E c \in Conns : OpenSocket(c)
           \/ \E h \in Handlers, s \in Sessions, k \in Packets, r \in Rooms : Receive(h, s, k, r)
           \/ \E h \in Handlers, r \in Rooms : BroadcastMessage(h, r)
    PROVE  AgreeInv'
<1>1. /\ conn \in [Conns -> Conn]
      /\ handler \in [Handlers -> Jobs]
      /\ \A c \in Conns : c \in Handlers /\ c \notin Posters /\ c \notin Callers
  BY HubAssumption DEF TypeInv, TypeOK, Conn, Handlers
<1>2. UNCHANGED registry
  BY DEF OpenSocket, Receive, BroadcastMessage
<1>3. ASSUME NEW c \in Conns, OpenSocket(c)
      PROVE  AgreeInv'
  <2>1. /\ conn'[c].pc = "open" /\ conn[c].pc # "none"
        /\ \A d \in Conns : conn'[d].session = conn[d].session
        /\ \A d \in Conns \ {c} : conn'[d] = conn[d]
    BY <1>1, <1>3 DEF OpenSocket, Conn
  <2>2. \A g \in Handlers : /\ handler'[g].session = handler[g].session
                            /\ g # c => handler'[g] = handler[g]
    BY <1>1, <1>3 DEF OpenSocket, Jobs
  <2>3. ListsAgree'
    BY <1>2 DEF AgreeInv, ListsAgree, registry
  <2>4. FreshInv'
    <3>1. \A t \in Sessions : state'[t] = "new" =>
             roomsOf'[t] = {} /\ \A r \in Rooms : t \notin members'[r]
      BY <1>2 DEF AgreeInv, FreshInv, registry
    <3>2. \A g \in Handlers : handler'[g].session \in Sessions => state'[handler'[g].session] # "new"
      BY <1>2, <2>2 DEF AgreeInv, FreshInv, registry
    <3>3. \A d \in Conns : conn'[d].pc # "none" => /\ conn'[d].session \in Sessions
                                                   /\ state'[conn'[d].session] # "new"
      BY <1>2, <2>1 DEF AgreeInv, FreshInv, registry
    <3> QED
      BY <3>1, <3>2, <3>3 DEF FreshInv
  <2>5. ReaderInv'
    <3>1. \A d \in Conns \ {c} : At(d, "idle")' <=> At(d, "idle")
      BY <1>1, <2>2 DEF At
    <3> QED
      BY <2>1, <3>1 DEF AgreeInv, ReaderInv
  <2> QED
    BY <2>3, <2>4, <2>5 DEF AgreeInv
<1>4. ASSUME NEW h \in Handlers, NEW s \in Sessions, NEW k \in Packets, NEW r \in Rooms,
             Receive(h, s, k, r)
      PROVE  AgreeInv'
  <2>1. state[s] # "new" /\ (h \in Conns => conn[h].pc = "open")
    <3>1. CASE h \in Posters /\ Polled(s)
      BY <1>1, <3>1 DEF Polled
    <3>2. CASE h \in Conns /\ conn[h] = [pc |-> "open", session |-> s]
      <4>1. conn[h].pc = "open" /\ conn[h].session = s
        BY <3>2
      <4> QED
        BY <3>2, <4>1 DEF AgreeInv, FreshInv
    <3> QED
      BY <1>4, <3>1, <3>2 DEF Receive, Reads
  <2>2. conn' = conn
    BY <1>4 DEF Receive
  <2>3. /\ handler'[h].session = s
        /\ \A g \in Handlers \ {h} : handler'[g] = handler[g]
    BY <1>1, <1>4 DEF Receive, Jobs
  <2> QED
    BY <1>1, <1>2, <2>1, <2>2, <2>3 DEF AgreeInv, ListsAgree, FreshInv, ReaderInv, At, registry
<1>5. ASSUME NEW h \in Handlers, NEW r \in Rooms, BroadcastMessage(h, r)
      PROVE  AgreeInv'
  <2>1. h \in Callers /\ conn' = conn
    BY <1>5 DEF BroadcastMessage
  <2>2. /\ handler'[h].session = handler[h].session
        /\ \A g \in Handlers \ {h} : handler'[g] = handler[g]
    BY <1>1, <1>5 DEF BroadcastMessage, Jobs
  <2> QED
    BY <1>1, <1>2, <2>1, <2>2 DEF AgreeInv, ListsAgree, FreshInv, ReaderInv, At, registry
<1> QED
  BY <1>3, <1>4, <1>5

\* Every step keeps the agreement.
LEMMA AgreementStep == TypeInv /\ AgreeInv /\ [Next]_vars => AgreeInv'
<1> SUFFICES ASSUME TypeInv, AgreeInv, [Next]_vars
             PROVE  AgreeInv'
  OBVIOUS
<1>1. ASSUME NEW s \in Sessions, Polling(s) \/ AbortPoll(s)
      PROVE  AgreeInv'
  <2>1. UNCHANGED <<registry, handler, conn>>
    BY <1>1, PollingTyped
  <2> QED
    BY <2>1 DEF AgreeInv, ListsAgree, FreshInv, ReaderInv, At, registry
<1>2. ASSUME NEW h \in Handlers, Work(h)
      PROVE  AgreeInv'
  BY <1>2, ContinuingAgrees, JoinLeaveAgrees DEF Work, Others
<1>3. CASE UNCHANGED vars
  BY <1>3 DEF vars, registry, AgreeInv, ListsAgree, FreshInv, ReaderInv, At
<1> QED
  BY <1>1, <1>2, <1>3, FindAgrees, RemoveAgrees, ArrivalAgrees DEF Next

-----------------------------------------------------------------------------
(* Who is left behind.                                                     *)

\* Nobody can bring back to a room a session that was not in use when it was
\* removed.
LeftInv ==
    \A s \in Sessions : state[s] = "gone" /\ s \notin late =>
        /\ \A r \in Rooms : s \notin members[r]
        /\ \A h \in Handlers : handler[h].pc = "join" => handler[h].session # s
        /\ \A c \in Conns : conn[c].pc \in {"found", "open"} => conn[c].session # s

\* At the start no session has been removed.
LEMMA InitLeft == Init => LeftInv
BY DEF Init, LeftInv

\* Where a goroutine goes on with its work, nobody comes to join.
LEMMA ContinuingLeft ==
    ASSUME TypeInv, AgreeInv, LeftInv, NEW h \in Handlers, Others(h)
    PROVE  LeftInv'
<1>1. conn \in [Conns -> Conn] /\ NoSession \notin Sessions
  BY HubAssumption DEF TypeInv, TypeOK, Conn
<1>2. Continues(h) /\ UNCHANGED registry
  BY OthersContinue
<1>3. ~At(h, "idle")
  BY DEF Others, At, EmitToSession, Acknowledge, StartBroadcast, DeliverOne,
         EndBroadcast, EndWrite
<1>4. \A g \in Handlers : handler'[g].pc = "join" =>
         handler[g].pc = "join" /\ handler'[g].session = handler[g].session
  BY <1>2, <1>3, IdleJob DEF Continues, At
<1>5. \A c \in Conns : conn'[c].pc \in {"found", "open"} => conn'[c] = conn[c]
  BY <1>1, <1>2 DEF Continues, Conn
<1>6. UNCHANGED <<state, members, late>>
  BY <1>2 DEF registry
<1> QED
  BY <1>4, <1>5, <1>6 DEF LeftInv

\* Who is at the step of joining still can only join somebody excepted.
LEMMA JoinLeaveLeft ==
    ASSUME TypeInv, AgreeInv, LeftInv, NEW h \in Handlers, JoinRoom(h) \/ LeaveRoom(h)
    PROVE  LeftInv'
<1> DEFINE s == handler[h].session
           r == handler[h].room
<1>1. s \in Sessions /\ r \in Rooms
  BY DEF TypeInv, WorkInv, PacketSteps, JoinRoom, LeaveRoom, At
<1>2. handler \in [Handlers -> Jobs] /\ members \in [Rooms -> SUBSET Sessions]
  BY DEF TypeInv, TypeOK
<1>3. UNCHANGED <<state, late, conn>>
  BY DEF JoinRoom, LeaveRoom
<1>4. \A g \in Handlers : handler'[g].pc = "join" => handler'[g] = handler[g]
  <2>1. PICK step \in {"joined", "left"} : handler' = [handler EXCEPT ![h].pc = step]
    BY DEF JoinRoom, LeaveRoom
  <2> QED
    BY <1>2, <2>1 DEF Jobs
<1>5. \A t \in Sessions, q \in Rooms :
         t \in members'[q] => t \in members[q] \/ (t = s /\ handler[h].pc = "join")
  <2>1. CASE JoinRoom(h)
    <3>1. members' = [members EXCEPT ![r] = @ \cup {s}] /\ handler[h].pc = "join"
      BY <2>1 DEF JoinRoom, At
    <3> HIDE DEF s, r
    <3> QED
      BY <1>1, <1>2, <3>1
  <2>2. CASE LeaveRoom(h)
    <3>1. members' = [members EXCEPT ![r] = @ \ {s}]
      BY <2>2 DEF LeaveRoom
    <3> HIDE DEF s, r
    <3> QED
      BY <1>1, <1>2, <3>1
  <2> QED
    BY <2>1, <2>2
<1> QED
  BY <1>3, <1>4, <1>5 DEF LeftInv

\* removeSession excepts whoever is in use, and takes the others out of all
\* their rooms.
LEMMA RemoveLeft ==
    ASSUME TypeInv, AgreeInv, LeftInv, NEW c \in Conns, RemoveSession(c)
    PROVE  LeftInv'
<1> DEFINE s == conn[c].session
<1>1. /\ state \in [Sessions -> {"new", "live", "gone"}]
      /\ conn \in [Conns -> Conn]
      /\ c \in Handlers
  BY DEF TypeInv, TypeOK, Conn, Handlers
<1>2. s \in Sessions
  BY DEF RemoveSession, AgreeInv, FreshInv
<1>3. handler' = handler /\ handler[c].pc = "idle"
  BY DEF RemoveSession, At
<1>4. \A d \in Conns : conn'[d].pc \in {"found", "open"} => conn'[d] = conn[d] /\ d # c
  BY <1>1 DEF RemoveSession, Conn
<1>5. CASE state[s] = "live"
  <2>1. /\ state' = [state EXCEPT ![s] = "gone"]
        /\ members' = [r \in Rooms |-> IF r \in roomsOf[s] THEN members[r] \ {s} ELSE members[r]]
        /\ late' = IF InUse(c, s) THEN late \cup {s} ELSE late
    BY <1>5 DEF RemoveSession
  <2> HIDE DEF s
  <2>2. \A t \in Sessions, r \in Rooms : t \in members'[r] => t # s /\ t \in members[r]
    BY <1>2, <1>5, <2>1 DEF AgreeInv, ListsAgree
  <2>3. \A t \in Sessions : t # s => state'[t] = state[t] /\ (t \in late' <=> t \in late)
    BY <1>1, <2>1
  <2>4. s \notin late' =>
           /\ \A h \in Handlers : handler[h].pc = "join" => handler[h].session # s
           /\ \A d \in Conns \ {c} : conn[d].pc \in {"found", "open"} => conn[d].session # s
    BY <1>3, <2>1 DEF InUse, Handlers
  <2>5. ASSUME NEW t \in Sessions, state'[t] = "gone", t \notin late'
        PROVE  /\ \A r \in Rooms : t \notin members'[r]
               /\ \A h \in Handlers : handler'[h].pc = "join" => handler'[h].session # t
               /\ \A d \in Conns : conn'[d].pc \in {"found", "open"} => conn'[d].session # t
    <3>1. CASE t = s
      BY <1>3, <1>4, <2>2, <2>4, <2>5, <3>1
    <3>2. CASE t # s
      BY <1>3, <1>4, <2>2, <2>3, <2>5, <3>2 DEF LeftInv
    <3> QED
      BY <3>1, <3>2
  <2> QED
    BY <2>5 DEF LeftInv
<1>6. CASE state[s] # "live"
  <2>1. UNCHANGED <<state, members, late>>
    BY <1>6 DEF RemoveSession
  <2> QED
    BY <1>3, <1>4, <2>1 DEF LeftInv
<1> QED
  BY <1>5, <1>6

\* A session that is found is registered.
LEMMA FindLeft ==
    ASSUME TypeInv, LeftInv, NEW s \in Sessions,
           NewSession(s) \/ \E c \in Conns : FindSession(c, s)
    PROVE  LeftInv'
<1>1. state \in [Sessions -> {"new", "live", "gone"}] /\ conn \in [Conns -> Conn]
  BY DEF TypeInv, TypeOK, Conn
<1>2. UNCHANGED <<members, late, handler>>
  BY DEF NewSession, FindSession
<1>3. \A t \in Sessions : state'[t] = "gone" => state[t] = "gone" /\ t # s
  BY <1>1 DEF NewSession, FindSession
<1>4. \A c \in Conns : conn'[c] = conn[c] \/ conn'[c].session = s
  BY <1>1 DEF NewSession, FindSession
<1> QED
  BY <1>2, <1>3, <1>4 DEF LeftInv

\* A packet is read from a registered session or from an open websocket.
LEMMA ArrivalLeft ==
    ASSUME TypeInv, LeftInv,
           \/ \E c \in Conns : OpenSocket(c)
           \/ \E h \in Handlers, s \in Sessions, k \in Packets, r \in Rooms : Receive(h, s, k, r)
           \/ \E h \in Handlers, r \in Rooms : BroadcastMessage(h, r)
    PROVE  LeftInv'
<1>1. conn \in [Conns -> Conn] /\ handler \in [Handlers -> Jobs]
  BY DEF TypeInv, TypeOK, Conn
<1>2. UNCHANGED <<state, members, late>>
  BY DEF OpenSocket, Receive, BroadcastMessage, registry
<1>3. ASSUME NEW c \in Conns, OpenSocket(c)
      PROVE  LeftInv'
  <2>1. \A d \in Conns : /\ conn'[d].session = conn[d].session
                         /\ conn'[d].pc \in {"found", "open"} => conn[d].pc \in {"found", "open"}
    BY <1>1, <1>3 DEF OpenSocket, Conn
  <2>2. \A g \in Handlers : /\ handler'[g].session = handler[g].session
                            /\ handler'[g].pc = handler[g].pc
    BY <1>1, <1>3 DEF OpenSocket, Jobs
  <2> QED
    BY <1>2, <2>1, <2>2 DEF LeftInv
<1>4. ASSUME NEW h \in Handlers, NEW s \in Sessions, NEW k \in Packets, NEW r \in Rooms,
             Receive(h, s, k, r)
      PROVE  LeftInv'
  <2>1. /\ conn' = conn
        /\ handler'[h].session = s
        /\ \A g \in Handlers \ {h} : handler'[g] = handler[g]
    BY <1>1, <1>4 DEF Receive, Jobs
  <2>2. state[s] = "gone" => s \in late
    <3>1. CASE h \in Posters /\ Polled(s)
      BY <3>1 DEF Polled
    <3>2. CASE h \in Conns /\ conn[h] = [pc |-> "open", session |-> s]
      <4>1. conn[h].pc = "open" /\ conn[h].session = s
        BY <3>2
      <4> QED
        BY <3>2, <4>1 DEF LeftInv
    <3> QED
      BY <1>4, <3>1, <3>2 DEF Receive, Reads
  <2> QED
    BY <1>2, <2>1, <2>2 DEF LeftInv
<1>5. ASSUME NEW h \in Handlers, NEW r \in Rooms, BroadcastMessage(h, r)
      PROVE  LeftInv'
  <2>1. conn' = conn
    BY <1>5 DEF BroadcastMessage
  <2>2. \A g \in Handlers : handler'[g].pc = "join" => handler'[g] = handler[g]
    BY <1>1, <1>5 DEF BroadcastMessage, Jobs
  <2> QED
    BY <1>2, <2>1, <2>2 DEF LeftInv
<1> QED
  BY <1>3, <1>4, <1>5

\* It holds in every state, together with the agreement.
LEMMA AgreementKept == Spec => [](TypeInv /\ AgreeInv /\ LeftInv)
<1>1. TypeInv /\ AgreeInv /\ LeftInv /\ [Next]_vars => LeftInv'
  <2> SUFFICES ASSUME TypeInv, AgreeInv, LeftInv, [Next]_vars
               PROVE  LeftInv'
    OBVIOUS
  <2>1. ASSUME NEW s \in Sessions, Polling(s) \/ AbortPoll(s)
        PROVE  LeftInv'
    <3>1. UNCHANGED <<registry, handler, conn>>
      BY <2>1, PollingTyped
    <3> QED
      BY <3>1 DEF LeftInv, registry
  <2>2. ASSUME NEW h \in Handlers, Work(h)
        PROVE  LeftInv'
    BY <2>2, ContinuingLeft, JoinLeaveLeft DEF Work, Others
  <2>3. CASE UNCHANGED vars
    BY <2>3 DEF vars, registry, LeftInv
  <2> QED
    BY <2>1, <2>2, <2>3, FindLeft, RemoveLeft, ArrivalLeft DEF Next
<1> QED
  BY <1>1, InitTypeInv, StepTyped, InitAgrees, AgreementStep, InitLeft, PTL DEF Spec

\* A session that removeSession has taken away is left in a room only when it
\* was in use meanwhile, however many clients, with one or both ways to
\* their sessions, join and go.
THEOREM NoGhosts == Spec => []GhostsHaveCauses
<1>1. TypeInv /\ AgreeInv /\ LeftInv => GhostsHaveCauses
  BY DEF GhostsHaveCauses, TypeInv, TypeOK, AgreeInv, FreshInv, LeftInv
<1> QED
  BY <1>1, AgreementKept, PTL

\* The registry and the rooms agree on the members of every room, however the
\* joins, leaves, broadcasts and removals of any number of sessions interleave.
THEOREM Agreement == Spec => []RoomsAgree
<1>1. AgreeInv /\ GhostsHaveCauses => RoomsAgree
  BY DEF AgreeInv, RoomsAgree
<1> QED
  BY <1>1, AgreementKept, NoGhosts, PTL

-----------------------------------------------------------------------------
(* One way to a session.                                                   *)

\* While no client has two ways to its session, a session has one websocket
\* or none, which is there as long as the session, and a request is about a
\* session that only it and its like can reach.
OneWayInv ==
    /\ \A c, d \in Conns :
          conn[c].pc # "none" /\ conn[d].pc # "none" /\ conn[c].session = conn[d].session => c = d
    /\ \A c \in Conns : conn[c].pc \in {"found", "open", "closing"} => state[conn[c].session] = "live"
    /\ \A c \in Conns : handler[c].pc # "idle" => handler[c].session = conn[c].session
    /\ \A h \in Posters : handler[h].session \in Sessions =>
          /\ state[handler[h].session] = "live"
          /\ \A c \in Conns : conn[c].pc # "none" => conn[c].session # handler[h].session
    /\ \A h \in Callers : handler[h].session \notin Sessions

NoGhostMembers ==
    \A s \in Sessions, r \in Rooms : s \in members[r] => state[s] = "live"

GhostInv == NoGhostMembers /\ OneWayInv

\* At the start nobody is anywhere.
LEMMA InitNoGhosts == Init => GhostInv
BY HubAssumption DEF Init, GhostInv, NoGhostMembers, OneWayInv, Idle, Handlers

\* Where nothing but handler changes.
LEMMA ContinuingNoGhosts ==
    ASSUME TypeInv, AgreeInv, GhostInv, NEW h \in Handlers, Others(h)
    PROVE  GhostInv'
<1>1. /\ conn \in [Conns -> Conn] /\ NoSession \notin Sessions
      /\ \A c \in Conns \cup Posters \cup Callers : c \in Handlers
  BY HubAssumption DEF TypeInv, TypeOK, Conn, Handlers
<1>2. Continues(h) /\ UNCHANGED registry
  BY OthersContinue
<1>3. ~At(h, "idle")
  BY DEF Others, At, EmitToSession, Acknowledge, StartBroadcast, DeliverOne,
         EndBroadcast, EndWrite
<1>4. \A g \in Handlers : /\ handler'[g].session \in {handler[g].session, NoSession}
                          /\ handler'[g].pc # "idle" => handler[g].pc # "idle"
                          /\ handler'[g].pc # "idle" => handler'[g].session = handler[g].session
  BY <1>2, IdleJob DEF Continues
<1>5. \A c \in Conns : /\ conn'[c].session = conn[c].session
                       /\ conn'[c].pc # "none" => conn[c].pc # "none"
                       /\ conn'[c].pc \in {"found", "open", "closing"} =>
                            conn[c].pc \in {"found", "open", "closing"}
  BY <1>1, <1>2, <1>3 DEF Continues, Conn, AgreeInv, ReaderInv
<1>6. UNCHANGED <<state, members>>
  BY <1>2 DEF registry
<1>7. OneWayInv'
  BY <1>1, <1>4, <1>5, <1>6 DEF GhostInv, OneWayInv
<1> QED
  BY <1>6, <1>7 DEF GhostInv, NoGhostMembers

\* Only a live session joins.
LEMMA JoinLeaveNoGhosts ==
    ASSUME TypeInv, AgreeInv, GhostInv, NEW h \in Handlers, JoinRoom(h) \/ LeaveRoom(h)
    PROVE  GhostInv'
<1> DEFINE s == handler[h].session
           r == handler[h].room
<1>1. s \in Sessions /\ r \in Rooms /\ handler[h].pc # "idle"
  BY DEF TypeInv, WorkInv, PacketSteps, JoinRoom, LeaveRoom, At
<1>2. state[s] = "live"
  <2>1. CASE h \in Conns
    <3>1. conn[h].pc = "open" /\ conn[h].session = s
      BY <1>1, <2>1 DEF AgreeInv, ReaderInv, At, GhostInv, OneWayInv
    <3> QED
      BY <2>1, <3>1 DEF GhostInv, OneWayInv
  <2>2. CASE h \in Posters \cup Callers
    BY <1>1, <2>2 DEF GhostInv, OneWayInv
  <2> QED
    BY <2>1, <2>2 DEF Handlers
<1>3. PICK step \in {"joined", "left"} : handler' = [handler EXCEPT ![h].pc = step]
  BY DEF JoinRoom, LeaveRoom
<1>4. \A g \in Handlers : /\ handler'[g].session = handler[g].session
                          /\ g # h => handler'[g] = handler[g]
  BY <1>3 DEF TypeInv, TypeOK, Jobs
<1>5. UNCHANGED <<state, conn>>
  BY DEF JoinRoom, LeaveRoom
<1>6. members \in [Rooms -> SUBSET Sessions]
  BY DEF TypeInv, TypeOK
<1> HIDE DEF s, r
<1>7. \A t \in Sessions, q \in Rooms : t \in members'[q] => t = s \/ t \in members[q]
  <2>1. \/ members' = [members EXCEPT ![r] = @ \cup {s}]
        \/ members' = [members EXCEPT ![r] = @ \ {s}]
    BY DEF JoinRoom, LeaveRoom, s, r
  <2> QED
    BY <1>1, <1>6, <2>1
<1>8. NoGhostMembers'
  BY <1>2, <1>5, <1>7 DEF GhostInv, NoGhostMembers
<1>9. OneWayInv'
  BY <1>1, <1>4, <1>5 DEF GhostInv, OneWayInv, Handlers
<1> QED
  BY <1>8, <1>9 DEF GhostInv

\* removeSession takes the session out of every room it is in.
LEMMA RemoveNoGhosts ==
    ASSUME TypeInv, AgreeInv, GhostInv, NEW c \in Conns, RemoveSession(c)
    PROVE  GhostInv'
<1> DEFINE s == conn[c].session
<1>1. /\ state \in [Sessions -> {"new", "live", "gone"}]
      /\ members \in [Rooms -> SUBSET Sessions]
      /\ conn \in [Conns -> Conn]
  BY DEF TypeInv, TypeOK, Conn
<1>2. s \in Sessions /\ state[s] = "live"
  BY DEF RemoveSession, AgreeInv, FreshInv, GhostInv, OneWayInv
<1>3. /\ state' = [state EXCEPT ![s] = "gone"]
      /\ members' = [r \in Rooms |-> IF r \in roomsOf[s] THEN members[r] \ {s} ELSE members[r]]
  BY <1>2 DEF RemoveSession
<1>4. /\ handler' = handler
      /\ \A d \in Conns : /\ conn'[d].session = conn[d].session
                          /\ d # c => conn'[d] = conn[d]
      /\ conn'[c].pc = "closed" /\ conn[c].pc # "none"
  BY <1>1 DEF RemoveSession, Conn
<1> HIDE DEF s
<1>5. \A t \in Sessions, r \in Rooms : t \in members'[r] => t # s /\ t \in members[r]
  BY <1>2, <1>3 DEF AgreeInv, ListsAgree
<1>6. \A t \in Sessions : t # s => state'[t] = state[t]
  BY <1>1, <1>3
<1>7. NoGhostMembers'
  BY <1>5, <1>6 DEF GhostInv, NoGhostMembers
<1>8. OneWayInv'
  <2>1. \A d \in Conns : conn'[d].pc \in {"found", "open", "closing"} =>
                            /\ d # c
                            /\ conn[d].session \in Sessions
                            /\ conn[d].session # s
    BY <1>4 DEF s, GhostInv, OneWayInv, AgreeInv, FreshInv
  <2>2. \A h \in Posters : handler[h].session \in Sessions => handler[h].session # s
    BY <1>4 DEF s, GhostInv, OneWayInv
  <2>3. \A d \in Conns : conn'[d].pc # "none" => conn[d].pc # "none"
    BY <1>4
  <2>4. \A d \in Conns : conn'[d].pc \in {"found", "open", "closing"} =>
                            state'[conn'[d].session] = "live"
    BY <1>4, <1>6, <2>1 DEF GhostInv, OneWayInv
  <2>5. \A h \in Posters : handler'[h].session \in Sessions => state'[handler'[h].session] = "live"
    BY <1>4, <1>6, <2>2 DEF GhostInv, OneWayInv
  <2> QED
    BY <1>4, <2>3, <2>4, <2>5 DEF GhostInv, OneWayInv
<1> QED
  BY <1>7, <1>8 DEF GhostInv

\* A session is found by one websocket only, when it is new.
LEMMA FindNoGhosts ==
    ASSUME ~Upgrades, TypeInv, AgreeInv, GhostInv, NEW s \in Sessions,
           NewSession(s) \/ \E c \in Conns : FindSession(c, s)
    PROVE  GhostInv'
<1>1. /\ state \in [Sessions -> {"new", "live", "gone"}]
      /\ conn \in [Conns -> Conn]
  BY DEF TypeInv, TypeOK, Conn
<1>2. /\ UNCHANGED <<members, handler>>
      /\ state[s] = "new"
      /\ state' = [state EXCEPT ![s] = "live"]
  BY DEF NewSession, FindSession
<1>3. \A t \in Sessions : /\ state[t] = "live" => state'[t] = "live"
                          /\ t # s => state'[t] = state[t]
  BY <1>1, <1>2
<1>4. state'[s] = "live"
  BY <1>1, <1>2
<1>5. NoGhostMembers'
  BY <1>2, <1>3 DEF GhostInv, NoGhostMembers
<1>6. CASE NewSession(s)
  <2>1. conn' = conn
    BY <1>6 DEF NewSession
  <2> QED
    BY <1>2, <1>3, <1>5, <2>1 DEF GhostInv, OneWayInv, AgreeInv, FreshInv
<1>7. ASSUME NEW c \in Conns, FindSession(c, s)
      PROVE  GhostInv'
  <2>1. /\ conn'[c].session = s /\ conn'[c].pc = "found" /\ conn[c].pc = "none"
        /\ \A d \in Conns \ {c} : conn'[d] = conn[d]
        /\ handler[c].pc = "idle"
    BY <1>1, <1>7 DEF FindSession, AgreeInv, ReaderInv, At
  <2>2. \A d \in Conns \ {c} : conn[d].pc # "none" => conn[d].session # s
    BY <1>2 DEF AgreeInv, FreshInv
  <2>3. \A h \in Posters : handler[h].session # s
    BY <1>2 DEF GhostInv, OneWayInv
  <2>4. OneWayInv'
    <3>1. \A d, e \in Conns : conn'[d].pc # "none" /\ conn'[e].pc # "none"
                               /\ conn'[d].session = conn'[e].session => d = e
      BY <2>1, <2>2 DEF GhostInv, OneWayInv
    <3>2. \A d \in Conns : conn'[d].pc \in {"found", "open", "closing"} =>
                              state'[conn'[d].session] = "live"
      BY <1>3, <1>4, <2>1 DEF GhostInv, OneWayInv, AgreeInv, FreshInv
    <3>3. \A d \in Conns : handler'[d].pc # "idle" => handler'[d].session = conn'[d].session
      BY <1>2, <2>1 DEF GhostInv, OneWayInv
    <3>4. \A h \in Posters : handler'[h].session \in Sessions =>
             /\ state'[handler'[h].session] = "live"
             /\ \A d \in Conns : conn'[d].pc # "none" => conn'[d].session # handler'[h].session
      BY <1>2, <1>3, <2>1, <2>3 DEF GhostInv, OneWayInv
    <3>5. \A h \in Callers : handler'[h].session \notin Sessions
      BY <1>2 DEF GhostInv, OneWayInv
    <3> QED
      BY <3>1, <3>2, <3>3, <3>4, <3>5 DEF OneWayInv
  <2> QED
    BY <1>5, <2>4 DEF GhostInv
<1> QED
  BY <1>6, <1>7

\* A request reads a session no websocket has, or the one of its websocket.
LEMMA ArrivalNoGhosts ==
    ASSUME ~Upgrades, TypeInv, AgreeInv, GhostInv,
           \/ \E c \in Conns : OpenSocket(c)
           \/ \E h \in Handlers, s \in Sessions, k \in Packets, r \in Rooms : Receive(h, s, k, r)
           \/ \E h \in Handlers, r \in Rooms : BroadcastMessage(h, r)
    PROVE  GhostInv'
<1>1. /\ conn \in [Conns -> Conn]
      /\ handler \in [Handlers -> Jobs]
      /\ \A c \in Conns : c \in Handlers /\ c \notin Posters /\ c \notin Callers
      /\ \A g \in Posters : g \in Handlers /\ g \notin Callers
      /\ \A g \in Callers : g \in Handlers
  BY HubAssumption DEF TypeInv, TypeOK, Conn, Handlers
<1>2. UNCHANGED <<state, members>>
  BY DEF OpenSocket, Receive, BroadcastMessage, registry
<1>3. NoGhostMembers'
  BY <1>2 DEF GhostInv, NoGhostMembers
<1>4. ASSUME NEW c \in Conns, OpenSocket(c)
      PROVE  OneWayInv'
  <2>1. \A d \in Conns : /\ conn'[d].session = conn[d].session
                         /\ conn'[d].pc # "none" => conn[d].pc # "none"
                         /\ conn'[d].pc \in {"found", "open", "closing"} =>
                              conn[d].pc \in {"found", "open", "closing"}
    BY <1>1, <1>4 DEF OpenSocket, Conn
  <2>2. \A g \in Handlers : /\ handler'[g].session = handler[g].session
                            /\ handler'[g].pc = handler[g].pc
    BY <1>1, <1>4 DEF OpenSocket, Jobs
  <2> QED
    BY <1>1, <1>2, <2>1, <2>2 DEF GhostInv, OneWayInv
<1>5. ASSUME NEW h \in Handlers, NEW s \in Sessions, NEW k \in Packets, NEW r \in Rooms,
             Receive(h, s, k, r)
      PROVE  OneWayInv'
  <2>1. /\ conn' = conn
        /\ handler'[h].session = s
        /\ \A g \in Handlers \ {h} : handler'[g] = handler[g]
    BY <1>1, <1>5 DEF Receive, Jobs
  <2>2. CASE h \in Posters /\ Polled(s)
    <3>1. state[s] = "live" /\ \A c \in Conns : conn[c].session # s
      BY <2>2 DEF Polled
    <3> QED
      BY <1>1, <1>2, <2>1, <2>2, <3>1 DEF GhostInv, OneWayInv
  <2>3. CASE h \in Conns /\ conn[h] = [pc |-> "open", session |-> s]
    <3>1. conn[h].session = s
      BY <2>3
    <3> QED
      BY <1>1, <1>2, <2>1, <2>3, <3>1 DEF GhostInv, OneWayInv
  <2> QED
    BY <1>5, <2>2, <2>3 DEF Receive, Reads
<1>6. ASSUME NEW h \in Handlers, NEW r \in Rooms, BroadcastMessage(h, r)
      PROVE  OneWayInv'
  <2>1. /\ h \in Callers /\ conn' = conn
        /\ handler'[h].session = handler[h].session
        /\ \A g \in Handlers \ {h} : handler'[g] = handler[g]
    BY <1>1, <1>6 DEF BroadcastMessage, Jobs
  <2> QED
    BY <1>1, <1>2, <2>1 DEF GhostInv, OneWayInv
<1> QED
  BY <1>3, <1>4, <1>5, <1>6 DEF GhostInv

\* They hold in every state while no client has two ways to its session.
LEMMA GhostsKept == ASSUME ~Upgrades PROVE Spec => []GhostInv
<1>1. TypeInv /\ AgreeInv /\ GhostInv /\ [Next]_vars => GhostInv'
  <2> SUFFICES ASSUME TypeInv, AgreeInv, GhostInv, [Next]_vars
               PROVE  GhostInv'
    OBVIOUS
  <2>1. ASSUME NEW s \in Sessions, Polling(s) \/ AbortPoll(s)
        PROVE  GhostInv'
    <3>1. UNCHANGED <<registry, handler, conn>>
      BY <2>1, PollingTyped
    <3> QED
      BY <3>1 DEF GhostInv, NoGhostMembers, OneWayInv, registry
  <2>2. ASSUME NEW h \in Handlers, Work(h)
        PROVE  GhostInv'
    BY <2>2, ContinuingNoGhosts, JoinLeaveNoGhosts DEF Work, Others
  <2>3. CASE UNCHANGED vars
    BY <2>3 DEF vars, registry, GhostInv, NoGhostMembers, OneWayInv
  <2> QED
    BY <2>1, <2>2, <2>3, FindNoGhosts, RemoveNoGhosts, ArrivalNoGhosts DEF Next
<1> QED
  BY <1>1, InitTypeInv, StepTyped, InitAgrees, AgreementStep, InitNoGhosts, PTL DEF Spec

-----------------------------------------------------------------------------
(* Sequences of packets.                                                   *)

\* A set that has 0 and with a number the next one has all numbers: otherwise
\* the least number it lacks would follow one it has.
LEMMA NumberInduction ==
    ASSUME NEW T, 0 \in T, \A n \in Nat : n \in T => n + 1 \in T
    PROVE  Nat \subseteq T
<1> DEFINE R == OpToRel(<, Nat)
           U == Nat \ T
<1> SUFFICES ASSUME U # {} PROVE FALSE
  OBVIOUS
<1>1. \A x, y \in Nat : y < x => <<y, x>> \in R
  BY Zenon DEF OpToRel
<1>2. IsWellFoundedOn(R, Nat)
  BY NatLessThanWellFounded
<1> HIDE DEF R
<1>3. PICK x \in U : \A y \in U : ~(<<y, x>> \in R)
  BY <1>2, WFMin
<1>4. x \in Nat /\ x # 0
  OBVIOUS
<1>5. x - 1 \in Nat /\ x - 1 < x /\ (x - 1) + 1 = x
  BY <1>4
<1>6. x - 1 \in T
  BY <1>1, <1>3, <1>4, <1>5
<1> QED
  BY <1>3, <1>5, <1>6

\* A set that has the empty sequence and with a sequence every longer one by
\* an element has all sequences.
LEMMA SequenceInduction ==
    ASSUME NEW S, NEW T, <<>> \in T,
           \A ps \in Seq(S), p \in S : ps \in T => Append(ps, p) \in T
    PROVE  Seq(S) \subseteq T
<1> DEFINE N == {n \in Nat : \A ps \in Seq(S) : Len(ps) = n => ps \in T}
<1>1. 0 \in N
  <2>1. \A ps \in Seq(S) : Len(ps) = 0 => ps = <<>>
    OBVIOUS
  <2> QED
    BY <2>1
<1>2. ASSUME NEW n \in Nat, n \in N
      PROVE  n + 1 \in N
  <2> SUFFICES ASSUME NEW ps \in Seq(S), Len(ps) = n + 1
               PROVE  ps \in T
    OBVIOUS
  <2> DEFINE qs == [i \in 1..n |-> ps[i]]
  <2>1. qs \in Seq(S) /\ Len(qs) = n
    OBVIOUS
  <2>2. ps[n + 1] \in S
    OBVIOUS
  <2>3. ps = Append(qs, ps[n + 1])
    OBVIOUS
  <2>4. qs \in T
    BY <1>2, <2>1
  <2> HIDE DEF qs
  <2> QED
    BY <2>1, <2>2, <2>3, <2>4
<1> HIDE DEF N
<1>3. Nat \subseteq N
  BY <1>1, <1>2, NumberInduction
<1> QED
  BY <1>3 DEF N

\* What the scan in Messages makes of the first packets.
IsScan(ms, ps) ==
    ms = [i \in 0..Len(ps) |->
            IF i = 0 THEN <<>>
            ELSE IF ps[i].kind = "message" THEN Append(ms[i - 1], ps[i].arg)
            ELSE ms[i - 1]]

\* Every sequence of packets can be scanned.
LEMMA ScanExists == \A ps \in Seq(AllPackets) : \E ms : IsScan(ms, ps)
<1> DEFINE T == {ps \in Seq(AllPackets) : \E ms : IsScan(ms, ps)}
<1>1. <<>> \in T
  <2>1. IsScan([i \in 0..0 |-> <<>>], <<>>)
    BY DEF IsScan
  <2> QED
    BY <2>1
<1>2. ASSUME NEW ps \in Seq(AllPackets), NEW p \in AllPackets, ps \in T
      PROVE  Append(ps, p) \in T
  <2>1. PICK ms : IsScan(ms, ps)
    BY <1>2
  <2> DEFINE n == Len(ps)
             qs == Append(ps, p)
             last == IF p.kind = "message" THEN Append(ms[n], p.arg) ELSE ms[n]
             ns == [i \in 0..(n + 1) |-> IF i = n + 1 THEN last ELSE ms[i]]
  <2>2. n \in Nat /\ Len(qs) = n + 1 /\ qs[n + 1] = p /\ \A i \in 1..n : qs[i] = ps[i]
    OBVIOUS
  <2>3. \A i \in 0..n : ms[i] = IF i = 0 THEN <<>>
                                ELSE IF ps[i].kind = "message" THEN Append(ms[i - 1], ps[i].arg)
                                ELSE ms[i - 1]
    BY <2>1 DEF IsScan
  <2>4. \A i \in 0..(n + 1) :
           ns[i] = IF i = 0 THEN <<>>
                   ELSE IF qs[i].kind = "message" THEN Append(ns[i - 1], qs[i].arg)
                   ELSE ns[i - 1]
    <3> HIDE DEF qs
    <3> TAKE i \in 0..(n + 1)
    <3>1. CASE i = n + 1
      BY <2>2, <3>1
    <3>2. CASE i \in 0..n
      BY <2>2, <2>3, <3>2
    <3> QED
      BY <2>2, <3>1, <3>2
  <2> HIDE DEF n, qs, last
  <2>5. IsScan(ns, qs)
    <3>1. Len(qs) = n + 1
      BY <2>2
    <3> QED
      BY <2>4, <3>1 DEF IsScan
  <2> HIDE DEF ns
  <2>6. qs \in Seq(AllPackets)
    BY DEF qs
  <2> QED
    BY <2>5, <2>6 DEF qs
<1> HIDE DEF T
<1>3. Seq(AllPackets) \subseteq T
  BY <1>1, <1>2, SequenceInduction
<1> QED
  BY <1>3 DEF T

\* The scan is what Messages takes its last value of.
LEMMA MessagesScan ==
    ASSUME NEW ps \in Seq(AllPackets)
    PROVE  \E ms : IsScan(ms, ps) /\ Messages(ps) = ms[Len(ps)]
<1> DEFINE f == CHOOSE ms : IsScan(ms, ps)
<1>1. Messages(ps) = f[Len(ps)]
  BY Zenon DEF Messages, IsScan
<1>2. IsScan(f, ps)
  BY ScanExists
<1> QED
  BY <1>1, <1>2

\* A scan starts with no message.
LEMMA MessagesOfNone == Messages(<<>>) = <<>>
<1>1. <<>> \in Seq(AllPackets) /\ Len(<<>>) = 0
  OBVIOUS
<1>2. PICK ms : IsScan(ms, <<>>) /\ Messages(<<>>) = ms[0]
  BY <1>1, MessagesScan
<1> QED
  BY <1>1, <1>2 DEF IsScan

\* Two scans agree as long as the packets do.
LEMMA ScansAgree ==
    ASSUME NEW ps \in Seq(AllPackets), NEW p \in AllPackets, NEW ms, NEW ns,
           IsScan(ms, ps), IsScan(ns, Append(ps, p))
    PROVE  ms[Len(ps)] = ns[Len(ps)]
<1> DEFINE n == Len(ps)
           qs == Append(ps, p)
           T == {i \in Nat : i <= n => ms[i] = ns[i]}
<1>1. n \in Nat /\ Len(qs) = n + 1 /\ \A i \in 1..n : qs[i] = ps[i]
  OBVIOUS
<1>2. \A i \in 0..n : ms[i] = IF i = 0 THEN <<>>
                              ELSE IF ps[i].kind = "message" THEN Append(ms[i - 1], ps[i].arg)
                              ELSE ms[i - 1]
  BY DEF IsScan
<1>3. \A i \in 0..(n + 1) : ns[i] = IF i = 0 THEN <<>>
                                    ELSE IF qs[i].kind = "message" THEN Append(ns[i - 1], qs[i].arg)
                                    ELSE ns[i - 1]
  <2> HIDE DEF qs
  <2> QED
    BY <1>1 DEF IsScan, qs
<1> HIDE DEF n, qs
<1>4. 0 \in T
  BY <1>1, <1>2, <1>3
<1>5. ASSUME NEW i \in Nat, i \in T
      PROVE  i + 1 \in T
  <2> SUFFICES ASSUME i + 1 <= n
               PROVE  ms[i + 1] = ns[i + 1]
    OBVIOUS
  <2>1. i + 1 \in 0..n /\ i + 1 \in 0..(n + 1) /\ i + 1 # 0 /\ (i + 1) - 1 = i /\ i <= n
    BY <1>1
  <2>2. ms[i] = ns[i] /\ qs[i + 1] = ps[i + 1]
    BY <1>1, <1>5, <2>1
  <2> QED
    BY <1>2, <1>3, <2>1, <2>2
<1> HIDE DEF T
<1>6. n \in T
  BY <1>1, <1>4, <1>5, NumberInduction
<1> QED
  BY <1>1, <1>6 DEF T, n

\* A message more at the end is a message more in the result.
LEMMA MessagesOfMore ==
    ASSUME NEW ps \in Seq(AllPackets), NEW p \in AllPackets
    PROVE  Messages(Append(ps, p)) = IF p.kind = "message" THEN Append(Messages(ps), p.arg)
                                                           ELSE Messages(ps)
<1>1. PICK ms : IsScan(ms, ps) /\ Messages(ps) = ms[Len(ps)]
  BY MessagesScan
<1> DEFINE qs == Append(ps, p)
           n == Len(ps)
<1>2. qs \in Seq(AllPackets) /\ Len(qs) = n + 1 /\ qs[n + 1] = p /\ n \in Nat
  OBVIOUS
<1>3. PICK ns : IsScan(ns, qs) /\ Messages(qs) = ns[Len(qs)]
  BY <1>2, MessagesScan
<1>4. ms[n] = ns[n]
  BY <1>1, <1>3, ScansAgree
<1> HIDE DEF qs, n
<1>5. ns[n + 1] = IF p.kind = "message" THEN Append(ns[n], p.arg) ELSE ns[n]
  <2>1. n + 1 \in 0..Len(qs) /\ n + 1 # 0 /\ (n + 1) - 1 = n
    BY <1>2
  <2> QED
    BY <1>2, <1>3, <2>1 DEF IsScan
<1> QED
  BY <1>1, <1>2, <1>3, <1>4, <1>5 DEF n, qs

\* What a packet may carry.
Args == Rooms \cup {NoRoom} \cup Nat

\* The messages are a sequence.
LEMMA MessagesTyped == \A ps \in Seq(AllPackets) : Messages(ps) \in Seq(Args)
<1> DEFINE T == {ps \in Seq(AllPackets) : Messages(ps) \in Seq(Args)}
<1>1. <<>> \in T
  <2>1. <<>> \in Seq(AllPackets) /\ <<>> \in Seq(Args)
    OBVIOUS
  <2> QED
    BY <2>1, MessagesOfNone
<1>2. ASSUME NEW ps \in Seq(AllPackets), NEW p \in AllPackets, ps \in T
      PROVE  Append(ps, p) \in T
  <2>1. p.arg \in Args
    BY DEF AllPackets, Args
  <2>2. Append(ps, p) \in Seq(AllPackets)
    OBVIOUS
  <2>3. Messages(ps) \in Seq(Args)
    BY <1>2
  <2>4. Append(Messages(ps), p.arg) \in Seq(Args)
    BY <2>1, <2>3
  <2> QED
    BY <2>2, <2>3, <2>4, MessagesOfMore
<1> HIDE DEF T
<1>3. Seq(AllPackets) \subseteq T
  BY <1>1, <1>2, SequenceInduction
<1> QED
  BY <1>3 DEF T

\* An element at the end of two sequences is one at the end of the second.
LEMMA AppendToBoth ==
    \A xs, ys \in Seq(Args), x \in Args : Append(xs \o ys, x) = xs \o Append(ys, x)
OBVIOUS

\* The messages of two sequences one after the other.
LEMMA MessagesOfBoth ==
    ASSUME NEW ps \in Seq(AllPackets), NEW qs \in Seq(AllPackets)
    PROVE  Messages(ps \o qs) = Messages(ps) \o Messages(qs)
<1> DEFINE T == {rs \in Seq(AllPackets) : Messages(ps \o rs) = Messages(ps) \o Messages(rs)}
<1>1. <<>> \in T
  <2>1. <<>> \in Seq(AllPackets) /\ \A S : \A rs \in Seq(S) : rs \o <<>> = rs
    OBVIOUS
  <2>2. ps \o <<>> = ps /\ Messages(ps) \o <<>> = Messages(ps)
    BY <2>1, MessagesTyped
  <2> QED
    BY <2>1, <2>2, MessagesOfNone
<1>2. ASSUME NEW rs \in Seq(AllPackets), NEW p \in AllPackets, rs \in T
      PROVE  Append(rs, p) \in T
  <2>1. ps \o Append(rs, p) = Append(ps \o rs, p) /\ ps \o rs \in Seq(AllPackets)
    OBVIOUS
  <2>2. Messages(ps \o rs) = Messages(ps) \o Messages(rs)
    BY <1>2
  <2>3. Messages(ps) \in Seq(Args) /\ Messages(rs) \in Seq(Args) /\ p.arg \in Args
    BY MessagesTyped DEF AllPackets, Args
  <2>4. Append(Messages(ps) \o Messages(rs), p.arg) = Messages(ps) \o Append(Messages(rs), p.arg)
    BY <2>3, AppendToBoth, Zenon
  <2>5. Append(rs, p) \in Seq(AllPackets)
    OBVIOUS
  <2> QED
    BY <2>1, <2>2, <2>4, <2>5, MessagesOfMore
<1> HIDE DEF T
<1>3. Seq(AllPackets) \subseteq T
  BY <1>1, <1>2, SequenceInduction
<1> QED
  BY <1>3 DEF T

\* A number is among the messages of packets when one of them carries it.
LEMMA MessagesCarry ==
    ASSUME NEW m \in Nat
    PROVE  \A ps \in Seq(AllPackets) :
              m \in Range(Messages(ps)) <=> Packet("message", m) \in Range(ps)
<1> DEFINE T == {ps \in Seq(AllPackets) :
                    m \in Range(Messages(ps)) <=> Packet("message", m) \in Range(ps)}
<1>1. <<>> \in T
  BY MessagesOfNone DEF Range
<1>2. ASSUME NEW ps \in Seq(AllPackets), NEW p \in AllPackets, ps \in T
      PROVE  Append(ps, p) \in T
  <2>1. \A S : \A rs \in Seq(S) : \A x \in S : Range(Append(rs, x)) = Range(rs) \cup {x}
    <3> SUFFICES ASSUME NEW S, NEW rs \in Seq(S), NEW x \in S
                 PROVE  Range(Append(rs, x)) = Range(rs) \cup {x}
      OBVIOUS
    <3>1. /\ DOMAIN Append(rs, x) = 1..(Len(rs) + 1) /\ DOMAIN rs = 1..Len(rs) /\ Len(rs) \in Nat
          /\ \A i \in 1..Len(rs) : Append(rs, x)[i] = rs[i]
          /\ Append(rs, x)[Len(rs) + 1] = x
      OBVIOUS
    <3> QED
      BY <3>1 DEF Range
  <2>2. Messages(ps) \in Seq(Args) /\ p.arg \in Args
    BY MessagesTyped DEF AllPackets, Args
  <2>. Append(ps, p) \in Seq(AllPackets)
    OBVIOUS
  <2>3. Range(Append(ps, p)) = Range(ps) \cup {p}
    BY <2>1
  <2>4. Range(Append(Messages(ps), p.arg)) = Range(Messages(ps)) \cup {p.arg}
    BY <2>1, <2>2
  <2>5. p = Packet("message", m) <=> p.kind = "message" /\ p.arg = m
    BY DEF AllPackets, Packet
  <2>6. m \in Range(Messages(ps)) <=> Packet("message", m) \in Range(ps)
    BY <1>2
  <2> QED
    BY <2>2, <2>3, <2>4, <2>5, <2>6, MessagesOfMore
<1> HIDE DEF T
<1>3. Seq(AllPackets) \subseteq T
  BY <1>1, <1>2, SequenceInduction
<1> QED
  BY <1>3 DEF T

\* The status packets of a room are two.
LEMMA StatusesDiffer == \A r \in Rooms : Packet("joined", r) # Packet("left", r)
BY DEF Packet

\* Without a packet nothing changes for the client.
LEMMA AfterNone == ASSUME NEW rooms \in SUBSET Rooms PROVE After(rooms, <<>>) = rooms
BY DEF After

\* What counts for one room.
LEMMA AfterOne ==
    ASSUME NEW rooms, NEW ps, NEW r \in Rooms
    PROVE  r \in After(rooms, ps) <=>
              \/ \E i \in DOMAIN ps :
                    /\ ps[i] = Packet("joined", r)
                    /\ \A j \in DOMAIN ps : j > i => ps[j] # Packet("left", r)
              \/ r \in rooms /\ \A j \in DOMAIN ps : ps[j] # Packet("left", r)
BY DEF After

\* A packet more counts if it is a status, for its room.
LEMMA AfterMore ==
    ASSUME NEW rooms, NEW ps \in Seq(AllPackets), NEW p \in AllPackets, NEW r \in Rooms
    PROVE  /\ p = Packet("joined", r) => r \in After(rooms, Append(ps, p))
           /\ p = Packet("left", r) => r \notin After(rooms, Append(ps, p))
           /\ p \notin {Packet("joined", r), Packet("left", r)} =>
                 (r \in After(rooms, Append(ps, p)) <=> r \in After(rooms, ps))
<1> DEFINE qs == Append(ps, p)
           n == Len(ps)
           joined == Packet("joined", r)
           left == Packet("left", r)
<1>1. /\ n \in Nat /\ DOMAIN ps = 1..n /\ DOMAIN qs = 1..(n + 1)
      /\ qs[n + 1] = p /\ \A i \in 1..n : qs[i] = ps[i]
  OBVIOUS
<1>2. joined # left
  BY StatusesDiffer
<1> HIDE DEF qs, n, joined, left
<1>3. \A rs : r \in After(rooms, rs) <=>
         \/ \E i \in DOMAIN rs : /\ rs[i] = joined
                                 /\ \A j \in DOMAIN rs : j > i => rs[j] # left
         \/ r \in rooms /\ \A j \in DOMAIN rs : rs[j] # left
  BY AfterOne DEF joined, left
<1>4. p = joined => r \in After(rooms, qs)
  BY <1>1, <1>2, <1>3
<1>5. p = left => r \notin After(rooms, qs)
  BY <1>1, <1>2, <1>3
<1>6. p # joined /\ p # left => (r \in After(rooms, qs) <=> r \in After(rooms, ps))
  BY <1>1, <1>3
<1> QED
  BY <1>4, <1>5, <1>6 DEF qs, joined, left

\* The packets of two answers, one after the other.
LEMMA AfterBoth ==
    ASSUME NEW rooms, NEW ps \in Seq(AllPackets), NEW qs \in Seq(AllPackets)
    PROVE  After(After(rooms, ps), qs) = After(rooms, ps \o qs)
<1> SUFFICES ASSUME NEW r \in Rooms
             PROVE  r \in After(After(rooms, ps), qs) <=> r \in After(rooms, ps \o qs)
  BY DEF After
<1> DEFINE rs == ps \o qs
           n == Len(ps)
           k == Len(qs)
           joined == Packet("joined", r)
           left == Packet("left", r)
           Keeps(ts) == \A j \in DOMAIN ts : ts[j] # left
           Ends(ts) == \E i \in DOMAIN ts : /\ ts[i] = joined
                                            /\ \A j \in DOMAIN ts : j > i => ts[j] # left
<1>1. /\ n \in Nat /\ k \in Nat /\ DOMAIN ps = 1..n /\ DOMAIN qs = 1..k /\ DOMAIN rs = 1..(n + k)
      /\ \A i \in 1..n : rs[i] = ps[i]
      /\ \A i \in 1..k : rs[n + i] = qs[i]
  OBVIOUS
<1>2. /\ r \in After(rooms, rs) <=> Ends(rs) \/ (r \in rooms /\ Keeps(rs))
      /\ r \in After(rooms, ps) <=> Ends(ps) \/ (r \in rooms /\ Keeps(ps))
      /\ r \in After(After(rooms, ps), qs) <=> Ends(qs) \/ (r \in After(rooms, ps) /\ Keeps(qs))
  BY AfterOne
<1> HIDE DEF rs, n, k, joined, left
<1>3. \A j \in 1..(n + k) : j \in 1..n \/ \E i \in 1..k : j = n + i
  <2> TAKE j \in 1..(n + k)
  <2>1. CASE j \notin 1..n
    <3>1. j - n \in 1..k /\ j = n + (j - n)
      BY <1>1, <2>1
    <3> QED
      BY <3>1
  <2> QED
    BY <2>1
<1>4. Keeps(rs) <=> Keeps(ps) /\ Keeps(qs)
  <2>1. \A j \in 1..n : j \in 1..(n + k)
    BY <1>1
  <2>2. \A j \in 1..k : n + j \in 1..(n + k)
    BY <1>1
  <2>3. ASSUME Keeps(rs)
        PROVE  Keeps(ps) /\ Keeps(qs)
    BY <1>1, <2>1, <2>2, <2>3
  <2>4. ASSUME Keeps(ps), Keeps(qs),
               NEW j \in DOMAIN rs
        PROVE  rs[j] # left
    <3>1. j \in 1..n \/ \E i \in 1..k : j = n + i
      BY <1>1, <1>3
    <3>2. ASSUME NEW i \in 1..k, j = n + i
          PROVE  rs[j] # left
      BY <1>1, <2>4, <3>2
    <3> QED
      BY <1>1, <2>4, <3>1, <3>2
  <2> QED
    BY <2>3, <2>4
<1>5. ASSUME Ends(rs)
      PROVE  Ends(qs) \/ (Ends(ps) /\ Keeps(qs))
  <2>1. PICK i \in DOMAIN rs : rs[i] = joined /\ \A j \in DOMAIN rs : j > i => rs[j] # left
    BY <1>5
  <2>2. CASE i \in 1..n
    <3>1. \A j \in 1..n : j \in 1..(n + k)
      BY <1>1
    <3>2. \A j \in 1..k : n + j \in 1..(n + k) /\ n + j > i
      BY <1>1, <2>2
    <3>3. Keeps(qs)
      BY <1>1, <2>1, <3>2
    <3>4. \A j \in DOMAIN ps : j > i => ps[j] # left
      BY <1>1, <2>1, <3>1
    <3> QED
      BY <1>1, <2>1, <2>2, <3>3, <3>4
  <2>3. CASE i \notin 1..n
    <3>1. PICK m \in 1..k : i = n + m
      BY <1>1, <1>3, <2>1, <2>3
    <3>2. \A j \in 1..k : j > m => n + j \in 1..(n + k) /\ n + j > i
      BY <1>1, <3>1
    <3>3. \A j \in DOMAIN qs : j > m => qs[j] # left
      BY <1>1, <2>1, <3>2
    <3>4. m \in DOMAIN qs /\ qs[m] = joined
      BY <1>1, <2>1, <3>1
    <3> QED
      BY <3>3, <3>4, Zenon
  <2> QED
    BY <2>2, <2>3
<1>6. ASSUME Ends(qs)
      PROVE  Ends(rs)
  <2>1. PICK m \in DOMAIN qs : qs[m] = joined /\ \A j \in DOMAIN qs : j > m => qs[j] # left
    BY <1>6
  <2>2. n + m \in DOMAIN rs /\ rs[n + m] = joined
    BY <1>1, <2>1
  <2>3. ASSUME NEW j \in DOMAIN rs, j > n + m
        PROVE  rs[j] # left
    <3>1. PICK i \in 1..k : j = n + i
      BY <1>1, <1>3, <2>1, <2>3
    <3>2. i > m
      BY <1>1, <2>1, <2>3, <3>1
    <3> QED
      BY <1>1, <2>1, <3>1, <3>2
  <2> QED
    BY <2>2, <2>3
<1>7. ASSUME Ends(ps), Keeps(qs)
      PROVE  Ends(rs)
  <2>1. PICK m \in DOMAIN ps : ps[m] = joined /\ \A j \in DOMAIN ps : j > m => ps[j] # left
    BY <1>7
  <2>2. m \in DOMAIN rs /\ rs[m] = joined
    BY <1>1, <2>1
  <2>3. ASSUME NEW j \in DOMAIN rs, j > m
        PROVE  rs[j] # left
    <3>1. j \in 1..n \/ \E i \in 1..k : j = n + i
      BY <1>1, <1>3
    <3>2. ASSUME NEW i \in 1..k, j = n + i
          PROVE  rs[j] # left
      BY <1>1, <1>7, <3>2
    <3>3. CASE j \in 1..n
      BY <1>1, <2>1, <2>3, <3>3
    <3> QED
      BY <3>1, <3>2, <3>3
  <2> QED
    BY <2>2, <2>3
<1> HIDE DEF Ends, Keeps
<1>8. Ends(rs) <=> Ends(qs) \/ (Ends(ps) /\ Keeps(qs))
  BY <1>5, <1>6, <1>7
<1>9. r \in After(rooms, rs) <=> r \in After(After(rooms, ps), qs)
  BY <1>2, <1>4, <1>8
<1> QED
  BY <1>9 DEF rs

\* Packets that are no statuses change nothing.
LEMMA AfterOthers ==
    ASSUME NEW rooms \in SUBSET Rooms, NEW ps \in Seq(AllPackets),
           \A p \in Range(ps) : p.kind \notin {"joined", "left"}
    PROVE  After(rooms, ps) = rooms
<1>1. \A i \in DOMAIN ps, r \in Rooms : ps[i] # Packet("joined", r) /\ ps[i] # Packet("left", r)
  BY DEF Range, Packet
<1> QED
  BY <1>1 DEF After

-----------------------------------------------------------------------------
(* What the goroutines are about.                                          *)

\* A goroutine at work has a session, unless it serves a caller; a message is
\* in hand during its broadcast only; who writes to a websocket writes to the
\* session of that websocket, and a session knows no other.
JobInv ==
    /\ \A h \in Handlers : handler[h].pc = "idle" => /\ handler[h].session = NoSession
                                                     /\ handler[h].msg = 0
    /\ \A h \in Handlers : handler[h].msg # 0 => /\ handler[h].pc = "deliver"
                                                 /\ handler[h].msg \in DOMAIN log
    /\ \A h \in Callers : handler[h].session = NoSession
    /\ \A h \in Conns \cup Posters : handler[h].pc # "idle" => handler[h].session \in Sessions
    /\ \A c \in Conns : handler[c].pc # "idle" => handler[c].session = conn[c].session
    /\ \A s \in Sessions : wsOf[s] # NoConn => /\ conn[wsOf[s]].session = s
                                               /\ conn[wsOf[s]].pc \notin {"none", "found"}
    /\ \A h \in Handlers : handler[h].write # NoWrite =>
          /\ handler[h].write.conn \in Conns /\ handler[h].write.to \in Sessions
          /\ conn[handler[h].write.conn].pc # "none"
          /\ conn[handler[h].write.conn].session = handler[h].write.to

\* At the start nobody does anything.
LEMMA InitJobs == Init => JobInv
BY HubAssumption DEF Init, JobInv, Idle, Handlers

\* All that a step of another goroutine may change is that a clash is noticed.
Same(g) ==
    /\ handler'[g].pc = handler[g].pc /\ handler'[g].session = handler[g].session
    /\ handler'[g].room = handler[g].room /\ handler'[g].msg = handler[g].msg
    /\ handler'[g].targets = handler[g].targets
    /\ handler'[g].write.conn = handler[g].write.conn
    /\ handler'[g].write.to = handler[g].write.to
    /\ handler'[g].write.packet = handler[g].write.packet
    /\ handler'[g].write = NoWrite <=> handler[g].write = NoWrite

\* The goroutine h has gone on as in next and writes p to a connection of s.
Writes(h, s, p, next) ==
    /\ handler'[h].pc = next.pc /\ handler'[h].session = next.session
    /\ handler'[h].room = next.room /\ handler'[h].msg = next.msg
    /\ handler'[h].targets = next.targets
    /\ handler'[h].write # NoWrite
    /\ handler'[h].write.conn \in Conns
    /\ conn[handler'[h].write.conn].session = s
    /\ conn[handler'[h].write.conn].pc # "none"
    /\ handler'[h].write.to = s /\ handler'[h].write.packet = p

\* What becomes of a packet that is handed to a session: it is queued or
\* missed, or it is being written, or its writer has panicked.
Hands(h, s, p, next) ==
    /\ \A g \in Handlers \ {h} : Same(g)
    /\ queue' \in {queue, [queue EXCEPT ![s] = Append(@, p)]}
    /\ UNCHANGED <<registry, wsOf, poll, log, received, heard, view>>
    /\ \/ /\ handler'[h] = next /\ UNCHANGED <<conn, cut>>
          /\ \/ queue' = [queue EXCEPT ![s] = Append(@, p)] /\ missing' = missing
             \/ queue' = queue /\ Misses(s, p)
       \/ Writes(h, s, p, next) /\ UNCHANGED <<conn, cut, missing>>
       \/ (\E c \in Conns : conn[c].session = s) /\ Panic(h, s, p, next.msg)

\* What a goroutine may go on with.
GoesOn(h, next) ==
    /\ next \in Jobs /\ next.write = NoWrite
    /\ next.msg = handler[h].msg
    /\ \/ next = Idle
       \/ /\ next.pc # "idle" /\ handler[h].pc # "idle"
          /\ next.session = handler[h].session /\ next.room = handler[h].room
          /\ next.msg # 0 => next.pc = "deliver"
          /\ next.pc \notin {"join", "leave", "joined", "left"}

\* A write that begins, or the panic in its place.
LEMMA BeginWriteHands ==
    ASSUME TypeOK, NEW h \in Handlers, NEW c \in Conns, NEW s \in Sessions,
           NEW p \in AllPackets, NEW next \in Jobs, next.write = NoWrite,
           handler[h].write = NoWrite, conn[c].session = s, conn[c].pc # "none",
           BeginWrite(h, c, s, p, next)
    PROVE  /\ \A g \in Handlers \ {h} : Same(g)
           /\ \/ Writes(h, s, p, next) /\ UNCHANGED <<conn, cut, missing>>
              \/ (\E d \in Conns : conn[d].session = s) /\ Panic(h, s, p, next.msg)
<1> DEFINE write == [conn |-> c, to |-> s, packet |-> p, clash |-> Writers(c) # {}]
<1>1. handler \in [Handlers -> Jobs] /\ NoConn \notin Conns
  BY HubAssumption DEF TypeOK
<1>2. CASE Panic(h, s, p, next.msg)
  BY <1>1, <1>2 DEF Panic, Same
<1>3. CASE /\ handler' = [g \in Handlers |->
                            IF g = h THEN [next EXCEPT !.write = write]
                            ELSE IF g \in Writers(c) THEN [handler[g] EXCEPT !.write.clash = TRUE]
                            ELSE handler[g]]
           /\ UNCHANGED <<conn, cut, missing>>
  <2>1. ASSUME NEW g \in Handlers \ {h}
        PROVE  Same(g)
    <3>1. CASE g \in Writers(c)
      <4>1. handler'[g] = [handler[g] EXCEPT !.write.clash = TRUE]
        BY <1>3, <3>1
      <4>2. handler[g] \in Jobs /\ handler[g].write # NoWrite
        BY <1>1, <3>1 DEF Writers, NoWrite
      <4>3. handler'[g].write # NoWrite
        BY <1>1, <3>1, <4>1, <4>2 DEF Jobs, Writers, NoWrite
      <4> QED
        BY <4>1, <4>2, <4>3 DEF Same, Jobs
    <3>2. CASE g \notin Writers(c)
      <4>1. handler'[g] = handler[g]
        BY <1>3, <3>2
      <4> QED
        BY <4>1 DEF Same
    <3> QED
      BY <3>1, <3>2
  <2>2. handler'[h] = [next EXCEPT !.write = write]
    BY <1>3
  <2>3. write.conn = c /\ write.to = s /\ write.packet = p /\ write # NoWrite
    BY <1>1 DEF NoWrite
  <2> HIDE DEF write
  <2>4. Writes(h, s, p, next)
    BY <2>2, <2>3 DEF Writes, Jobs
  <2> QED
    BY <1>3, <2>1, <2>4
<1> QED
  BY <1>2, <1>3 DEF BeginWrite

\* A packet that is sent is handed over.
LEMMA SendHands ==
    ASSUME TypeOK, JobInv, NEW h \in Handlers, NEW s \in Sessions,
           NEW p \in AllPackets, NEW next \in Jobs, next.write = NoWrite,
           handler[h].write = NoWrite, Send(h, s, p, next)
    PROVE  Hands(h, s, p, next)
<1>1. queue' \in {queue, [queue EXCEPT ![s] = Append(@, p)]}
  BY DEF Send, Enqueue
<1>2. UNCHANGED <<registry, wsOf, poll, log, received, heard, view>>
  BY DEF Send
<1>3. CASE IsOpen(wsOf[s])
  <2>1. wsOf[s] \in Conns /\ conn[wsOf[s]].session = s /\ conn[wsOf[s]].pc # "none"
    BY <1>3 DEF IsOpen, TypeOK, JobInv
  <2>2. BeginWrite(h, wsOf[s], s, p, next)
    BY <1>3 DEF Send
  <2> QED
    BY <1>1, <1>2, <2>1, <2>2, BeginWriteHands DEF Hands
<1>4. CASE ~IsOpen(wsOf[s])
  <2>1. handler' = [handler EXCEPT ![h] = next] /\ UNCHANGED <<conn, cut>>
    BY <1>4 DEF Send
  <2>2. handler'[h] = next /\ \A g \in Handlers \ {h} : handler'[g] = handler[g]
    BY <2>1 DEF TypeOK
  <2>3. \/ queue' = [queue EXCEPT ![s] = Append(@, p)] /\ missing' = missing
        \/ queue' = queue /\ Misses(s, p)
    <3>1. Len(queue[s]) \in Nat /\ QueueCap \in Nat /\ Len(queue[s]) <= QueueCap
      BY HubAssumption DEF TypeOK
    <3>2. CASE Len(queue[s]) < QueueCap
      <4>1. Len(queue[s]) # QueueCap
        BY <3>1, <3>2
      <4> QED
        BY <1>4, <3>2, <4>1 DEF Send, Enqueue
    <3>3. CASE ~(Len(queue[s]) < QueueCap)
      <4>1. Len(queue[s]) = QueueCap
        BY <3>1, <3>3
      <4> QED
        BY <1>4, <3>3, <4>1 DEF Send, Enqueue
    <3> QED
      BY <3>2, <3>3
  <2>4. \A g \in Handlers \ {h} : Same(g)
    BY <2>2 DEF Same
  <2> QED
    BY <1>1, <1>2, <2>1, <2>2, <2>3, <2>4 DEF Hands
<1> QED
  BY <1>3, <1>4

\* Which packet a goroutine hands to which session at a step.
Gives(h, s, p, next) ==
    \/ /\ handler[h].pc \in {"joined", "left"} /\ s = handler[h].session
       /\ p = Packet(handler[h].pc, handler[h].room)
    \/ /\ handler[h].pc \in {"greet", "test", "invalid", "engine"} /\ s = handler[h].session
       /\ p.kind = "notice"
    \/ /\ handler[h].pc = "deliver" /\ s \in handler[h].targets
       /\ next = [handler[h] EXCEPT !.targets = @ \ {s}]
       /\ p.kind \in {"notice", "message"}
       /\ handler[h].msg = 0 => p.kind = "notice"
       /\ handler[h].msg # 0 => p = Packet("message", handler[h].msg)

Hand(h) == EmitToSession(h) \/ Acknowledge(h) \/ DeliverOne(h)

\* emitToSession, the acknowledgement and the body of Broadcast do nothing
\* but to hand a packet to a session.
LEMMA HandHands ==
    ASSUME TypeInv, AgreeInv, JobInv, NEW h \in Handlers, Hand(h)
    PROVE  \E s \in Sessions, p \in AllPackets, next \in Jobs :
              /\ Hands(h, s, p, next) /\ GoesOn(h, next) /\ Gives(h, s, p, next)
              /\ handler[h].write = NoWrite
<1>1. handler[h] \in Jobs /\ handler[h].write = NoWrite /\ TypeOK
  BY DEF TypeInv, TypeOK, Hand, EmitToSession, Acknowledge, DeliverOne, At
<1> DEFINE t == handler[h].session
           r == handler[h].room
<1>2. CASE DeliverOne(h)
  <2> DEFINE p == IF handler[h].msg = 0 THEN Packet("notice", r) ELSE Packet("message", handler[h].msg)
  <2>1. PICK s \in handler[h].targets : Send(h, s, p, [handler[h] EXCEPT !.targets = @ \ {s}])
    BY <1>2 DEF DeliverOne
  <2> DEFINE next == [handler[h] EXCEPT !.targets = @ \ {s}]
  <2>2. p \in AllPackets /\ p.kind \in {"notice", "message"}
    BY <1>1 DEF Jobs, Packet, AllPackets
  <2>3. next \in Jobs /\ s \in Sessions /\ next.write = NoWrite
    BY <1>1 DEF Jobs
  <2>4. GoesOn(h, next)
    BY <1>1, <1>2, <2>3 DEF GoesOn, Jobs, DeliverOne, At
  <2>5. Gives(h, s, p, next)
    BY <1>2, <2>2 DEF Gives, DeliverOne, At, Packet
  <2>6. Send(h, s, p, next)
    BY <2>1
  <2> HIDE DEF next, p
  <2>7. Hands(h, s, p, next)
    BY <1>1, <2>2, <2>3, <2>6, SendHands
  <2> QED
    BY <1>1, <2>2, <2>3, <2>4, <2>5, <2>7
<1>3. ASSUME EmitToSession(h) \/ Acknowledge(h)
      PROVE  /\ t \in Sessions /\ r \in Rooms /\ handler[h].pc # "idle" /\ handler[h].msg = 0
             /\ \A kind \in {"joined", "notice", "left"} : Packet(kind, r) \in AllPackets
  <2>1. handler[h].pc \in {"joined", "greet", "left", "test", "invalid", "engine"}
    BY <1>3 DEF EmitToSession, Acknowledge, At
  <2> QED
    BY <1>1, <2>1 DEF TypeInv, WorkInv, PacketSteps, JobInv, Packet, AllPackets, Jobs
<1>4. Idle \in Jobs /\ Idle.write = NoWrite /\ Idle.msg = 0
  BY IdleJob DEF Idle
<1>5. ASSUME EmitToSession(h) \/ Acknowledge(h)
      PROVE  GoesOn(h, Idle)
  BY <1>3, <1>4, <1>5 DEF GoesOn
<1>6. CASE EmitToSession(h)
  <2>1. ASSUME NEW step \in {"greet", "announce", "message"}
        PROVE  GoesOn(h, Goto(h, step)) /\ Goto(h, step) \in Jobs /\ Goto(h, step).write = NoWrite
    BY <1>1, <1>3, <1>6 DEF GoesOn, Goto, Jobs, Steps
  <2>2. PICK kind \in {"joined", "notice", "left"}, next \in {Goto(h, "greet"), Goto(h, "announce"), Goto(h, "message"), Idle} :
           /\ Send(h, t, Packet(kind, r), next)
           /\ \/ handler[h].pc \in {"joined", "left"} /\ kind = handler[h].pc
              \/ handler[h].pc \in {"greet", "test", "invalid"} /\ kind = "notice"
    BY <1>6 DEF EmitToSession, At
  <2>3. next \in Jobs /\ next.write = NoWrite /\ GoesOn(h, next)
    BY <1>4, <1>5, <1>6, <2>1
  <2>4. Gives(h, t, Packet(kind, r), next)
    BY <2>2 DEF Gives, Packet
  <2>5. Hands(h, t, Packet(kind, r), next)
    BY <1>1, <1>3, <1>6, <2>2, <2>3, SendHands
  <2> QED
    BY <1>1, <1>3, <1>6, <2>3, <2>4, <2>5
<1>7. CASE Acknowledge(h)
  <2> DEFINE p == Packet("notice", r)
  <2>1. p \in AllPackets /\ p.kind = "notice" /\ handler[h].pc = "engine"
    BY <1>3, <1>7 DEF Packet, Acknowledge, At
  <2>2. Gives(h, t, p, Idle)
    BY <2>1 DEF Gives
  <2>3. Hands(h, t, p, Idle)
    <3>1. UNCHANGED <<registry, wsOf, poll, log, received, heard, view>>
      BY <1>7 DEF Acknowledge
    <3>2. CASE h \in Conns
      <4>1. BeginWrite(h, h, t, p, Idle) /\ queue' = queue
        BY <1>7, <3>2 DEF Acknowledge
      <4>2. conn[h].session = t /\ conn[h].pc # "none"
        <5>1. conn[h].session = t
          BY <1>3, <1>7, <3>2 DEF JobInv
        <5>2. conn[h].pc # "none"
          BY <1>3, <1>7, <3>2 DEF AgreeInv, ReaderInv, At
        <5> QED
          BY <5>1, <5>2
      <4> QED
        BY <1>1, <1>3, <1>4, <1>7, <2>1, <3>1, <3>2, <4>1, <4>2, BeginWriteHands DEF Hands
    <3>3. CASE h \notin Conns
      <4>1. /\ Enqueue(t, p)
            /\ handler' = [handler EXCEPT ![h] = Idle] /\ UNCHANGED <<conn, cut>>
            /\ IF Len(queue[t]) = QueueCap THEN Misses(t, p) ELSE missing' = missing
        BY <1>7, <3>3 DEF Acknowledge
      <4>2. handler'[h] = Idle /\ \A g \in Handlers \ {h} : handler'[g] = handler[g]
        BY <1>1, <4>1 DEF TypeOK
      <4>3. Len(queue[t]) \in Nat /\ QueueCap \in Nat /\ Len(queue[t]) <= QueueCap
        BY <1>1, <1>3, <1>7, HubAssumption DEF TypeOK
      <4>4. Len(queue[t]) < QueueCap \/ Len(queue[t]) = QueueCap
        BY <4>3
      <4>5. \/ queue' = [queue EXCEPT ![t] = Append(@, p)] /\ missing' = missing
            \/ queue' = queue /\ Misses(t, p)
        BY <4>1, <4>3, <4>4 DEF Enqueue
      <4>6. \A g \in Handlers \ {h} : Same(g)
        BY <4>2 DEF Same
      <4> QED
        BY <3>1, <4>1, <4>2, <4>5, <4>6 DEF Hands
    <3> QED
      BY <3>2, <3>3
  <2> QED
    BY <1>1, <1>3, <1>4, <1>5, <1>7, <2>1, <2>2, <2>3
<1> QED
  BY <1>2, <1>6, <1>7 DEF Hand

\* What keeps JobInv about the websockets: a connection that was found keeps
\* its session.
Stays(c) == /\ conn'[c].session = conn[c].session
            /\ conn'[c].pc = "none" <=> conn[c].pc = "none"
            /\ conn'[c].pc = "found" => conn[c].pc = "found"

\* A packet that is handed over keeps what the goroutines are about.
LEMMA HandJobs ==
    ASSUME TypeInv, AgreeInv, JobInv, NEW h \in Handlers, Hand(h)
    PROVE  JobInv'
<1>1. PICK s \in Sessions, p \in AllPackets, next \in Jobs :
         Hands(h, s, p, next) /\ GoesOn(h, next) /\ handler[h].write = NoWrite
  BY HandHands
<1>2. \A g \in Handlers \ {h} : Same(g)
  BY <1>1 DEF Hands
<1>3. /\ conn \in [Conns -> Conn] /\ NoConn \notin Conns
      /\ \A c \in Conns : c \in Handlers /\ c \notin Callers
      /\ \A c \in Callers : c \in Handlers
      /\ \A c \in Posters : c \in Handlers /\ c \notin Callers
  BY HubAssumption DEF TypeInv, TypeOK, Conn, Handlers
<1>4. /\ Idle.pc = "idle" /\ Idle.session = NoSession /\ Idle.msg = 0 /\ Idle.write = NoWrite
  BY DEF Idle
<1>5. \A c \in Conns : Stays(c)
  <2>1. conn' = conn \/ conn' = IF h \in Conns THEN [conn EXCEPT ![h].pc = "closing"] ELSE conn
    BY <1>1 DEF Hands, Panic
  <2>2. h \in Conns => conn[h].pc = "open"
    <3>1. handler[h].pc # "idle"
      BY DEF Hand, EmitToSession, Acknowledge, DeliverOne, At
    <3> QED
      BY <3>1 DEF AgreeInv, ReaderInv, At
  <2> QED
    BY <1>3, <2>1, <2>2 DEF Stays, Conn
<1>6. \/ handler'[h] = Idle
      \/ /\ next.pc # "idle" /\ handler[h].pc # "idle"
         /\ handler'[h].pc = next.pc /\ handler'[h].session = handler[h].session
         /\ handler'[h].msg = handler[h].msg /\ (handler[h].msg # 0 => next.pc = "deliver")
         /\ \/ handler'[h].write = NoWrite
            \/ Writes(h, s, p, next)
      \/ next = Idle /\ Writes(h, s, p, next)
  BY <1>1 DEF Hands, GoesOn, Writes, Panic, TypeInv, TypeOK
<1>7. UNCHANGED <<wsOf, log>>
  BY <1>1 DEF Hands
<1>8. /\ \A g \in Handlers : handler'[g].pc = "idle" => handler'[g].session = NoSession /\ handler'[g].msg = 0
      /\ \A g \in Handlers : handler'[g].msg # 0 => handler'[g].pc = "deliver" /\ handler'[g].msg \in DOMAIN log
      /\ \A g \in Callers : handler'[g].session = NoSession
      /\ \A g \in Conns \cup Posters : handler'[g].pc # "idle" => handler'[g].session \in Sessions
  BY <1>2, <1>3, <1>4, <1>6 DEF JobInv, Same, Writes
<1>9. \A c \in Conns : handler'[c].pc # "idle" => handler'[c].session = conn'[c].session
  BY <1>2, <1>3, <1>4, <1>5, <1>6 DEF JobInv, Same, Writes, Stays
<1>10. \A t \in Sessions : wsOf[t] # NoConn => /\ conn'[wsOf[t]].session = t
                                               /\ conn'[wsOf[t]].pc \notin {"none", "found"}
  BY <1>5 DEF JobInv, Stays, TypeInv, TypeOK
<1>11. \A g \in Handlers : handler'[g].write # NoWrite =>
          /\ handler'[g].write.conn \in Conns /\ handler'[g].write.to \in Sessions
          /\ conn'[handler'[g].write.conn].pc # "none"
          /\ conn'[handler'[g].write.conn].session = handler'[g].write.to
  <2> TAKE g \in Handlers
  <2>1. CASE g # h
    BY <1>2, <1>5, <2>1 DEF JobInv, Same, Stays
  <2>2. CASE g = h
    BY <1>4, <1>5, <1>6, <2>2 DEF Writes, Stays
  <2> QED
    BY <2>1, <2>2
<1> QED
  BY <1>7, <1>8, <1>9, <1>10, <1>11 DEF JobInv

\* So do the other steps of a goroutine at work.
LEMMA WorkJobs ==
    ASSUME TypeInv, AgreeInv, JobInv, NEW h \in Handlers,
           JoinRoom(h) \/ LeaveRoom(h) \/ StartBroadcast(h) \/ EndBroadcast(h) \/ EndWrite(h)
    PROVE  JobInv'
<1>1. /\ conn \in [Conns -> Conn] /\ handler \in [Handlers -> Jobs] /\ NoConn \notin Conns
      /\ \A c \in Conns : c \in Handlers /\ c \notin Callers
      /\ \A c \in Callers : c \in Handlers
      /\ \A c \in Posters : c \in Handlers /\ c \notin Callers
  BY HubAssumption DEF TypeInv, TypeOK, Conn, Handlers
<1>2. \A g \in Handlers \ {h} : handler'[g] = handler[g]
  BY <1>1 DEF JoinRoom, LeaveRoom, StartBroadcast, EndBroadcast, EndWrite, Panic
<1>3. wsOf' = wsOf
  BY DEF JoinRoom, LeaveRoom, StartBroadcast, EndBroadcast, EndWrite
<1>4. Len(log) \in Nat /\ DOMAIN log = 1..Len(log)
  BY DEF TypeInv, TypeOK
<1>5. /\ \A m \in DOMAIN log : m \in DOMAIN log'
      /\ log' = log \/ Len(log) + 1 \in DOMAIN log'
  <2>1. CASE log' = log
    BY <2>1
  <2>2. CASE StartBroadcast(h) /\ log' # log
    <3>1. PICK e : log' = Append(log, e)
      BY <2>2 DEF StartBroadcast
    <3>2. DOMAIN log' = 1..(Len(log) + 1)
      BY <1>4, <3>1 DEF TypeInv, TypeOK
    <3> QED
      BY <1>4, <3>2
  <2> QED
    BY <2>1, <2>2 DEF JoinRoom, LeaveRoom, EndBroadcast, EndWrite
<1>6. /\ Idle.pc = "idle" /\ Idle.session = NoSession /\ Idle.msg = 0 /\ Idle.write = NoWrite
  BY DEF Idle
<1>7. \A c \in Conns : Stays(c)
  <2>1. conn' = conn \/ (h \in Conns /\ conn' = [conn EXCEPT ![h].pc = "closing"] /\ EndWrite(h))
    BY DEF JoinRoom, LeaveRoom, StartBroadcast, EndBroadcast, EndWrite, Panic
  <2>2. h \in Conns /\ EndWrite(h) => conn[h].pc = "open"
    BY DEF AgreeInv, ReaderInv, At, EndWrite
  <2> QED
    BY <1>1, <2>1, <2>2 DEF Stays, Conn
<1>8. \/ handler'[h] = Idle
      \/ /\ handler'[h].pc = "idle" <=> handler[h].pc = "idle"
         /\ handler'[h].session = handler[h].session
         /\ \/ handler'[h].msg = 0
            \/ handler'[h].pc = "deliver" /\ handler'[h].msg \in DOMAIN log'
         /\ handler'[h].write = NoWrite
         /\ handler'[h].pc = "idle" => handler'[h].msg = 0
  <2>1. CASE JoinRoom(h) \/ LeaveRoom(h)
    <3>1. PICK step \in {"joined", "left"} : handler' = [handler EXCEPT ![h].pc = step]
      BY <2>1 DEF JoinRoom, LeaveRoom
    <3>2. handler[h].pc \in {"join", "leave"} /\ handler[h].write = NoWrite /\ handler[h].msg = 0
      BY <2>1 DEF JoinRoom, LeaveRoom, At, JobInv
    <3> QED
      BY <1>1, <3>1, <3>2 DEF Jobs
  <2>2. CASE StartBroadcast(h)
    <3>1. handler[h].pc \in {"announce", "message"} /\ handler[h].write = NoWrite
      BY <2>2 DEF StartBroadcast, At
    <3>2. /\ handler'[h].pc = "deliver" /\ handler'[h].session = handler[h].session
          /\ handler'[h].write = NoWrite
          /\ handler'[h].msg = IF At(h, "message") THEN Len(log) + 1 ELSE 0
      BY <1>1, <2>2, <3>1 DEF StartBroadcast, Jobs
    <3>3. At(h, "message") => Len(log) + 1 \in DOMAIN log'
      <4>1. At(h, "message") => log' = Append(log, [author |-> Author(h), audience |-> members[handler[h].room]])
        BY <2>2 DEF StartBroadcast, At
      <4>2. \A e : DOMAIN Append(log, e) = 1..(Len(log) + 1)
        BY <1>4 DEF TypeInv, TypeOK
      <4>3. Len(log) + 1 \in 1..(Len(log) + 1)
        BY <1>4
      <4> QED
        BY <4>1, <4>2, <4>3
    <3> QED
      BY <3>1, <3>2, <3>3
  <2>3. CASE EndBroadcast(h)
    BY <1>1, <2>3 DEF EndBroadcast
  <2>4. CASE EndWrite(h)
    <3>1. CASE handler' = [handler EXCEPT ![h].write = NoWrite]
      <4>1. handler'[h].pc = handler[h].pc /\ handler'[h].session = handler[h].session
            /\ handler'[h].msg = handler[h].msg /\ handler'[h].write = NoWrite
        BY <1>1, <3>1 DEF Jobs
      <4> QED
        BY <1>5, <4>1 DEF JobInv
    <3>2. CASE handler' = [handler EXCEPT ![h] = Idle]
      BY <1>1, <3>2
    <3> QED
      BY <2>4, <3>1, <3>2 DEF EndWrite, Panic
  <2> QED
    BY <2>1, <2>2, <2>3, <2>4
<1>9. /\ \A g \in Handlers : handler'[g].pc = "idle" => handler'[g].session = NoSession /\ handler'[g].msg = 0
      /\ \A g \in Handlers : handler'[g].msg # 0 => handler'[g].pc = "deliver" /\ handler'[g].msg \in DOMAIN log'
      /\ \A g \in Callers : handler'[g].session = NoSession
      /\ \A g \in Conns \cup Posters : handler'[g].pc # "idle" => handler'[g].session \in Sessions
  BY <1>1, <1>2, <1>5, <1>6, <1>8 DEF JobInv
<1>10. \A c \in Conns : handler'[c].pc # "idle" => handler'[c].session = conn'[c].session
  BY <1>1, <1>2, <1>6, <1>7, <1>8 DEF JobInv, Stays
<1>11. \A t \in Sessions : wsOf[t] # NoConn => /\ conn'[wsOf[t]].session = t
                                               /\ conn'[wsOf[t]].pc \notin {"none", "found"}
  BY <1>7 DEF JobInv, Stays, TypeInv, TypeOK
<1>12. \A g \in Handlers : handler'[g].write # NoWrite =>
          /\ handler'[g].write.conn \in Conns /\ handler'[g].write.to \in Sessions
          /\ conn'[handler'[g].write.conn].pc # "none"
          /\ conn'[handler'[g].write.conn].session = handler'[g].write.to
  BY <1>2, <1>6, <1>7, <1>8 DEF JobInv, Stays
<1> QED
  BY <1>3, <1>9, <1>10, <1>11, <1>12 DEF JobInv

\* So do connections that are found, opened and closed.
LEMMA SocketJobs ==
    ASSUME TypeInv, AgreeInv, JobInv, NEW c \in Conns,
           (\E s \in Sessions : FindSession(c, s)) \/ OpenSocket(c) \/ RemoveSession(c)
    PROVE  JobInv'
<1>1. /\ conn \in [Conns -> Conn] /\ handler \in [Handlers -> Jobs]
      /\ wsOf \in [Sessions -> Conns \cup {NoConn}]
      /\ NoConn \notin Conns /\ c \in Handlers /\ c \notin Callers
      /\ \A d \in Conns : d \in Handlers
  BY HubAssumption DEF TypeInv, TypeOK, Conn, Handlers
<1>2. log' = log
  BY DEF FindSession, OpenSocket, RemoveSession
<1>3. ASSUME NEW s \in Sessions, FindSession(c, s)
      PROVE  JobInv'
  <2>1. UNCHANGED <<handler, wsOf>> /\ conn[c].pc = "none" /\ \A d \in Conns \ {c} : conn'[d] = conn[d]
    BY <1>1, <1>3 DEF FindSession
  <2>2. handler[c].pc = "idle"
    BY <2>1 DEF AgreeInv, ReaderInv, At
  <2>3. \A t \in Sessions : wsOf[t] # NoConn => wsOf[t] \in Conns \ {c}
    BY <1>1, <2>1 DEF JobInv
  <2>4. \A h \in Handlers : handler[h].write # NoWrite => handler[h].write.conn \in Conns \ {c}
    BY <2>1 DEF JobInv
  <2> QED
    BY <1>2, <2>1, <2>2, <2>3, <2>4 DEF JobInv
<1>4. CASE OpenSocket(c)
  <2> DEFINE s == conn[c].session
             write == [NoWrite EXCEPT !.conn = c, !.to = s]
  <2>1. s \in Sessions
    BY <1>4 DEF OpenSocket, AgreeInv, FreshInv
  <2>2. \A d \in Conns : Stays(d)
    BY <1>1, <1>4 DEF OpenSocket, Stays, Conn
  <2>3. conn'[c].session = s /\ conn'[c].pc = "open"
    BY <1>1, <1>4 DEF OpenSocket, Conn
  <2>4. wsOf'[s] = c /\ \A t \in Sessions : t # s => wsOf'[t] = wsOf[t]
    BY <1>1, <1>4, <2>1 DEF OpenSocket
  <2>5. write.conn = c /\ write.to = s
    BY DEF NoWrite
  <2>6. handler' = [handler EXCEPT ![c].write = write]
    BY <1>4 DEF OpenSocket
  <2> HIDE DEF write
  <2>7. /\ handler'[c].write = write
        /\ \A g \in Handlers : /\ handler'[g].pc = handler[g].pc /\ handler'[g].session = handler[g].session
                               /\ handler'[g].msg = handler[g].msg
                               /\ g # c => handler'[g].write = handler[g].write
    BY <1>1, <2>6 DEF Jobs
  <2>8. /\ \A h \in Handlers : handler'[h].pc = "idle" => handler'[h].session = NoSession /\ handler'[h].msg = 0
        /\ \A h \in Handlers : handler'[h].msg # 0 => handler'[h].pc = "deliver" /\ handler'[h].msg \in DOMAIN log'
        /\ \A h \in Callers : handler'[h].session = NoSession
        /\ \A h \in Conns \cup Posters : handler'[h].pc # "idle" => handler'[h].session \in Sessions
    BY <1>2, <2>7 DEF JobInv, Handlers
  <2>9. \A d \in Conns : handler'[d].pc # "idle" => handler'[d].session = conn'[d].session
    BY <1>1, <2>2, <2>7 DEF JobInv, Stays
  <2>10. \A t \in Sessions : wsOf'[t] # NoConn => /\ conn'[wsOf'[t]].session = t
                                                  /\ conn'[wsOf'[t]].pc \notin {"none", "found"}
    <3> TAKE t \in Sessions
    <3>1. CASE t = s
      BY <2>3, <2>4, <3>1
    <3>2. CASE t # s
      BY <1>1, <2>2, <2>4, <3>2 DEF JobInv, Stays
    <3> QED
      BY <3>1, <3>2
  <2>11. \A h \in Handlers : handler'[h].write # NoWrite =>
            /\ handler'[h].write.conn \in Conns /\ handler'[h].write.to \in Sessions
            /\ conn'[handler'[h].write.conn].pc # "none"
            /\ conn'[handler'[h].write.conn].session = handler'[h].write.to
    <3> TAKE h \in Handlers
    <3>1. CASE h = c
      BY <2>1, <2>3, <2>5, <2>7, <3>1
    <3>2. CASE h # c
      BY <2>2, <2>7, <3>2 DEF JobInv, Stays
    <3> QED
      BY <3>1, <3>2
  <2> QED
    BY <2>8, <2>9, <2>10, <2>11 DEF JobInv
<1>5. CASE RemoveSession(c)
  <2>1. UNCHANGED <<handler, wsOf>>
    BY <1>5 DEF RemoveSession
  <2>2. \A d \in Conns : Stays(d)
    BY <1>1, <1>5 DEF RemoveSession, Stays, Conn
  <2>3. \A t \in Sessions : wsOf[t] # NoConn => /\ conn'[wsOf[t]].session = t
                                                /\ conn'[wsOf[t]].pc \notin {"none", "found"}
    BY <1>1, <2>2 DEF JobInv, Stays
  <2> QED
    BY <1>2, <2>1, <2>2, <2>3 DEF JobInv, Stays
<1> QED
  BY <1>3, <1>4, <1>5

\* A packet or a message that comes in finds an idle goroutine.
LEMMA ArrivalJobs ==
    ASSUME TypeInv, AgreeInv, JobInv, NEW h \in Handlers, NEW r \in Rooms,
           \/ \E s \in Sessions, k \in Packets : Receive(h, s, k, r)
           \/ BroadcastMessage(h, r)
    PROVE  JobInv'
<1>1. /\ handler \in [Handlers -> Jobs]
      /\ \A c \in Conns : c \in Handlers /\ c \notin Callers /\ c \notin Posters
      /\ \A c \in Posters : c \in Handlers /\ c \notin Callers
      /\ \A c \in Callers : c \in Handlers /\ c \notin Posters /\ c \notin Conns
  BY HubAssumption DEF TypeInv, TypeOK, Handlers
<1>2. UNCHANGED <<wsOf, conn, log>>
  BY DEF Receive, BroadcastMessage
<1>3. handler[h].pc = "idle" /\ handler[h].msg = 0 /\ handler[h].session = NoSession
  BY DEF Receive, BroadcastMessage, At, JobInv
<1>4. ASSUME NEW s \in Sessions, NEW k \in Packets, Receive(h, s, k, r)
      PROVE  JobInv'
  <2>1. /\ handler'[h].pc = k /\ handler'[h].session = s
        /\ handler'[h].msg = 0 /\ handler'[h].write = handler[h].write
        /\ \A g \in Handlers \ {h} : handler'[g] = handler[g]
    BY <1>1, <1>3, <1>4 DEF Receive, Jobs
  <2>2. k # "idle"
    BY HubAssumption
  <2>3. h \notin Callers /\ (h \in Conns => conn[h].session = s)
    <3>1. h \in Conns /\ conn[h] = [pc |-> "open", session |-> s] => conn[h].session = s
      OBVIOUS
    <3> QED
      BY <1>1, <1>4, <3>1 DEF Receive, Reads
  <2> QED
    BY <1>1, <1>2, <2>1, <2>2, <2>3 DEF JobInv
<1>5. CASE BroadcastMessage(h, r)
  <2>1. /\ handler'[h].pc = "message" /\ handler'[h].session = NoSession
        /\ handler'[h].msg = 0 /\ handler'[h].write = handler[h].write
        /\ \A g \in Handlers \ {h} : handler'[g] = handler[g]
        /\ h \in Callers
    BY <1>1, <1>3, <1>5 DEF BroadcastMessage, Jobs
  <2> QED
    BY <1>1, <1>2, <2>1 DEF JobInv
<1> QED
  BY <1>4, <1>5

\* Every step keeps what the goroutines are about.
LEMMA JobsStep == TypeInv /\ AgreeInv /\ JobInv /\ [Next]_vars => JobInv'
<1> SUFFICES ASSUME TypeInv, AgreeInv, JobInv, [Next]_vars
             PROVE  JobInv'
  OBVIOUS
<1>1. ASSUME NEW s \in Sessions, NewSession(s) \/ Polling(s) \/ AbortPoll(s)
      PROVE  JobInv'
  <2>1. UNCHANGED <<handler, conn, wsOf, log>>
    BY <1>1 DEF NewSession, Polling, Poll, DrainOne, Respond, RespondToNobody, AbortPoll
  <2> QED
    BY <2>1 DEF JobInv
<1>2. ASSUME NEW h \in Handlers, Work(h)
      PROVE  JobInv'
  BY <1>2, HandJobs, WorkJobs DEF Work, Hand
<1>3. CASE UNCHANGED vars
  BY <1>3 DEF vars, JobInv
<1>4. ASSUME NEW h \in Handlers, NEW s \in Sessions, NEW k \in Packets, NEW r \in Rooms,
             Receive(h, s, k, r)
      PROVE  JobInv'
  BY <1>4, ArrivalJobs
<1>5. ASSUME NEW h \in Handlers, NEW r \in Rooms, BroadcastMessage(h, r)
      PROVE  JobInv'
  BY <1>5, ArrivalJobs
<1> QED
  BY <1>1, <1>2, <1>3, <1>4, <1>5, SocketJobs DEF Next

-----------------------------------------------------------------------------
(* What the clients have got.                                              *)

HistoryInv ==
    /\ received \in [Sessions -> Seq(Args)] /\ heard \in [Sessions -> Seq(Args)]
    /\ missing \in [Sessions -> SUBSET AllPackets] /\ view \in [Sessions -> SUBSET Rooms]

\* At the start they have got nothing.
LEMMA InitHistory == Init => HistoryInv
BY DEF Init, HistoryInv

\* What a packet leaves in missing are packets.
LEMMA MissesTyped ==
    ASSUME HistoryInv, NEW s \in Sessions, NEW p \in AllPackets, Misses(s, p)
    PROVE  missing' \in [Sessions -> SUBSET AllPackets]
BY DEF HistoryInv, Misses

\* Two sequences make one.
LEMMA ArgsOfBoth == \A xs, ys \in Seq(Args) : xs \o ys \in Seq(Args)
OBVIOUS

\* The histories keep their types.
LEMMA HistoryStep == TypeInv /\ AgreeInv /\ JobInv /\ HistoryInv /\ [Next]_vars => HistoryInv'
<1> SUFFICES ASSUME TypeInv, AgreeInv, JobInv, HistoryInv, [Next]_vars
             PROVE  HistoryInv'
  OBVIOUS
<1>1. CASE UNCHANGED client
  BY <1>1 DEF client, HistoryInv
<1>2. ASSUME NEW s \in Sessions, Respond(s)
      PROVE  HistoryInv'
  <2>1. poll[s].batch \in Seq(AllPackets)
    BY DEF TypeInv, TypeOK
  <2>2. Messages(poll[s].batch) \in Seq(Args)
    BY <2>1, MessagesTyped
  <2>3. received[s] \o Messages(poll[s].batch) \in Seq(Args)
    BY <2>2, ArgsOfBoth, Zenon DEF HistoryInv
  <2>4. After(view[s], poll[s].batch) \in SUBSET Rooms
    BY DEF After
  <2> QED
    BY <1>2, <2>3, <2>4 DEF Respond, HistoryInv
<1>3. ASSUME NEW s \in Sessions, RespondToNobody(s)
      PROVE  HistoryInv'
  <2>1. Range(poll[s].batch) \subseteq AllPackets
    BY DEF TypeInv, TypeOK, Range
  <2> QED
    BY <1>3, <2>1 DEF RespondToNobody, HistoryInv
<1>4. ASSUME NEW h \in Handlers, Hand(h)
      PROVE  HistoryInv'
  <2>1. PICK s \in Sessions, p \in AllPackets, next \in Jobs : Hands(h, s, p, next)
    BY <1>4, HandHands
  <2>2. missing' = missing \/ Misses(s, p)
    BY <2>1 DEF Hands, Panic
  <2> QED
    BY <2>1, <2>2, MissesTyped DEF Hands, HistoryInv
<1>5. ASSUME NEW h \in Handlers, EndWrite(h)
      PROVE  HistoryInv'
  <2> DEFINE w == handler[h].write
  <2>1. w # NoWrite /\ w.to \in Sessions /\ w.packet \in AllPackets
    BY <1>5 DEF EndWrite, JobInv, TypeInv, TypeOK, Jobs
  <2>2. <<w.packet>> \in Seq(AllPackets)
    BY <2>1
  <2>3. Messages(<<w.packet>>) \in Seq(Args)
    BY <2>2, MessagesTyped
  <2>4. heard[w.to] \o Messages(<<w.packet>>) \in Seq(Args)
    BY <2>1, <2>3, ArgsOfBoth, Zenon DEF HistoryInv
  <2>5. After(view[w.to], <<w.packet>>) \in SUBSET Rooms
    BY DEF After
  <2>6. received' = received
    BY <1>5 DEF EndWrite
  <2>7. \/ /\ heard' = [heard EXCEPT ![w.to] = @ \o Messages(<<w.packet>>)]
           /\ view' = [view EXCEPT ![w.to] = After(@, <<w.packet>>)]
           /\ missing' = missing
        \/ Misses(w.to, w.packet) /\ UNCHANGED <<heard, view>>
    BY <1>5 DEF EndWrite, Panic
  <2> HIDE DEF w
  <2> QED
    BY <2>1, <2>4, <2>5, <2>6, <2>7, MissesTyped DEF HistoryInv
<1>6. ASSUME NEW s \in Sessions, NewSession(s) \/ Poll(s) \/ DrainOne(s) \/ AbortPoll(s)
      PROVE  HistoryInv'
  BY <1>1, <1>6 DEF NewSession, Poll, DrainOne, AbortPoll
<1>7. ASSUME NEW c \in Conns,
             (\E s \in Sessions : FindSession(c, s)) \/ OpenSocket(c) \/ RemoveSession(c)
      PROVE  HistoryInv'
  BY <1>1, <1>7 DEF FindSession, OpenSocket, RemoveSession
<1>8. ASSUME NEW h \in Handlers, NEW r \in Rooms,
             (\E s \in Sessions, k \in Packets : Receive(h, s, k, r)) \/ BroadcastMessage(h, r)
      PROVE  HistoryInv'
  BY <1>1, <1>8 DEF Receive, BroadcastMessage
<1>9. ASSUME NEW h \in Handlers,
             JoinRoom(h) \/ LeaveRoom(h) \/ StartBroadcast(h) \/ EndBroadcast(h)
      PROVE  HistoryInv'
  BY <1>1, <1>9 DEF JoinRoom, LeaveRoom, StartBroadcast, EndBroadcast
<1>10. ASSUME NEW h \in Handlers, Work(h)
       PROVE  HistoryInv'
  BY <1>4, <1>5, <1>9, <1>10 DEF Work, Hand
<1> QED
  BY <1>1, <1>2, <1>3, <1>6, <1>7, <1>8, <1>10 DEF Next, Polling, vars, client

\* The types of all variables, who is where, and what the goroutines are about.
BaseInv == TypeInv /\ AgreeInv /\ JobInv /\ HistoryInv

\* They hold in every state.
LEMMA Base == Spec => []BaseInv
<1>1. Init => BaseInv
  BY InitTypeInv, InitAgrees, InitJobs, InitHistory DEF BaseInv
<1>2. BaseInv /\ [Next]_vars => BaseInv'
  BY StepTyped, AgreementStep, JobsStep, HistoryStep DEF BaseInv
<1> QED
  BY <1>1, <1>2, PTL DEF Spec

-----------------------------------------------------------------------------
(* Nobody is left out.                                                     *)

\* The message m has got to s, is on its way, or is known to be missing.
Placed(s, m) ==
    \/ m \in Range(received[s]) \cup Range(heard[s])
    \/ Packet("message", m) \in Range(poll[s].batch) \cup Range(queue[s]) \cup missing[s]
    \/ \E h \in Handlers : /\ handler[h].write.to = s
                           /\ handler[h].write.packet = Packet("message", m)

\* A broadcast has placed its message, or has still to do it.
ServedInv ==
    \A m \in DOMAIN log \ cut : \A s \in log[m].audience :
        Placed(s, m) \/ \E h \in Handlers : handler[h].msg = m /\ s \in handler[h].targets

\* At the start nothing was broadcast.
LEMMA InitServed == Init => ServedInv
BY DEF Init, ServedInv

\* The elements of two sequences, and of one and an element more.
LEMMA RangeOfBoth ==
    ASSUME NEW S, NEW xs \in Seq(S), NEW ys \in Seq(S)
    PROVE  Range(xs \o ys) = Range(xs) \cup Range(ys)
<1> DEFINE zs == xs \o ys
           n == Len(xs)
           k == Len(ys)
<1>1. /\ n \in Nat /\ k \in Nat /\ DOMAIN xs = 1..n /\ DOMAIN ys = 1..k /\ DOMAIN zs = 1..(n + k)
      /\ \A i \in 1..n : zs[i] = xs[i]
      /\ \A i \in 1..k : zs[n + i] = ys[i]
  OBVIOUS
<1> HIDE DEF zs, n, k
<1>2. \A j \in 1..(n + k) : j \in 1..n \/ \E i \in 1..k : j = n + i
  <2> TAKE j \in 1..(n + k)
  <2>1. CASE j \notin 1..n
    <3>1. j - n \in 1..k /\ j = n + (j - n)
      BY <1>1, <2>1
    <3> QED
      BY <3>1
  <2> QED
    BY <2>1
<1>3. ASSUME NEW v \in Range(zs)
      PROVE  v \in Range(xs) \cup Range(ys)
  <2>1. PICK j \in 1..(n + k) : v = zs[j]
    BY <1>1 DEF Range
  <2>2. ASSUME NEW i \in 1..k, j = n + i
        PROVE  v \in Range(ys)
    BY <1>1, <2>1, <2>2 DEF Range
  <2>3. ASSUME j \in 1..n
        PROVE  v \in Range(xs)
    BY <1>1, <2>1, <2>3 DEF Range
  <2> QED
    BY <1>2, <2>1, <2>2, <2>3
<1>4. ASSUME NEW v \in Range(xs)
      PROVE  v \in Range(zs)
  <2>1. PICK j \in 1..n : v = xs[j]
    BY <1>1 DEF Range
  <2>2. j \in 1..(n + k)
    BY <1>1
  <2> QED
    BY <1>1, <2>1, <2>2 DEF Range
<1>5. ASSUME NEW v \in Range(ys)
      PROVE  v \in Range(zs)
  <2>1. PICK j \in 1..k : v = ys[j]
    BY <1>1 DEF Range
  <2>2. n + j \in 1..(n + k)
    BY <1>1
  <2> QED
    BY <1>1, <2>1, <2>2 DEF Range
<1> QED
  BY <1>3, <1>4, <1>5 DEF zs

\* The same for packets and for messages.
LEMMA RangeOfTwo ==
    /\ \A ps, qs \in Seq(AllPackets) : Range(ps \o qs) = Range(ps) \cup Range(qs)
    /\ \A xs, ys \in Seq(Args) : Range(xs \o ys) = Range(xs) \cup Range(ys)
BY RangeOfBoth

\* A queue with a packet more, or with its first one taken.
LEMMA RangeOfQueue ==
    /\ \A ps \in Seq(AllPackets), p \in AllPackets : Range(Append(ps, p)) = Range(ps) \cup {p}
    /\ \A ps \in Seq(AllPackets) : ps # <<>> =>
          /\ Head(ps) \in AllPackets /\ Tail(ps) \in Seq(AllPackets)
          /\ Range(ps) = {Head(ps)} \cup Range(Tail(ps))
<1>1. ASSUME NEW ps \in Seq(AllPackets), NEW p \in AllPackets
      PROVE  Range(Append(ps, p)) = Range(ps) \cup {p}
  <2>1. /\ DOMAIN Append(ps, p) = 1..(Len(ps) + 1) /\ DOMAIN ps = 1..Len(ps) /\ Len(ps) \in Nat
        /\ \A i \in 1..Len(ps) : Append(ps, p)[i] = ps[i]
        /\ Append(ps, p)[Len(ps) + 1] = p
    OBVIOUS
  <2> QED
    BY <2>1 DEF Range
<1>2. ASSUME NEW ps \in Seq(AllPackets), ps # <<>>
      PROVE  /\ Head(ps) \in AllPackets /\ Tail(ps) \in Seq(AllPackets)
             /\ Range(ps) = {Head(ps)} \cup Range(Tail(ps))
  <2>1. Head(ps) \in AllPackets /\ Tail(ps) \in Seq(AllPackets)
    BY <1>2
  <2>2. /\ DOMAIN ps = 1..Len(ps) /\ Len(ps) \in Nat \ {0}
        /\ DOMAIN Tail(ps) = 1..(Len(ps) - 1)
        /\ ps[1] = Head(ps)
        /\ \A i \in 1..(Len(ps) - 1) : Tail(ps)[i] = ps[i + 1]
    BY <1>2
  <2>3. \A i \in 1..Len(ps) : i = 1 \/ (i - 1 \in 1..(Len(ps) - 1) /\ (i - 1) + 1 = i)
    BY <2>2
  <2>4. \A i \in 1..(Len(ps) - 1) : i + 1 \in 1..Len(ps)
    BY <2>2
  <2>5. 1 \in 1..Len(ps)
    BY <2>2
  <2> DEFINE t == Tail(ps)
             n == Len(ps)
  <2> HIDE DEF t, n
  <2>6. \A v : v \in Range(ps) => v = Head(ps) \/ v \in Range(t)
    <3> SUFFICES ASSUME NEW v, v \in Range(ps), v # Head(ps)
                 PROVE  v \in Range(t)
      OBVIOUS
    <3>1. PICK i \in 1..n : v = ps[i]
      BY <2>2 DEF Range, n
    <3>2. i - 1 \in DOMAIN t /\ t[i - 1] = ps[i]
      BY <2>2, <2>3, <3>1 DEF n, t
    <3> QED
      BY <3>1, <3>2 DEF Range
  <2>7. \A v : v \in Range(t) => v \in Range(ps)
    BY <2>2, <2>4 DEF Range, n, t
  <2>8. Head(ps) \in Range(ps)
    BY <2>2, <2>5 DEF Range
  <2> QED
    BY <2>1, <2>6, <2>7, <2>8 DEF t
<1> QED
  BY <1>1, <1>2

\* A message that is placed stays placed while the queues, the polls and
\* what was got or missed do not change and no write ends.
LEMMA StaysPlaced ==
    ASSUME UNCHANGED <<received, heard, missing, poll, queue>>,
           \A g \in Handlers : /\ handler'[g].write.to = handler[g].write.to
                               /\ handler'[g].write.packet = handler[g].write.packet,
           NEW s, NEW m, Placed(s, m)
    PROVE  Placed(s, m)'
BY DEF Placed

\* The broadcasts so far are numbered, and their audiences are sessions.
LEMMA LogTyped ==
    ASSUME TypeOK
    PROVE  /\ Len(log) \in Nat /\ DOMAIN log = 1..Len(log)
           /\ \A m \in DOMAIN log : /\ m \in Nat \ {0} /\ log[m].audience \subseteq Sessions
                                   /\ log[m].author \in Callers \cup Sessions \cup {NoSession}
<1> DEFINE E == [author : Callers \cup Sessions \cup {NoSession}, audience : SUBSET Sessions]
<1>1. log \in Seq(E)
  BY DEF TypeOK
<1>2. \A entry \in E : /\ entry.audience \subseteq Sessions
                       /\ entry.author \in Callers \cup Sessions \cup {NoSession}
  OBVIOUS
<1> HIDE DEF E
<1>3. Len(log) \in Nat /\ DOMAIN log = 1..Len(log) /\ \A m \in DOMAIN log : log[m] \in E
  BY <1>1
<1>4. \A m \in 1..Len(log) : m \in Nat \ {0}
  BY <1>3
<1> QED
  BY <1>2, <1>3, <1>4

\* A packet handed to a session displaces no message, and is placed itself.
LEMMA HandsPlaced ==
    ASSUME BaseInv, NEW h \in Handlers, NEW s \in Sessions, NEW p \in AllPackets,
           NEW next \in Jobs, Hands(h, s, p, next), handler[h].write = NoWrite,
           NEW t \in Sessions, NEW m \in Nat
    PROVE  /\ Placed(t, m) => Placed(t, m)'
           /\ p = Packet("message", m) => Placed(s, m)'
<1> DEFINE P == Packet("message", m)
<1>1. /\ queue \in [Sessions -> Seq(AllPackets)] /\ missing \in [Sessions -> SUBSET AllPackets]
  BY DEF BaseInv, TypeInv, TypeOK, HistoryInv
<1>2. UNCHANGED <<received, heard, poll>>
  BY DEF Hands
<1>3. \A v \in Sessions : Range(queue[v]) \subseteq Range(queue'[v])
  <2>1. Range(Append(queue[s], p)) = Range(queue[s]) \cup {p}
    BY <1>1, RangeOfQueue
  <2>2. queue' = queue \/ queue' = [queue EXCEPT ![s] = Append(@, p)]
    BY DEF Hands
  <2>3. \A v \in Sessions : queue'[v] = queue[v] \/ (v = s /\ queue'[v] = Append(queue[s], p))
    BY <1>1, <2>2
  <2> QED
    BY <2>1, <2>3
<1>4. \A v \in Sessions : missing[v] \subseteq missing'[v]
  BY <1>1 DEF Hands, Panic, Misses
<1>5. \A g \in Handlers \ {h} : /\ handler'[g].write.to = handler[g].write.to
                                /\ handler'[g].write.packet = handler[g].write.packet
  BY DEF Hands, Same
<1>6. handler[h].write.to \notin Sessions
  BY HubAssumption DEF NoWrite
<1>7. Placed(t, m) => Placed(t, m)'
  BY <1>2, <1>3, <1>4, <1>5, <1>6 DEF Placed
<1>8. ASSUME p = P
      PROVE  Placed(s, m)'
  <2>1. Matters(p)
    BY <1>8 DEF Matters, Packet
  <2>2. queue' = [queue EXCEPT ![s] = Append(@, p)] => p \in Range(queue'[s])
    BY <1>1, RangeOfQueue
  <2>3. Misses(s, p) => p \in missing'[s]
    BY <1>1, <2>1 DEF Misses
  <2>4. Writes(h, s, p, next) => handler'[h].write.to = s /\ handler'[h].write.packet = p
    BY DEF Writes
  <2>5. p \in Range(queue'[s]) \/ p \in missing'[s] \/ Writes(h, s, p, next)
    BY <2>2, <2>3 DEF Hands, Panic
  <2> HIDE DEF P
  <2> QED
    BY <1>8, <2>4, <2>5 DEF Placed, P
<1> QED
  BY <1>7, <1>8

\* A packet handed over keeps everybody served.
LEMMA HandServes ==
    ASSUME BaseInv, ServedInv, NEW h \in Handlers, Hand(h)
    PROVE  ServedInv'
<1>1. PICK s \in Sessions, p \in AllPackets, next \in Jobs :
         /\ Hands(h, s, p, next) /\ GoesOn(h, next) /\ Gives(h, s, p, next)
         /\ handler[h].write = NoWrite
  BY HandHands DEF BaseInv
<1>2. log' = log /\ cut \subseteq cut' /\ handler \in [Handlers -> Jobs]
  BY <1>1 DEF Hands, Panic, BaseInv, TypeInv, TypeOK
<1> SUFFICES ASSUME NEW m \in DOMAIN log \ cut', NEW t \in log[m].audience
             PROVE  \/ Placed(t, m)'
                    \/ \E g \in Handlers : handler'[g].msg = m /\ t \in handler'[g].targets
  BY <1>2 DEF ServedInv
<1>3. m \in Nat \ {0} /\ t \in Sessions
  BY LogTyped DEF BaseInv, TypeInv
<1>4. CASE Placed(t, m)
  BY <1>1, <1>3, <1>4, HandsPlaced
<1>5. ASSUME NEW g \in Handlers, handler[g].msg = m, t \in handler[g].targets
      PROVE  \/ Placed(t, m)'
             \/ \E f \in Handlers : handler'[f].msg = m /\ t \in handler'[f].targets
  <2>1. CASE g # h
    BY <1>1, <1>5, <2>1 DEF Hands, Same
  <2>2. CASE g = h /\ t = s
    <3>1. p = Packet("message", m)
      BY <1>1, <1>3, <1>5, <2>2 DEF Gives, BaseInv, JobInv
    <3> QED
      BY <1>1, <1>3, <2>2, <3>1, HandsPlaced
  <2>3. CASE g = h /\ t # s
    <3>1. handler[h].pc = "deliver"
      BY <1>3, <1>5, <2>3 DEF BaseInv, JobInv
    <3>2. next.msg = m /\ t \in next.targets
      BY <1>1, <1>2, <1>5, <2>3, <3>1 DEF Gives, Jobs
    <3>3. ~Panic(h, s, p, next.msg)
      BY <1>3, <3>2 DEF Panic
    <3>4. handler'[h].msg = m /\ t \in handler'[h].targets
      BY <1>1, <3>2, <3>3 DEF Hands, Writes
    <3> QED
      BY <3>4
  <2> QED
    BY <2>1, <2>2, <2>3
<1> QED
  BY <1>2, <1>4, <1>5 DEF ServedInv

\* The start of a broadcast, its end, and the end of a write.
LEMMA BroadcastServes ==
    ASSUME BaseInv, ServedInv, NEW h \in Handlers,
           StartBroadcast(h) \/ EndBroadcast(h) \/ EndWrite(h)
    PROVE  ServedInv'
<1>1. /\ handler \in [Handlers -> Jobs] /\ missing \in [Sessions -> SUBSET AllPackets]
      /\ heard \in [Sessions -> Seq(Args)] /\ Idle.msg = 0
      /\ \A m \in DOMAIN log : m \in Nat \ {0} /\ log[m].audience \subseteq Sessions
  BY LogTyped DEF BaseInv, TypeInv, TypeOK, HistoryInv, Idle
<1>2. CASE StartBroadcast(h)
  <2>1. UNCHANGED <<received, heard, missing, poll, queue, cut>>
    BY <1>2 DEF StartBroadcast, client
  <2>2. \A g \in Handlers : handler'[g].write = handler[g].write
    BY <1>1, <1>2 DEF StartBroadcast, Jobs
  <2>3. /\ handler[h].msg = 0
        /\ \A g \in Handlers \ {h} : handler'[g] = handler[g]
    BY <1>1, <1>2 DEF StartBroadcast, At, BaseInv, JobInv
  <2> DEFINE entry == [author |-> Author(h), audience |-> members[handler[h].room]]
             k == Len(log) + 1
  <2>4. /\ k \in Nat
        /\ \/ log' = log
           \/ /\ log' = Append(log, entry) /\ At(h, "message")
              /\ handler'[h].msg = k /\ handler'[h].targets = members[handler[h].room]
    BY <1>1, <1>2 DEF StartBroadcast, BaseInv, TypeInv, TypeOK, Jobs
  <2>5. \A m \in DOMAIN log' : \/ m \in DOMAIN log /\ log'[m] = log[m]
                               \/ log' = Append(log, entry) /\ m = k /\ log'[m] = entry
    <3>1. \A m \in DOMAIN Append(log, entry) : \/ m \in DOMAIN log /\ Append(log, entry)[m] = log[m]
                                               \/ m = k /\ Append(log, entry)[m] = entry
      <4>1. /\ DOMAIN log = 1..Len(log) /\ DOMAIN Append(log, entry) = 1..k /\ Len(log) \in Nat
            /\ \A i \in 1..Len(log) : Append(log, entry)[i] = log[i]
            /\ Append(log, entry)[k] = entry
        BY DEF BaseInv, TypeInv, TypeOK
      <4> HIDE DEF entry
      <4> QED
        BY <4>1
    <3>2. CASE log' = log
      BY <3>2
    <3>3. CASE log' = Append(log, entry)
      BY <3>1, <3>3
    <3> HIDE DEF entry, k
    <3> QED
      BY <2>4, <3>2, <3>3
  <2>6. ASSUME NEW m \in DOMAIN log \ cut, NEW s \in log[m].audience
        PROVE  \/ Placed(s, m)'
               \/ \E g \in Handlers : handler'[g].msg = m /\ s \in handler'[g].targets
    <3>1. CASE Placed(s, m)
      BY <2>1, <2>2, <3>1, StaysPlaced
    <3>2. ASSUME NEW g \in Handlers, handler[g].msg = m, s \in handler[g].targets
          PROVE  \E f \in Handlers : handler'[f].msg = m /\ s \in handler'[f].targets
      BY <1>1, <2>3, <3>2
    <3> QED
      BY <3>1, <3>2 DEF ServedInv
  <2>7. ASSUME NEW m \in DOMAIN log' \ cut', NEW s \in log'[m].audience
        PROVE  \/ Placed(s, m)'
               \/ \E g \in Handlers : handler'[g].msg = m /\ s \in handler'[g].targets
    <3>1. CASE m \in DOMAIN log /\ log'[m] = log[m]
      BY <2>1, <2>6, <2>7, <3>1
    <3>2. CASE log' = Append(log, entry) /\ m = k /\ log'[m] = entry
      <4>1. log' # log
        BY <1>1, <3>2 DEF BaseInv, TypeInv, TypeOK
      <4> QED
        BY <2>4, <2>7, <3>2, <4>1
    <3> HIDE DEF entry, k
    <3> QED
      BY <2>5, <2>7, <3>1, <3>2
  <2> QED
    BY <2>7 DEF ServedInv
<1>3. CASE EndBroadcast(h)
  <2>1. UNCHANGED <<received, heard, missing, poll, queue, cut, log>>
    BY <1>3 DEF EndBroadcast, client
  <2>2. /\ handler[h].write = NoWrite /\ handler[h].targets = {} /\ handler'[h] = Idle
        /\ \A g \in Handlers \ {h} : handler'[g] = handler[g]
    BY <1>1, <1>3 DEF EndBroadcast, At
  <2>3. \A g \in Handlers : handler'[g].write = handler[g].write
    BY <2>2, IdleJob
  <2>4. \A s, m : Placed(s, m) => Placed(s, m)'
    BY <2>1, <2>3, StaysPlaced
  <2>5. \A g \in Handlers : \A s, m : handler[g].msg = m /\ s \in handler[g].targets =>
           handler'[g].msg = m /\ s \in handler'[g].targets
    BY <2>2
  <2> QED
    BY <2>1, <2>4, <2>5 DEF ServedInv
<1>4. CASE EndWrite(h)
  <2> DEFINE w == handler[h].write
  <2>1. UNCHANGED <<received, poll, queue, log>> /\ w # NoWrite /\ w.to \in Sessions /\ w.packet \in AllPackets
    BY <1>1, <1>4 DEF EndWrite, Jobs, BaseInv, JobInv
  <2>2. \A g \in Handlers \ {h} : handler'[g] = handler[g]
    BY <1>1, <1>4 DEF EndWrite, Panic
  <2> DEFINE Hears == heard' = [heard EXCEPT ![w.to] = @ \o Messages(<<w.packet>>)]
             Goes == /\ handler'[h].msg = handler[h].msg /\ handler'[h].targets = handler[h].targets
                     /\ cut' = cut
  <2>3. \/ Hears /\ missing' = missing /\ Goes
        \/ heard' = heard /\ Misses(w.to, w.packet) /\ Goes
        \/ /\ heard' = heard /\ Misses(w.to, w.packet)
           /\ cut' = IF handler[h].msg = 0 THEN cut ELSE cut \cup {handler[h].msg}
    <3>1. CASE handler' = [handler EXCEPT ![h].write = NoWrite] /\ cut' = cut
      <4>1. Goes
        BY <1>1, <3>1
      <4>2. \/ Hears /\ missing' = missing
            \/ heard' = heard /\ Misses(w.to, w.packet)
            \/ heard' = heard /\ Panic(h, w.to, w.packet, handler[h].msg)
        BY <1>4 DEF EndWrite
      <4> HIDE DEF Hears, Goes, w
      <4>3. ASSUME Panic(h, w.to, w.packet, handler[h].msg)
            PROVE  Misses(w.to, w.packet)
        BY <4>3 DEF Panic
      <4> QED
        BY <4>1, <4>2, <4>3
    <3>2. CASE Panic(h, w.to, w.packet, handler[h].msg) /\ heard' = heard
      BY <3>2 DEF Panic
    <3>3. \/ handler' = [handler EXCEPT ![h].write = NoWrite] /\ cut' = cut
          \/ Panic(h, w.to, w.packet, handler[h].msg) /\ heard' = heard
      BY <1>4 DEF EndWrite
    <3> QED
      BY <3>1, <3>2, <3>3
  <2>4. <<w.packet>> \in Seq(AllPackets) /\ Range(<<w.packet>>) = {w.packet}
    BY <2>1 DEF Range
  <2>5. Messages(<<w.packet>>) \in Seq(Args)
    BY <2>4, MessagesTyped
  <2>6. Range(heard[w.to] \o Messages(<<w.packet>>)) =
           Range(heard[w.to]) \cup Range(Messages(<<w.packet>>))
    BY <1>1, <2>1, <2>5, RangeOfTwo, Zenon
  <2>7. /\ \A s \in Sessions : Range(heard[s]) \subseteq Range(heard'[s])
        /\ \A s \in Sessions : missing[s] \subseteq missing'[s]
    <3>1. \A s \in Sessions : Range(heard[s]) \subseteq Range(heard'[s])
      <4>1. CASE Hears
        BY <1>1, <2>1, <2>6, <4>1
      <4>2. CASE heard' = heard
        BY <4>2
      <4> HIDE DEF Hears, Goes, w
      <4> QED
        BY <2>3, <4>1, <4>2
    <3>2. \A s \in Sessions : missing[s] \subseteq missing'[s]
      <4>1. ASSUME Misses(w.to, w.packet)
            PROVE  \A s \in Sessions : missing[s] \subseteq missing'[s]
        BY <1>1, <2>1, <4>1 DEF Misses
      <4> HIDE DEF Hears, Goes, w
      <4> QED
        BY <2>3, <4>1
    <3> QED
      BY <3>1, <3>2
  <2>8. ASSUME NEW m \in Nat, NEW v \in Sessions, v = w.to, w.packet = Packet("message", m)
        PROVE  Placed(v, m)'
    <3>1. Matters(w.packet)
      BY <2>8 DEF Matters, Packet
    <3>2. m \in Range(Messages(<<w.packet>>))
      BY <2>4, <2>8, MessagesCarry
    <3>3. m \in Range(heard'[v]) \/ w.packet \in missing'[v]
      <4>1. ASSUME Hears
            PROVE  m \in Range(heard'[v])
        BY <1>1, <2>1, <2>6, <2>8, <3>2, <4>1
      <4>2. ASSUME Misses(w.to, w.packet)
            PROVE  w.packet \in missing'[v]
        BY <1>1, <2>1, <2>8, <3>1, <4>2 DEF Misses
      <4> HIDE DEF Hears, Goes, w
      <4> QED
        BY <2>3, <4>1, <4>2
    <3>4. m \in Range(heard'[v]) \/ Packet("message", m) \in missing'[v]
      BY <2>8, <3>3
    <3> QED
      BY <3>4 DEF Placed
  <2> HIDE DEF w
  <2>9. ASSUME NEW m \in Nat, NEW s \in Sessions, Placed(s, m)
        PROVE  Placed(s, m)'
    <3>1. CASE /\ handler[h].write.to = s
               /\ handler[h].write.packet = Packet("message", m)
      BY <2>8, <3>1 DEF w
    <3>2. CASE ~(/\ handler[h].write.to = s
                 /\ handler[h].write.packet = Packet("message", m))
      BY <2>1, <2>2, <2>7, <2>9, <3>2 DEF Placed
    <3> QED
      BY <3>1, <3>2
  <2>10. ASSUME NEW m \in DOMAIN log \ cut', NEW s \in log[m].audience
         PROVE  \/ Placed(s, m)'
                \/ \E g \in Handlers : handler'[g].msg = m /\ s \in handler'[g].targets
    <3>1. m \in DOMAIN log \ cut /\ m \in Nat \ {0} /\ s \in Sessions
      BY <1>1, <2>3
    <3>2. ASSUME NEW g \in Handlers, handler[g].msg = m, s \in handler[g].targets
          PROVE  handler'[g].msg = m /\ s \in handler'[g].targets
      BY <2>2, <2>3, <2>10, <3>1, <3>2
    <3> QED
      BY <2>9, <3>1, <3>2 DEF ServedInv
  <2> QED
    BY <2>1, <2>10 DEF ServedInv
<1> QED
  BY <1>2, <1>3, <1>4

\* As long as what is placed stays placed, the other steps serve.
LEMMA OthersServe ==
    ASSUME BaseInv, ServedInv, UNCHANGED <<log, cut>>,
           \A s \in Sessions, m \in Nat : Placed(s, m) => Placed(s, m)',
           \A g \in Handlers : /\ handler'[g].msg = handler[g].msg
                               /\ handler'[g].targets = handler[g].targets
    PROVE  ServedInv'
<1> SUFFICES ASSUME NEW m \in DOMAIN log \ cut, NEW s \in log[m].audience
             PROVE  \/ Placed(s, m)'
                    \/ \E g \in Handlers : handler'[g].msg = m /\ s \in handler'[g].targets
  BY DEF ServedInv
<1>1. m \in Nat /\ s \in Sessions
  BY LogTyped DEF BaseInv, TypeInv
<1>2. Placed(s, m) \/ \E g \in Handlers : handler[g].msg = m /\ s \in handler[g].targets
  BY DEF ServedInv
<1> QED
  BY <1>1, <1>2

\* The registry, the requests that arrive and the websockets that are opened
\* and closed touch neither a queue nor a broadcast.
LEMMA QuietServes ==
    ASSUME BaseInv, ServedInv, UNCHANGED <<received, heard, missing, poll, queue, log, cut>>,
           \A g \in Handlers :
              /\ handler'[g].msg = handler[g].msg /\ handler'[g].targets = handler[g].targets
              /\ handler[g].write # NoWrite => handler'[g].write = handler[g].write
    PROVE  ServedInv'
<1>1. ASSUME NEW s \in Sessions, NEW m \in Nat, Placed(s, m)
      PROVE  Placed(s, m)'
  <2>1. \A g \in Handlers : handler[g].write.to = s => handler'[g].write = handler[g].write
    BY HubAssumption DEF NoWrite
  <2> QED
    BY <1>1, <2>1 DEF Placed
<1> QED
  BY <1>1, OthersServe

\* A poll moves packets from the queue to the batch and to the client.
LEMMA PollingServes ==
    ASSUME BaseInv, ServedInv, NEW s \in Sessions, Polling(s) \/ AbortPoll(s)
    PROVE  ServedInv'
<1>1. UNCHANGED <<heard, handler, log, cut>>
  BY DEF Polling, Poll, DrainOne, Respond, RespondToNobody, AbortPoll, client
<1>2. /\ queue \in [Sessions -> Seq(AllPackets)] /\ received \in [Sessions -> Seq(Args)]
      /\ poll \in [Sessions -> [on : BOOLEAN, aborted : BOOLEAN, batch : Seq(AllPackets)]]
      /\ missing \in [Sessions -> SUBSET AllPackets]
  BY DEF BaseInv, TypeInv, TypeOK, HistoryInv
<1>3. poll[s].batch \in Seq(AllPackets) /\ queue[s] \in Seq(AllPackets)
  BY <1>2
<1>4. \A t \in Sessions \ {s} : /\ poll'[t] = poll[t] /\ queue'[t] = queue[t]
                                /\ received'[t] = received[t] /\ missing'[t] = missing[t]
  BY <1>2 DEF Polling, Poll, DrainOne, Respond, RespondToNobody, AbortPoll, client
<1> DEFINE Kept(m) == \/ m \in Range(received[s])
                      \/ Packet("message", m) \in Range(poll[s].batch) \cup Range(queue[s]) \cup missing[s]
           KeptNow(m) == \/ m \in Range(received'[s])
                         \/ Packet("message", m) \in Range(poll'[s].batch) \cup Range(queue'[s]) \cup missing'[s]
<1>5. ASSUME NEW m \in Nat, Kept(m)
      PROVE  KeptNow(m)
  <2> DEFINE p == Packet("message", m)
  <2>1. CASE Poll(s) \/ AbortPoll(s)
    <3>1. poll'[s].batch = poll[s].batch /\ UNCHANGED <<received, queue, missing>>
      BY <1>2, <2>1 DEF Poll, AbortPoll, client
    <3> QED
      BY <1>5, <3>1
  <2>2. CASE DrainOne(s)
    <3>1. /\ poll'[s].batch = Append(poll[s].batch, Head(queue[s])) /\ queue'[s] = Tail(queue[s])
          /\ UNCHANGED <<received, missing>> /\ queue[s] # <<>>
      BY <1>2, <2>2 DEF DrainOne, client
    <3>2. /\ Head(queue[s]) \in AllPackets
          /\ Range(queue[s]) = {Head(queue[s])} \cup Range(Tail(queue[s]))
      BY <1>3, <3>1, RangeOfQueue, Zenon
    <3>3. Range(poll'[s].batch) = Range(poll[s].batch) \cup {Head(queue[s])}
      BY <1>3, <3>1, <3>2, RangeOfQueue
    <3> QED
      BY <1>5, <3>1, <3>2, <3>3
  <2>3. CASE Respond(s)
    <3>1. /\ received'[s] = received[s] \o Messages(poll[s].batch)
          /\ UNCHANGED <<queue, missing>>
      BY <1>2, <2>3 DEF Respond
    <3>2. Messages(poll[s].batch) \in Seq(Args) /\ received[s] \in Seq(Args)
      BY <1>2, <1>3, MessagesTyped
    <3>3. Range(received'[s]) = Range(received[s]) \cup Range(Messages(poll[s].batch))
      <4>1. Range(received[s] \o Messages(poll[s].batch)) =
               Range(received[s]) \cup Range(Messages(poll[s].batch))
        BY <3>2, RangeOfTwo, Zenon
      <4> QED
        BY <3>1, <4>1
    <3>4. p \in Range(poll[s].batch) => m \in Range(Messages(poll[s].batch))
      BY <1>3, MessagesCarry
    <3> HIDE DEF p
    <3>5. m \in Range(received[s]) \/ p \in Range(poll[s].batch) \cup Range(queue[s]) \cup missing[s]
      BY <1>5 DEF p
    <3>6. m \in Range(received'[s]) \/ p \in Range(poll'[s].batch) \cup Range(queue'[s]) \cup missing'[s]
      BY <3>1, <3>3, <3>4, <3>5
    <3> QED
      BY <3>6 DEF p
  <2>4. CASE RespondToNobody(s)
    <3>1. /\ missing'[s] = missing[s] \cup {q \in Range(poll[s].batch) : Matters(q)}
          /\ UNCHANGED <<queue, received>>
      BY <1>2, <2>4 DEF RespondToNobody
    <3>2. Matters(p)
      BY DEF Matters, Packet
    <3> HIDE DEF p
    <3>5. m \in Range(received[s]) \/ p \in Range(poll[s].batch) \cup Range(queue[s]) \cup missing[s]
      BY <1>5 DEF p
    <3>6. m \in Range(received'[s]) \/ p \in Range(poll'[s].batch) \cup Range(queue'[s]) \cup missing'[s]
      BY <3>1, <3>2, <3>5
    <3> QED
      BY <3>6 DEF p
  <2> QED
    BY <2>1, <2>2, <2>3, <2>4 DEF Polling
<1>6. ASSUME NEW t \in Sessions, NEW m \in Nat, Placed(t, m)
      PROVE  Placed(t, m)'
  <2>1. CASE t = s
    <3>1. Placed(s, m) => \/ Kept(m) \/ m \in Range(heard[s])
                          \/ \E h \in Handlers : /\ handler[h].write.to = s
                                                 /\ handler[h].write.packet = Packet("message", m)
      BY DEF Placed
    <3>2. KeptNow(m) => Placed(s, m)'
      BY DEF Placed
    <3>3. \/ m \in Range(heard[s])
          \/ \E h \in Handlers : /\ handler[h].write.to = s
                                 /\ handler[h].write.packet = Packet("message", m)
          => Placed(s, m)'
      BY <1>1 DEF Placed
    <3> HIDE DEF Kept, KeptNow
    <3> QED
      BY <1>5, <1>6, <2>1, <3>1, <3>2, <3>3
  <2>2. CASE t # s
    BY <1>1, <1>4, <1>6, <2>2 DEF Placed
  <2> QED
    BY <2>1, <2>2
<1> QED
  BY <1>1, <1>6, OthersServe

\* Every step serves.
LEMMA ServedStep == BaseInv /\ ServedInv /\ [Next]_vars => ServedInv'
<1> SUFFICES ASSUME BaseInv, ServedInv, [Next]_vars
             PROVE  ServedInv'
  OBVIOUS
<1>1. handler \in [Handlers -> Jobs] /\ Conns \subseteq Handlers
  BY DEF BaseInv, TypeInv, TypeOK, Handlers
<1>2. CASE UNCHANGED vars
  BY <1>2, QuietServes DEF vars, client
<1>3. ASSUME NEW s \in Sessions, NewSession(s) \/ Polling(s) \/ AbortPoll(s)
      PROVE  ServedInv'
  <2>1. CASE NewSession(s)
    <3>1. UNCHANGED <<handler, received, heard, missing, poll, queue, log, cut>>
      BY <2>1 DEF NewSession, client
    <3> QED
      BY <3>1, QuietServes
  <2> QED
    BY <1>3, <2>1, PollingServes
<1>4. ASSUME NEW c \in Conns, (\E s \in Sessions : FindSession(c, s)) \/ RemoveSession(c)
      PROVE  ServedInv'
  <2>1. UNCHANGED <<handler, received, heard, missing, poll, queue, log, cut>>
    BY <1>4 DEF FindSession, RemoveSession, client
  <2> QED
    BY <2>1, QuietServes
<1>5. ASSUME NEW c \in Conns, OpenSocket(c)
      PROVE  ServedInv'
  <2>1. UNCHANGED <<received, heard, missing, poll, queue, log, cut>>
    BY <1>5 DEF OpenSocket, client
  <2>2. handler[c].write = NoWrite
    BY <1>5 DEF OpenSocket, BaseInv, AgreeInv, ReaderInv, At
  <2>3. \A g \in Handlers : /\ handler'[g].msg = handler[g].msg /\ handler'[g].targets = handler[g].targets
                            /\ g # c => handler'[g] = handler[g]
    BY <1>1, <1>5 DEF OpenSocket
  <2> QED
    BY <2>1, <2>2, <2>3, QuietServes
<1>6. ASSUME NEW h \in Handlers,
             \/ \E s \in Sessions, k \in Packets, r \in Rooms : Receive(h, s, k, r)
             \/ \E r \in Rooms : BroadcastMessage(h, r)
             \/ JoinRoom(h) \/ LeaveRoom(h)
      PROVE  ServedInv'
  <2>1. UNCHANGED <<received, heard, missing, poll, queue, log, cut>>
    BY <1>6 DEF Receive, BroadcastMessage, JoinRoom, LeaveRoom, client
  <2>2. \A g \in Handlers : /\ handler'[g].msg = handler[g].msg
                            /\ handler'[g].targets = handler[g].targets
                            /\ handler'[g].write = handler[g].write
    <3>1. CASE \E s \in Sessions, k \in Packets, r \in Rooms : Receive(h, s, k, r)
      BY <1>1, <3>1 DEF Receive
    <3>2. CASE \E r \in Rooms : BroadcastMessage(h, r)
      BY <1>1, <3>2 DEF BroadcastMessage
    <3>3. CASE JoinRoom(h) \/ LeaveRoom(h)
      <4>1. PICK step \in Steps : handler' = [handler EXCEPT ![h].pc = step]
        BY <3>3 DEF JoinRoom, LeaveRoom, Steps
      <4>2. handler'[h] = [handler[h] EXCEPT !.pc = step] /\ handler[h] \in Jobs
        BY <1>1, <4>1
      <4>3. \A g \in Handlers : g # h => handler'[g] = handler[g]
        BY <1>1, <4>1
      <4>4. /\ handler'[h].msg = handler[h].msg /\ handler'[h].targets = handler[h].targets
            /\ handler'[h].write = handler[h].write
        BY <4>2 DEF Jobs
      <4> QED
        BY <4>3, <4>4
    <3> QED
      BY <1>6, <3>1, <3>2, <3>3
  <2> QED
    BY <2>1, <2>2, QuietServes
<1>7. ASSUME NEW h \in Handlers, Work(h)
      PROVE  ServedInv'
  BY <1>6, <1>7, HandServes, BroadcastServes DEF Work, Hand
<1> QED
  BY <1>2, <1>3, <1>4, <1>5, <1>6, <1>7 DEF Next

\* When a broadcast is over, every member of the room has got the message or
\* has it waiting, or it is known to be missing: Broadcast passes over nobody
\* it has read as a member, and no queue, poll or websocket loses a message
\* but in the ways the code has.
THEOREM Served == Spec => []MembersServed
<1>1. Init => ServedInv
  BY InitServed
<1>2. BaseInv /\ ServedInv /\ [Next]_vars => ServedInv'
  BY ServedStep
<1>3. BaseInv /\ ServedInv => MembersServed
  <2> SUFFICES ASSUME BaseInv, ServedInv, NEW m \in DOMAIN log \ cut,
                      \A h \in Handlers : handler[h].msg # m, NEW s \in log[m].audience
               PROVE  \/ m \in Range(received[s] \o heard[s] \o Unread(s))
                      \/ Packet("message", m) \in missing[s] \cup Writing(s)
    BY DEF MembersServed
  <2>1. m \in Nat /\ s \in Sessions
    BY LogTyped DEF BaseInv, TypeInv
  <2>2. Placed(s, m)
    BY DEF ServedInv
  <2> DEFINE ps == poll[s].batch \o queue[s]
  <2>3. /\ poll[s].batch \in Seq(AllPackets) /\ queue[s] \in Seq(AllPackets)
        /\ received[s] \in Seq(Args) /\ heard[s] \in Seq(Args)
    BY <2>1 DEF BaseInv, TypeInv, TypeOK, HistoryInv
  <2>4. ps \in Seq(AllPackets) /\ Range(ps) = Range(poll[s].batch) \cup Range(queue[s])
    BY <2>3, RangeOfTwo
  <2> HIDE DEF ps
  <2>5. Messages(ps) \in Seq(Args) /\ (m \in Range(Messages(ps)) <=> Packet("message", m) \in Range(ps))
    BY <2>1, <2>4, MessagesTyped, MessagesCarry
  <2>6. Range(received[s] \o heard[s]) = Range(received[s]) \cup Range(heard[s])
    BY <2>3, RangeOfTwo, Zenon
  <2>7. received[s] \o heard[s] \in Seq(Args)
    BY <2>3, ArgsOfBoth
  <2>8. Range((received[s] \o heard[s]) \o Messages(ps)) =
           Range(received[s] \o heard[s]) \cup Range(Messages(ps))
    BY <2>5, <2>7, RangeOfTwo, Zenon
  <2>9. Unread(s) = Messages(ps)
    BY DEF Unread, ps
  <2>10. ASSUME NEW h \in Handlers, handler[h].write.to = s,
                handler[h].write.packet = Packet("message", m)
         PROVE  Packet("message", m) \in Writing(s)
    BY <2>10 DEF Writing
  <2> QED
    BY <2>2, <2>4, <2>5, <2>6, <2>8, <2>9, <2>10 DEF Placed
<1> QED
  BY <1>1, <1>2, <1>3, Base, PTL DEF Spec

-----------------------------------------------------------------------------
(* What a polling client takes its rooms to be.                            *)

Statuses == {"joined", "left"}

\* Nothing but polls answers s, and no status for it was lost; what it will
\* have been told of r once it has read what is there for it.
PollOnly(s) == \A c \in Conns : conn[c].session # s
Untouched(s) == \A p \in missing[s] : p.kind \notin Statuses
Told(s, r) == r \in After(view[s], poll[s].batch \o queue[s])

OneWorker ==
    \A g, h \in Handlers, s \in Sessions :
        handler[g].session = s /\ handler[h].session = s /\ PollOnly(s) => g = h

\* Between joining or leaving and the status, the registry is already right.
StatusInv ==
    \A h \in Handlers : handler[h].pc \in Statuses =>
        /\ handler[h].write = NoWrite
        /\ \A s \in Sessions : handler[h].session = s /\ PollOnly(s) =>
              (handler[h].room \in roomsOf[s] <=> handler[h].pc = "joined")

\* Unless its status is about to be sent, what was told of a room is so.
ToldInv ==
    \A s \in Sessions : PollOnly(s) /\ Untouched(s) =>
        \A r \in Rooms :
            (\A h \in Handlers : handler[h].session = s /\ handler[h].room = r =>
                                    handler[h].pc \notin Statuses)
            => (Told(s, r) <=> r \in roomsOf[s])

TruthInv == OneWorker /\ StatusInv /\ ToldInv

\* At the start nobody is anywhere.
LEMMA InitTruth == Init => TruthInv
<1> SUFFICES ASSUME Init
             PROVE  TruthInv
  OBVIOUS
<1>1. \A h \in Handlers : handler[h].session = NoSession /\ handler[h].pc \notin Statuses
  BY DEF Init, Idle, Statuses
<1>2. OneWorker /\ StatusInv
  BY <1>1, HubAssumption DEF OneWorker, StatusInv
<1>3. ASSUME NEW s \in Sessions, NEW r \in Rooms
      PROVE  ~Told(s, r) /\ r \notin roomsOf[s]
  <2>1. poll[s].batch = <<>> /\ queue[s] = <<>> /\ view[s] = {} /\ roomsOf[s] = {}
    BY DEF Init, NoPoll
  <2>2. <<>> \o <<>> = <<>> /\ {} \in SUBSET Rooms
    OBVIOUS
  <2> QED
    BY <2>1, <2>2, AfterNone DEF Told
<1> QED
  BY <1>2, <1>3 DEF TruthInv, ToldInv

\* A step that changes no room, no status to be sent and nothing a polling
\* client is told.
LEMMA KeepsTelling ==
    ASSUME TruthInv, roomsOf' = roomsOf,
           \A h \in Handlers : handler'[h].session \in Sessions =>
              handler'[h].session = handler[h].session,
           \A h \in Handlers : handler'[h].pc \in Statuses =>
              /\ handler'[h].pc = handler[h].pc /\ handler'[h].room = handler[h].room
              /\ handler'[h].write = NoWrite,
           \A h \in Handlers, s \in Sessions :
              handler[h].pc \in Statuses /\ handler[h].session = s /\ PollOnly(s) =>
                 /\ handler'[h].pc = handler[h].pc /\ handler'[h].room = handler[h].room
                 /\ handler'[h].session = s,
           \A s \in Sessions : PollOnly(s)' => PollOnly(s),
           \A s \in Sessions : PollOnly(s)' /\ Untouched(s)' =>
              Untouched(s) /\ \A r \in Rooms : Told(s, r)' <=> Told(s, r)
    PROVE  TruthInv'
<1>1. OneWorker'
  BY DEF TruthInv, OneWorker
<1>2. StatusInv'
  <2> SUFFICES ASSUME NEW h \in Handlers, handler'[h].pc \in Statuses, NEW s \in Sessions,
                      handler'[h].session = s, PollOnly(s)'
               PROVE  handler'[h].room \in roomsOf'[s] <=> handler'[h].pc = "joined"
    BY DEF StatusInv
  <2> QED
    BY DEF TruthInv, StatusInv
<1>3. ToldInv'
  <2> SUFFICES ASSUME NEW s \in Sessions, PollOnly(s)', Untouched(s)', NEW r \in Rooms,
                      \A h \in Handlers : handler'[h].session = s /\ handler'[h].room = r =>
                                             handler'[h].pc \notin Statuses
               PROVE  Told(s, r)' <=> r \in roomsOf'[s]
    BY DEF ToldInv
  <2>1. \A h \in Handlers : handler[h].session = s /\ handler[h].room = r =>
                               handler[h].pc \notin Statuses
    OBVIOUS
  <2> QED
    BY <2>1 DEF TruthInv, ToldInv
<1> QED
  BY <1>1, <1>2, <1>3 DEF TruthInv

\* A connection that has a session keeps it.
LEMMA PollOnlyStays ==
    ASSUME \A c \in Conns : conn[c].session \in Sessions => conn'[c].session = conn[c].session,
           NEW s \in Sessions, PollOnly(s)'
    PROVE  PollOnly(s)
BY DEF PollOnly

\* Steps that leave the queues, the batches, the clients and the statuses
\* alone.
LEMMA QuietTells ==
    ASSUME TruthInv, roomsOf' = roomsOf,
           \A h \in Handlers : handler'[h].session \in Sessions =>
              handler'[h].session = handler[h].session,
           \A h \in Handlers : handler'[h].pc \in Statuses \/ handler[h].pc \in Statuses =>
              handler'[h] = handler[h],
           \A c \in Conns : conn[c].session \in Sessions => conn'[c].session = conn[c].session,
           UNCHANGED <<view, queue, missing>>,
           \A s \in Sessions : poll'[s].batch = poll[s].batch
    PROVE  TruthInv'
<1>1. \A s \in Sessions : PollOnly(s)' => PollOnly(s)
  BY PollOnlyStays
<1>2. \A s \in Sessions, r \in Rooms : Told(s, r)' <=> Told(s, r)
  BY DEF Told
<1>3. \A s \in Sessions : Untouched(s)' => Untouched(s)
  BY DEF Untouched
<1>4. \A h \in Handlers : handler'[h].pc \in Statuses => handler'[h].write = NoWrite
  BY DEF TruthInv, StatusInv
<1> QED
  BY <1>1, <1>2, <1>3, <1>4, KeepsTelling

\* A queue whose first packet is taken, and sequences without a packet.
LEMMA MovesOne ==
    /\ \A ps, qs \in Seq(AllPackets) :
          qs # <<>> => Append(ps, Head(qs)) \o Tail(qs) = ps \o qs
    /\ \A ps \in Seq(AllPackets) : <<>> \o ps = ps
    /\ \A ps, qs \in Seq(AllPackets), p \in AllPackets :
          ps \o Append(qs, p) = Append(ps \o qs, p)
<1>1. ASSUME NEW ps \in Seq(AllPackets), NEW qs \in Seq(AllPackets), qs # <<>>
      PROVE  Append(ps, Head(qs)) \o Tail(qs) = ps \o qs
  <2> DEFINE n == Len(ps)
             k == Len(qs)
             xs == Append(ps, Head(qs))
             ys == Tail(qs)
             l == xs \o ys
             r == ps \o qs
  <2>1. /\ xs \in Seq(AllPackets) /\ ys \in Seq(AllPackets) /\ n \in Nat /\ k \in Nat \ {0}
        /\ Len(xs) = n + 1 /\ Len(ys) = k - 1
        /\ \A i \in 1..n : xs[i] = ps[i]
        /\ xs[n + 1] = qs[1]
        /\ \A i \in 1..(k - 1) : ys[i] = qs[i + 1]
    BY <1>1
  <2>2. /\ l \in Seq(AllPackets) /\ Len(l) = n + 1 + (k - 1)
        /\ \A i \in 1..(n + 1) : l[i] = xs[i]
        /\ \A i \in 1..(k - 1) : l[n + 1 + i] = ys[i]
    BY <2>1
  <2>3. /\ r \in Seq(AllPackets) /\ Len(r) = n + k
        /\ \A i \in 1..n : r[i] = ps[i]
        /\ \A i \in 1..k : r[n + i] = qs[i]
    BY <2>1
  <2> HIDE DEF l, r, xs, ys, n, k
  <2>4. Len(l) = n + k /\ DOMAIN l = 1..(n + k) /\ DOMAIN r = 1..(n + k)
    BY <2>1, <2>2, <2>3
  <2>5. ASSUME NEW i \in 1..(n + k)
        PROVE  l[i] = r[i]
    <3>1. CASE i \in 1..n
      BY <2>1, <2>2, <2>3, <3>1
    <3>2. CASE i = n + 1
      BY <2>1, <2>2, <2>3, <3>2
    <3>3. CASE i > n + 1
      <4>1. PICK j \in 1..(k - 1) : /\ i = n + 1 + j
                                    /\ j + 1 \in 1..k /\ i = n + (j + 1)
        <5>1. /\ i - n - 1 \in 1..(k - 1) /\ i = n + 1 + (i - n - 1)
              /\ (i - n - 1) + 1 \in 1..k /\ i = n + ((i - n - 1) + 1)
          BY <2>1, <3>3
        <5> QED
          BY <5>1
      <4>2. l[i] = ys[j] /\ ys[j] = qs[j + 1]
        BY <2>1, <2>2, <4>1
      <4>3. r[i] = qs[j + 1]
        BY <2>3, <4>1
      <4> QED
        BY <4>2, <4>3
    <3>4. i \in 1..n \/ i = n + 1 \/ i > n + 1
      BY <2>1
    <3> QED
      BY <3>1, <3>2, <3>3, <3>4
  <2>6. l = r
    BY <2>2, <2>3, <2>4, <2>5
  <2> QED
    BY <2>6 DEF l, r, xs, ys
<1>2. ASSUME NEW ps \in Seq(AllPackets)
      PROVE  <<>> \o ps = ps
  OBVIOUS
<1>3. ASSUME NEW ps \in Seq(AllPackets), NEW qs \in Seq(AllPackets), NEW p \in AllPackets
      PROVE  ps \o Append(qs, p) = Append(ps \o qs, p)
  OBVIOUS
<1> QED
  BY <1>1, <1>2, <1>3

\* What is on its way to s, and what s takes to be so, are well typed.
LEMMA TellingTyped ==
    ASSUME BaseInv, NEW s \in Sessions
    PROVE  /\ poll[s].batch \in Seq(AllPackets) /\ queue[s] \in Seq(AllPackets)
           /\ poll[s].batch \o queue[s] \in Seq(AllPackets)
           /\ view[s] \in SUBSET Rooms /\ missing[s] \in SUBSET AllPackets
<1>1. /\ poll[s].batch \in Seq(AllPackets) /\ queue[s] \in Seq(AllPackets)
      /\ view[s] \in SUBSET Rooms /\ missing[s] \in SUBSET AllPackets
  BY DEF BaseInv, TypeInv, TypeOK, HistoryInv
<1> QED
  BY <1>1

\* A status or another packet is handed to a session.
LEMMA HandTells ==
    ASSUME BaseInv, TruthInv, NEW h \in Handlers, Hand(h)
    PROVE  TruthInv'
<1>1. PICK s \in Sessions, p \in AllPackets, next \in Jobs :
         /\ Hands(h, s, p, next) /\ GoesOn(h, next) /\ Gives(h, s, p, next)
         /\ handler[h].write = NoWrite
  BY HandHands DEF BaseInv
<1>2. /\ conn \in [Conns -> Conn] /\ queue \in [Sessions -> Seq(AllPackets)]
      /\ missing \in [Sessions -> SUBSET AllPackets] /\ view \in [Sessions -> SUBSET Rooms]
      /\ handler \in [Handlers -> Jobs] /\ Conns \subseteq Handlers
  BY DEF BaseInv, TypeInv, TypeOK, HistoryInv, Conn, Handlers
<1>3. /\ \A g \in Handlers \ {h} : Same(g)
      /\ UNCHANGED <<roomsOf, poll, view>>
      /\ queue' \in {queue, [queue EXCEPT ![s] = Append(@, p)]}
  BY <1>1 DEF Hands, registry
<1>4. /\ handler'[h].session \in {handler[h].session, NoSession}
      /\ handler'[h].pc \notin Statuses
  <2>1. next.session \in {handler[h].session, NoSession} /\ next.pc \notin Statuses
    BY <1>1 DEF GoesOn, Idle, Statuses
  <2>2. handler'[h] = next \/ Writes(h, s, p, next) \/ handler'[h] = Idle
    BY <1>1, <1>2 DEF Hands, Panic
  <2>3. Idle.session = NoSession /\ Idle.pc \notin Statuses
    BY DEF Idle, Statuses
  <2> QED
    BY <2>1, <2>2, <2>3 DEF Writes
<1>5. \A v \in Sessions : PollOnly(v)' => PollOnly(v)
  <2>1. conn' = conn \/ (h \in Conns /\ conn' = [conn EXCEPT ![h].pc = "closing"])
    BY <1>1 DEF Hands, Panic
  <2>2. \A c \in Conns : conn'[c].session = conn[c].session
    <3>1. ASSUME h \in Conns, conn' = [conn EXCEPT ![h].pc = "closing"], NEW c \in Conns
          PROVE  conn'[c].session = conn[c].session
      <4>1. conn[c] \in Conn /\ conn'[c] \in {conn[c], [conn[c] EXCEPT !.pc = "closing"]}
        BY <1>2, <3>1
      <4> QED
        BY <4>1 DEF Conn
    <3> QED
      BY <2>1, <3>1
  <2> QED
    BY <2>2, PollOnlyStays
<1>6. \A v \in Sessions : missing[v] \subseteq missing'[v]
  <2>1. missing' = missing \/ Misses(s, p)
    BY <1>1 DEF Hands, Panic
  <2> QED
    BY <1>2, <2>1 DEF Misses
<1>7. \A v \in Sessions \ {s} : queue'[v] = queue[v]
  BY <1>2, <1>3
<1>8. ASSUME PollOnly(s)
      PROVE  \/ queue'[s] = Append(queue[s], p)
             \/ queue'[s] = queue[s] /\ Misses(s, p)
  BY <1>1, <1>2, <1>8 DEF Hands, Writes, PollOnly
<1>9. \A f, g \in Handlers, v \in Sessions :
         handler'[f].session = v /\ handler'[g].session = v /\ PollOnly(v)' =>
            handler[f].session = v /\ handler[g].session = v /\ PollOnly(v)
  BY <1>3, <1>4, <1>5, HubAssumption DEF Same
<1>10. OneWorker'
  BY <1>9 DEF TruthInv, OneWorker
<1>11. StatusInv'
  BY <1>3, <1>4, <1>5 DEF TruthInv, StatusInv, Same
<1>12. ASSUME NEW v \in Sessions, PollOnly(v)', Untouched(v)', NEW r \in Rooms,
              \A g \in Handlers : handler'[g].session = v /\ handler'[g].room = r =>
                                     handler'[g].pc \notin Statuses
       PROVE  Told(v, r)' <=> r \in roomsOf'[v]
  <2>1. PollOnly(v) /\ Untouched(v)
    BY <1>5, <1>6, <1>12 DEF Untouched
  <2>2. ASSUME handler[h].session = v /\ handler[h].room = r => handler[h].pc \notin Statuses
        PROVE  Told(v, r) <=> r \in roomsOf[v]
    <3>1. \A g \in Handlers : handler[g].session = v /\ handler[g].room = r =>
                                 handler[g].pc \notin Statuses
      BY <1>3, <1>12, <2>2 DEF Same
    <3> QED
      BY <2>1, <3>1 DEF TruthInv, ToldInv
  <2>3. CASE v # s
    <3>1. handler[h].session = v => handler[h].pc \notin Statuses
      BY <1>1, <2>3 DEF Gives, Statuses
    <3>2. Told(v, r)' <=> Told(v, r)
      BY <1>3, <1>7, <2>3 DEF Told
    <3> QED
      BY <1>3, <2>2, <3>1, <3>2
  <2>4. CASE v = s
    <3> DEFINE ps == poll[s].batch \o queue[s]
    <3>1. ps \in Seq(AllPackets) /\ poll[s].batch \o Append(queue[s], p) = Append(ps, p)
      BY MovesOne, TellingTyped
    <3> HIDE DEF ps
    <3>2. Told(s, r) <=> r \in After(view[s], ps)
      BY DEF Told, ps
    <3>3. queue'[s] = Append(queue[s], p) => (Told(s, r)' <=> r \in After(view[s], Append(ps, p)))
      BY <1>3, <3>1 DEF Told
    <3>4. queue'[s] = queue[s] => (Told(s, r)' <=> Told(s, r))
      BY <1>3 DEF Told
    <3>5. PollOnly(s)
      BY <2>1, <2>4
    <3>6. CASE p = Packet("joined", r) \/ p = Packet("left", r)
      <4>1. p.kind \in Statuses /\ Matters(p)
        BY <3>6 DEF Packet, Statuses, Matters
      <4>2. ~Misses(s, p)
        BY <1>2, <1>12, <2>4, <4>1 DEF Misses, Untouched
      <4>3. queue'[s] = Append(queue[s], p)
        BY <1>8, <3>5, <4>2
      <4>4. /\ handler[h].pc \in Statuses /\ s = handler[h].session
            /\ p = Packet(handler[h].pc, handler[h].room)
        BY <1>1, <4>1 DEF Gives, Statuses, Packet
      <4>5. p.kind = handler[h].pc /\ p.arg = handler[h].room /\ p.arg = r
        BY <3>6, <4>4 DEF Packet
      <4>6. r \in roomsOf[s] <=> handler[h].pc = "joined"
        BY <3>5, <4>4, <4>5 DEF TruthInv, StatusInv
      <4>7. \/ p = Packet("joined", r) /\ handler[h].pc = "joined"
            \/ p = Packet("left", r) /\ handler[h].pc = "left"
        BY <3>6, <4>5 DEF Packet
      <4>8. r \in After(view[s], Append(ps, p)) <=> handler[h].pc = "joined"
        BY <3>1, <4>7, AfterMore
      <4> QED
        BY <1>3, <2>4, <3>3, <4>3, <4>6, <4>8
    <3>7. CASE p \notin {Packet("joined", r), Packet("left", r)}
      <4>1. handler[h].session = s /\ handler[h].room = r => handler[h].pc \notin Statuses
        BY <1>1, <3>7 DEF Gives, Statuses
      <4>2. r \in After(view[s], Append(ps, p)) <=> r \in After(view[s], ps)
        BY <3>1, <3>7, AfterMore
      <4>3. Told(s, r)' <=> Told(s, r)
        BY <1>8, <3>2, <3>3, <3>4, <3>5, <4>2
      <4> QED
        BY <1>3, <2>2, <2>4, <4>1, <4>3
    <3> QED
      BY <3>6, <3>7
  <2> QED
    BY <2>3, <2>4
<1>13. ToldInv'
  BY <1>12 DEF ToldInv
<1> QED
  BY <1>10, <1>11, <1>13 DEF TruthInv

\* Joining and leaving change the registry, and the status comes next.
LEMMA JoinLeaveTells ==
    ASSUME BaseInv, TruthInv, NEW h \in Handlers, JoinRoom(h) \/ LeaveRoom(h)
    PROVE  TruthInv'
<1> DEFINE s == handler[h].session
           r == handler[h].room
           status == IF handler[h].pc = "join" THEN "joined" ELSE "left"
<1>1. /\ UNCHANGED <<conn, view, poll, queue, missing>>
      /\ handler[h].pc \in {"join", "leave"} /\ handler[h].write = NoWrite
      /\ handler' = [handler EXCEPT ![h].pc = status]
      /\ roomsOf' = [roomsOf EXCEPT ![s] = IF status = "joined" THEN @ \cup {r} ELSE @ \ {r}]
  BY DEF JoinRoom, LeaveRoom, At, client
<1>2. handler \in [Handlers -> Jobs] /\ roomsOf \in [Sessions -> SUBSET Rooms]
  BY DEF BaseInv, TypeInv, TypeOK
<1>3. s \in Sessions
  BY <1>1 DEF BaseInv, TypeInv, WorkInv, PacketSteps
<1>4. status \in Statuses /\ (status = "joined" => status # "left") /\ handler[h].pc \notin Statuses
  BY <1>1 DEF Statuses
<1>5. handler[h] \in Jobs /\ handler'[h] = [handler[h] EXCEPT !.pc = status]
  BY <1>1, <1>2
<1> HIDE DEF status
<1>6. /\ handler'[h].pc = status /\ handler'[h].session = s /\ handler'[h].room = r
      /\ handler'[h].write = NoWrite
  BY <1>1, <1>5 DEF Jobs
<1>7. \A g \in Handlers \ {h} : handler'[g] = handler[g]
  BY <1>1, <1>2
<1>8. /\ r \in roomsOf'[s] <=> status = "joined"
      /\ \A q : q # r => (q \in roomsOf'[s] <=> q \in roomsOf[s])
      /\ \A v \in Sessions \ {s} : roomsOf'[v] = roomsOf[v]
  BY <1>1, <1>2, <1>3
<1> HIDE DEF s, r
<1>9. \A v \in Sessions : (PollOnly(v)' <=> PollOnly(v)) /\ (Untouched(v)' <=> Untouched(v))
  BY <1>1 DEF PollOnly, Untouched
<1>10. \A g \in Handlers : handler'[g].session = handler[g].session
  BY <1>6, <1>7 DEF s
<1>11. OneWorker'
  BY <1>9, <1>10 DEF TruthInv, OneWorker
<1>12. StatusInv'
  <2> SUFFICES ASSUME NEW g \in Handlers, handler'[g].pc \in Statuses
               PROVE  /\ handler'[g].write = NoWrite
                      /\ \A v \in Sessions : handler'[g].session = v /\ PollOnly(v)' =>
                            (handler'[g].room \in roomsOf'[v] <=> handler'[g].pc = "joined")
    BY DEF StatusInv
  <2>1. CASE g = h
    BY <1>6, <1>8, <2>1
  <2>2. CASE g # h
    <3>1. handler'[g] = handler[g]
      BY <1>7, <2>2
    <3>2. ASSUME NEW v \in Sessions, handler[g].session = v, PollOnly(v)
          PROVE  v # s
      BY <2>2, <3>2 DEF TruthInv, OneWorker, s
    <3> QED
      BY <1>8, <1>9, <3>1, <3>2 DEF TruthInv, StatusInv
  <2> QED
    BY <2>1, <2>2
<1>13. ToldInv'
  <2> SUFFICES ASSUME NEW v \in Sessions, PollOnly(v)', Untouched(v)', NEW q \in Rooms,
                      \A g \in Handlers : handler'[g].session = v /\ handler'[g].room = q =>
                                             handler'[g].pc \notin Statuses
               PROVE  Told(v, q)' <=> q \in roomsOf'[v]
    BY DEF ToldInv
  <2>1. Told(v, q)' <=> Told(v, q)
    BY <1>1 DEF Told
  <2>2. v # s \/ q # r
    BY <1>4, <1>6
  <2>3. \A g \in Handlers : handler[g].session = v /\ handler[g].room = q =>
                               handler[g].pc \notin Statuses
    BY <1>4, <1>7
  <2> QED
    BY <1>8, <1>9, <2>1, <2>2, <2>3 DEF TruthInv, ToldInv
<1> QED
  BY <1>11, <1>12, <1>13 DEF TruthInv

\* A write that ends tells the client of a websocket, and no other.
LEMMA EndWriteTells ==
    ASSUME BaseInv, TruthInv, NEW h \in Handlers, EndWrite(h)
    PROVE  TruthInv'
<1> DEFINE w == handler[h].write
           t == w.to
<1>1. /\ handler \in [Handlers -> Jobs] /\ conn \in [Conns -> Conn]
      /\ view \in [Sessions -> SUBSET Rooms] /\ missing \in [Sessions -> SUBSET AllPackets]
  BY DEF BaseInv, TypeInv, TypeOK, HistoryInv, Conn
<1>2. UNCHANGED <<roomsOf, poll, queue>> /\ w # NoWrite
  BY DEF EndWrite, registry
<1>3. t \in Sessions /\ ~PollOnly(t)
  BY <1>2 DEF BaseInv, JobInv, PollOnly
<1>4. /\ \A g \in Handlers \ {h} : handler'[g] = handler[g]
      /\ \/ handler'[h] = Idle
         \/ handler'[h] = [handler[h] EXCEPT !.write = NoWrite]
  BY <1>1 DEF EndWrite, Panic
<1>5. handler[h].pc \notin Statuses
  BY <1>2 DEF TruthInv, StatusInv
<1>6. /\ handler'[h].session \in {handler[h].session, NoSession}
      /\ handler'[h].pc \notin Statuses
  BY <1>1, <1>4, <1>5 DEF Idle, Statuses, Jobs
<1>7. \A v \in Sessions : PollOnly(v)' => PollOnly(v)
  <2>1. conn' = conn \/ (h \in Conns /\ conn' = [conn EXCEPT ![h].pc = "closing"])
    BY DEF EndWrite, Panic
  <2>2. \A c \in Conns : conn'[c].session = conn[c].session
    <3>1. ASSUME h \in Conns, conn' = [conn EXCEPT ![h].pc = "closing"], NEW c \in Conns
          PROVE  conn'[c].session = conn[c].session
      <4>1. conn[c] \in Conn /\ conn'[c] \in {conn[c], [conn[c] EXCEPT !.pc = "closing"]}
        BY <1>1, <3>1
      <4> QED
        BY <4>1 DEF Conn
    <3> QED
      BY <2>1, <3>1
  <2> QED
    BY <2>2, PollOnlyStays
<1>8. \A v \in Sessions \ {t} : view'[v] = view[v] /\ missing'[v] = missing[v]
  <2>1. \/ view' = view
        \/ view' = [view EXCEPT ![t] = After(@, <<w.packet>>)]
    BY DEF EndWrite
  <2>2. missing' = missing \/ Misses(t, w.packet)
    BY DEF EndWrite, Panic
  <2> HIDE DEF w, t
  <2> QED
    BY <1>1, <2>1, <2>2 DEF Misses
<1> HIDE DEF w, t
<1>9. ASSUME NEW v \in Sessions, PollOnly(v)', Untouched(v)'
      PROVE  Untouched(v) /\ \A r \in Rooms : Told(v, r)' <=> Told(v, r)
  <2>1. v # t
    BY <1>3, <1>7, <1>9
  <2>2. view'[v] = view[v] /\ missing'[v] = missing[v]
    BY <1>8, <2>1
  <2> QED
    BY <1>2, <1>9, <2>2 DEF Told, Untouched
<1>10. \A g \in Handlers : handler'[g].session \in Sessions =>
          handler'[g].session = handler[g].session
  BY <1>4, <1>6, HubAssumption
<1>11. \A g \in Handlers : handler'[g].pc \in Statuses =>
          /\ handler'[g].pc = handler[g].pc /\ handler'[g].room = handler[g].room
          /\ handler'[g].write = NoWrite
  BY <1>4, <1>6 DEF TruthInv, StatusInv
<1>12. \A g \in Handlers, s \in Sessions :
          handler[g].pc \in Statuses /\ handler[g].session = s /\ PollOnly(s) =>
             /\ handler'[g].pc = handler[g].pc /\ handler'[g].room = handler[g].room
             /\ handler'[g].session = s
  BY <1>4, <1>5
<1> QED
  BY <1>2, <1>7, <1>9, <1>10, <1>11, <1>12, KeepsTelling

\* A poll tells its client what was in the queue, in the order of the queue.
LEMMA PollingTells ==
    ASSUME BaseInv, TruthInv, NEW s \in Sessions, Polling(s) \/ AbortPoll(s)
    PROVE  TruthInv'
<1>1. UNCHANGED <<roomsOf, conn, handler>>
  BY DEF Polling, Poll, DrainOne, Respond, RespondToNobody, AbortPoll, registry
<1>2. /\ queue \in [Sessions -> Seq(AllPackets)] /\ view \in [Sessions -> SUBSET Rooms]
      /\ poll \in [Sessions -> [on : BOOLEAN, aborted : BOOLEAN, batch : Seq(AllPackets)]]
      /\ missing \in [Sessions -> SUBSET AllPackets]
  BY DEF BaseInv, TypeInv, TypeOK, HistoryInv
<1>3. poll[s].batch \in Seq(AllPackets) /\ queue[s] \in Seq(AllPackets) /\ view[s] \in SUBSET Rooms
  BY <1>2
<1>4. \A t \in Sessions \ {s} : /\ poll'[t] = poll[t] /\ queue'[t] = queue[t]
                                /\ view'[t] = view[t] /\ missing'[t] = missing[t]
  BY <1>2 DEF Polling, Poll, DrainOne, Respond, RespondToNobody, AbortPoll, client
<1> DEFINE batch == poll[s].batch
           ps == batch \o queue[s]
           now == After(view'[s], poll'[s].batch \o queue'[s])
<1>5. ASSUME Untouched(s)'
      PROVE  Untouched(s) /\ now = After(view[s], ps)
  <2>1. CASE Poll(s) \/ AbortPoll(s)
    <3>1. poll'[s].batch = poll[s].batch /\ UNCHANGED <<view, queue, missing>>
      BY <1>2, <2>1 DEF Poll, AbortPoll, client
    <3> QED
      BY <1>5, <3>1 DEF Untouched
  <2>2. CASE DrainOne(s)
    <3>1. /\ poll'[s].batch = Append(poll[s].batch, Head(queue[s])) /\ queue'[s] = Tail(queue[s])
          /\ UNCHANGED <<view, missing>> /\ queue[s] # <<>>
      BY <1>2, <2>2 DEF DrainOne, client
    <3>2. poll'[s].batch \o queue'[s] = ps
      BY <1>3, <3>1, MovesOne
    <3> QED
      BY <1>5, <3>1, <3>2 DEF Untouched
  <2>3. CASE Respond(s)
    <3>1. /\ view'[s] = After(view[s], batch) /\ poll'[s].batch = <<>>
          /\ UNCHANGED <<queue, missing>>
      BY <1>2, <2>3 DEF Respond, NoPoll
    <3>2. poll'[s].batch \o queue'[s] = queue[s]
      BY <1>3, <3>1, MovesOne
    <3>3. After(After(view[s], batch), queue[s]) = After(view[s], ps)
      BY <1>3, AfterBoth
    <3> QED
      BY <1>5, <3>1, <3>2, <3>3 DEF Untouched
  <2>4. CASE RespondToNobody(s)
    <3>1. /\ missing'[s] = missing[s] \cup {q \in Range(batch) : Matters(q)}
          /\ poll'[s].batch = <<>> /\ UNCHANGED <<queue, view>>
      BY <1>2, <2>4 DEF RespondToNobody, NoPoll
    <3>2. poll'[s].batch \o queue'[s] = queue[s]
      BY <1>3, <3>1, MovesOne
    <3>3. \A q \in Range(batch) : q.kind \notin {"joined", "left"}
      BY <1>5, <3>1 DEF Untouched, Statuses, Matters
    <3>4. After(view[s], batch) = view[s]
      BY <1>3, <3>3, AfterOthers
    <3>5. After(After(view[s], batch), queue[s]) = After(view[s], ps)
      BY <1>3, AfterBoth
    <3>6. Untouched(s)
      BY <1>5, <3>1 DEF Untouched
    <3> QED
      BY <3>1, <3>2, <3>4, <3>5, <3>6
  <2> QED
    BY <2>1, <2>2, <2>3, <2>4 DEF Polling
<1>6. ASSUME NEW v \in Sessions, Untouched(v)'
      PROVE  Untouched(v) /\ \A r \in Rooms : Told(v, r)' <=> Told(v, r)
  <2>1. CASE v = s
    BY <1>5, <1>6, <2>1 DEF Told
  <2>2. CASE v # s
    BY <1>4, <1>6, <2>2 DEF Told, Untouched
  <2> QED
    BY <2>1, <2>2
<1>7. \A v \in Sessions : PollOnly(v)' => PollOnly(v)
  BY <1>1 DEF PollOnly
<1>8. \A g \in Handlers : handler'[g].pc \in Statuses => handler'[g].write = NoWrite
  BY <1>1 DEF TruthInv, StatusInv
<1> QED
  BY <1>1, <1>6, <1>7, <1>8, KeepsTelling

\* A client that posts one packet at a time has one goroutine at work.
LEMMA ReceiveTells ==
    ASSUME Orderly, BaseInv, TruthInv, NEW h \in Handlers, NEW s \in Sessions,
           NEW k \in Packets, NEW r \in Rooms, Receive(h, s, k, r)
    PROVE  TruthInv'
<1>1. /\ UNCHANGED <<roomsOf, view, poll, queue, missing, conn>>
      /\ handler' = [handler EXCEPT ![h].pc = k, ![h].session = s, ![h].room = r]
      /\ handler[h].pc = "idle" /\ k \notin Statuses
  BY HubAssumption DEF Receive, At, registry, client, Statuses
<1>2. handler \in [Handlers -> Jobs] /\ conn \in [Conns -> Conn]
  BY DEF BaseInv, TypeInv, TypeOK, Conn
<1>3. /\ \A g \in Handlers \ {h} : handler'[g] = handler[g]
      /\ handler'[h] = [handler[h] EXCEPT !.pc = k, !.session = s, !.room = r]
      /\ handler[h] \in Jobs
  BY <1>1, <1>2
<1>4. handler'[h].session = s /\ handler'[h].pc = k
  BY <1>3 DEF Jobs
<1>5. PollOnly(s) => \A g \in Handlers : handler[g].session # s
  BY DEF Receive, Reads, PollOnly, Busy
<1>6. \A v \in Sessions : /\ (PollOnly(v)' <=> PollOnly(v)) /\ (Untouched(v)' <=> Untouched(v))
                          /\ \A q \in Rooms : Told(v, q)' <=> Told(v, q)
  BY <1>1 DEF PollOnly, Untouched, Told
<1>7. OneWorker'
  <2> SUFFICES ASSUME NEW f \in Handlers, NEW g \in Handlers, NEW v \in Sessions,
                      handler'[f].session = v, handler'[g].session = v, PollOnly(v)'
               PROVE  f = g
    BY DEF OneWorker
  <2>1. PollOnly(v)
    BY <1>6
  <2>2. CASE f = h \/ g = h
    BY <1>3, <1>4, <1>5, <2>1, <2>2
  <2>3. CASE f # h /\ g # h
    BY <1>3, <2>1, <2>3 DEF TruthInv, OneWorker
  <2> QED
    BY <2>2, <2>3
<1>8. StatusInv'
  <2> SUFFICES ASSUME NEW g \in Handlers, handler'[g].pc \in Statuses
               PROVE  /\ handler'[g].write = NoWrite
                      /\ \A v \in Sessions : handler'[g].session = v /\ PollOnly(v)' =>
                            (handler'[g].room \in roomsOf'[v] <=> handler'[g].pc = "joined")
    BY DEF StatusInv
  <2>1. g # h
    BY <1>1, <1>4
  <2>2. handler'[g] = handler[g]
    BY <1>3, <2>1
  <2> QED
    BY <1>1, <1>6, <2>2 DEF TruthInv, StatusInv
<1>9. ToldInv'
  <2> SUFFICES ASSUME NEW v \in Sessions, PollOnly(v)', Untouched(v)', NEW q \in Rooms,
                      \A g \in Handlers : handler'[g].session = v /\ handler'[g].room = q =>
                                             handler'[g].pc \notin Statuses
               PROVE  Told(v, q)' <=> q \in roomsOf'[v]
    BY DEF ToldInv
  <2>1. \A g \in Handlers : handler[g].session = v /\ handler[g].room = q =>
                               handler[g].pc \notin Statuses
    BY <1>1, <1>3 DEF Statuses
  <2> QED
    BY <1>1, <1>6, <2>1 DEF TruthInv, ToldInv
<1> QED
  BY <1>7, <1>8, <1>9 DEF TruthInv

\* A connection without a goroutine has no session.
UnusedInv == \A c \in Conns : conn[c].pc = "none" => conn[c].session = NoSession

\* It gets one when its goroutine starts.
LEMMA Unused == Spec => []UnusedInv
<1>1. Init => UnusedInv
  BY DEF Init, UnusedInv
<1>2. BaseInv /\ UnusedInv /\ [Next]_vars => UnusedInv'
  <2> SUFFICES ASSUME BaseInv, UnusedInv, [Next]_vars
               PROVE  UnusedInv'
    OBVIOUS
  <2>1. conn \in [Conns -> Conn]
    BY DEF BaseInv, TypeInv, TypeOK, Conn
  <2> DEFINE Closes(c, pc) == conn' = [conn EXCEPT ![c].pc = pc]
             Found(c, s) == conn' = [conn EXCEPT ![c] = [pc |-> "found", session |-> s]]
  <2>2. \/ conn' = conn
        \/ \E c \in Conns, s \in Sessions : Found(c, s)
        \/ \E c \in Conns, pc \in {"open", "closing", "closed"} : Closes(c, pc)
    <3>1. ASSUME NEW h \in Handlers, Work(h)
          PROVE  conn' = conn \/ (h \in Conns /\ Closes(h, "closing"))
      <4>1. CASE Hand(h)
        <5>1. PICK s \in Sessions, p \in AllPackets, next \in Jobs : Hands(h, s, p, next)
          BY <4>1, HandHands DEF BaseInv
        <5> QED
          BY <5>1 DEF Hands, Panic
      <4>2. CASE EndWrite(h)
        BY <4>2 DEF EndWrite, Panic
      <4>3. CASE JoinRoom(h) \/ LeaveRoom(h) \/ StartBroadcast(h) \/ EndBroadcast(h)
        BY <4>3 DEF JoinRoom, LeaveRoom, StartBroadcast, EndBroadcast
      <4> QED
        BY <3>1, <4>1, <4>2, <4>3 DEF Work, Hand
    <3>2. ASSUME NEW c \in Conns,
                 (\E s \in Sessions : FindSession(c, s)) \/ OpenSocket(c) \/ RemoveSession(c)
          PROVE  \/ \E s \in Sessions : Found(c, s)
                 \/ Closes(c, "open") \/ Closes(c, "closed")
      BY <3>2 DEF FindSession, OpenSocket, RemoveSession
    <3>3. ASSUME NEW s \in Sessions, NewSession(s) \/ Polling(s) \/ AbortPoll(s)
          PROVE  conn' = conn
      BY <3>3 DEF NewSession, Polling, Poll, DrainOne, Respond, RespondToNobody, AbortPoll
    <3>4. ASSUME NEW h \in Handlers,
                 \/ \E s \in Sessions, k \in Packets, r \in Rooms : Receive(h, s, k, r)
                 \/ \E r \in Rooms : BroadcastMessage(h, r)
          PROVE  conn' = conn
      BY <3>4 DEF Receive, BroadcastMessage
    <3>5. UNCHANGED vars => conn' = conn
      BY DEF vars
    <3> HIDE DEF Found, Closes
    <3> QED
      BY <3>1, <3>2, <3>3, <3>4, <3>5 DEF Next
  <2>3. ASSUME NEW c \in Conns, NEW pc \in {"open", "closing", "closed"},
               conn' = [conn EXCEPT ![c].pc = pc]
        PROVE  UnusedInv'
    <3>1. \A d \in Conns : d # c => conn'[d] = conn[d]
      BY <2>1, <2>3
    <3>2. conn[c] \in Conn /\ conn'[c] = [conn[c] EXCEPT !.pc = pc]
      BY <2>1, <2>3
    <3>3. conn'[c].pc # "none"
      BY <3>2 DEF Conn
    <3> QED
      BY <3>1, <3>3 DEF UnusedInv
  <2>4. ASSUME NEW c \in Conns, NEW s \in Sessions,
               conn' = [conn EXCEPT ![c] = [pc |-> "found", session |-> s]]
        PROVE  UnusedInv'
    BY <2>1, <2>4 DEF UnusedInv
  <2> QED
    BY <2>2, <2>3, <2>4 DEF UnusedInv
<1> QED
  BY <1>1, <1>2, Base, PTL DEF Spec

\* Every step of clients that post one packet at a time.
LEMMA TruthStep ==
    ASSUME Orderly
    PROVE  BaseInv /\ UnusedInv /\ TruthInv /\ [Next]_vars => TruthInv'
<1> SUFFICES ASSUME BaseInv, UnusedInv, TruthInv, [Next]_vars
             PROVE  TruthInv'
  OBVIOUS
<1>1. /\ handler \in [Handlers -> Jobs] /\ conn \in [Conns -> Conn]
      /\ Conns \subseteq Handlers /\ Callers \subseteq Handlers
  BY DEF BaseInv, TypeInv, TypeOK, Handlers, Conn
<1>2. CASE UNCHANGED vars
  BY <1>2, QuietTells DEF vars, registry, client
<1>3. ASSUME NEW s \in Sessions, NewSession(s) \/ Polling(s) \/ AbortPoll(s)
      PROVE  TruthInv'
  <2>1. CASE NewSession(s)
    <3>1. UNCHANGED <<roomsOf, conn, handler, view, poll, queue, missing>>
      BY <2>1 DEF NewSession, client
    <3> QED
      BY <3>1, QuietTells
  <2> QED
    BY <1>3, <2>1, PollingTells
<1>4. ASSUME NEW c \in Conns,
             (\E s \in Sessions : FindSession(c, s)) \/ OpenSocket(c) \/ RemoveSession(c)
      PROVE  TruthInv'
  <2>1. UNCHANGED <<roomsOf, view, poll, queue, missing>>
    BY <1>4 DEF FindSession, OpenSocket, RemoveSession, registry, client
  <2>2. \A d \in Conns : conn[d].session \in Sessions => conn'[d].session = conn[d].session
    <3>1. CASE \E s \in Sessions : FindSession(c, s)
      <4>1. /\ conn[c].pc = "none" /\ \A d \in Conns \ {c} : conn'[d] = conn[d]
        BY <1>1, <3>1 DEF FindSession
      <4>2. conn[c].session \notin Sessions
        BY <4>1, HubAssumption DEF UnusedInv
      <4> QED
        BY <4>1, <4>2
    <3>2. CASE OpenSocket(c) \/ RemoveSession(c)
      <4>1. PICK pc \in {"open", "closed"} : conn' = [conn EXCEPT ![c].pc = pc]
        BY <3>2 DEF OpenSocket, RemoveSession
      <4>2. ASSUME NEW d \in Conns
            PROVE  conn'[d].session = conn[d].session
        <5>1. conn[d] \in Conn /\ conn'[d] \in {conn[d], [conn[d] EXCEPT !.pc = pc]}
          BY <1>1, <4>1
        <5> QED
          BY <5>1 DEF Conn
      <4> QED
        BY <4>2
    <3> QED
      BY <1>4, <3>1, <3>2
  <2>3. /\ \A h \in Handlers \ {c} : handler'[h] = handler[h]
        /\ handler'[c].session = handler[c].session /\ handler'[c].pc = handler[c].pc
        /\ handler[c].pc \in Statuses => handler'[c] = handler[c]
    <3>1. CASE OpenSocket(c)
      <4>1. handler[c].pc = "idle"
        BY <3>1 DEF OpenSocket, BaseInv, AgreeInv, ReaderInv, At
      <4>2. PICK write : handler' = [handler EXCEPT ![c].write = write]
        BY <3>1 DEF OpenSocket
      <4>3. handler'[c] = [handler[c] EXCEPT !.write = write] /\ handler[c] \in Jobs
        BY <1>1, <4>2
      <4> QED
        BY <1>1, <4>1, <4>2, <4>3 DEF Jobs, Statuses
    <3>2. CASE ~OpenSocket(c)
      <4>1. handler' = handler
        BY <1>4, <3>2 DEF FindSession, RemoveSession
      <4> QED
        BY <4>1
    <3> QED
      BY <3>1, <3>2
  <2>4. \A h \in Handlers : handler'[h].session \in Sessions =>
           handler'[h].session = handler[h].session
    BY <2>3
  <2>5. \A h \in Handlers : handler'[h].pc \in Statuses \/ handler[h].pc \in Statuses =>
           handler'[h] = handler[h]
    BY <2>3
  <2> QED
    BY <2>1, <2>2, <2>4, <2>5, QuietTells
<1>5. ASSUME NEW h \in Handlers, NEW s \in Sessions, NEW k \in Packets, NEW r \in Rooms,
             Receive(h, s, k, r)
      PROVE  TruthInv'
  BY <1>5, ReceiveTells
<1>6. ASSUME NEW h \in Handlers, (\E r \in Rooms : BroadcastMessage(h, r))
                                  \/ StartBroadcast(h) \/ EndBroadcast(h)
      PROVE  TruthInv'
  <2>1. UNCHANGED <<roomsOf, conn, view, poll, queue, missing>>
    BY <1>6 DEF BroadcastMessage, StartBroadcast, EndBroadcast, registry, client
  <2>2. \A g \in Handlers \ {h} : handler'[g] = handler[g]
    BY <1>1, <1>6 DEF BroadcastMessage, StartBroadcast, EndBroadcast
  <2>3. handler[h].pc \notin Statuses
    BY <1>6 DEF BroadcastMessage, StartBroadcast, EndBroadcast, At, Statuses
  <2>4. handler'[h].session \in {handler[h].session, NoSession} /\ handler'[h].pc \notin Statuses
    <3>1. CASE \E r \in Rooms : BroadcastMessage(h, r)
      BY <1>1, <3>1 DEF BroadcastMessage, Statuses
    <3>2. CASE StartBroadcast(h)
      <4>1. PICK targets, msg :
               handler' = [handler EXCEPT ![h].pc = "deliver", ![h].targets = targets,
                                          ![h].msg = msg]
        BY <3>2 DEF StartBroadcast
      <4>2. /\ handler'[h] = [handler[h] EXCEPT !.pc = "deliver", !.targets = targets,
                                                !.msg = msg]
            /\ handler[h] \in Jobs
        BY <1>1, <4>1
      <4> QED
        BY <4>2 DEF Statuses, Jobs
    <3>3. CASE EndBroadcast(h)
      BY <1>1, <3>3 DEF EndBroadcast, Idle, Statuses
    <3> QED
      BY <1>6, <3>1, <3>2, <3>3
  <2>5. \A g \in Handlers : handler'[g].session \in Sessions =>
           handler'[g].session = handler[g].session
    BY <2>2, <2>4, HubAssumption
  <2>6. \A g \in Handlers : handler'[g].pc \in Statuses \/ handler[g].pc \in Statuses =>
           handler'[g] = handler[g]
    BY <2>2, <2>3, <2>4
  <2> QED
    BY <2>1, <2>5, <2>6, QuietTells
<1>7. ASSUME NEW h \in Handlers, Work(h)
      PROVE  TruthInv'
  BY <1>6, <1>7, HandTells, JoinLeaveTells, EndWriteTells DEF Work, Hand
<1> QED
  BY <1>2, <1>3, <1>4, <1>5, <1>6, <1>7 DEF Next

\* It holds in every state for clients that post one packet at a time.
LEMMA TruthKept == ASSUME Orderly PROVE Spec => []TruthInv
<1>1. BaseInv /\ UnusedInv /\ TruthInv /\ [Next]_vars => TruthInv'
  BY TruthStep
<1> QED
  BY <1>1, InitTruth, Base, Unused, PTL DEF Spec

\* A polling client that posts one packet at a time takes itself to be in
\* the rooms the hub has it in: handlePacket sends the status after it has
\* joined or left, and the queue, drainPackets and the answers keep the order.
THEOREM TruthTold == ASSUME Orderly PROVE Spec => []StatusTellsTheTruth
<1>1. BaseInv /\ TruthInv => StatusTellsTheTruth
  <2> SUFFICES ASSUME BaseInv, TruthInv, NEW s \in Sessions, ~Busy(s),
                      \A c \in Conns : conn[c].session # s,
                      \A p \in missing[s] : p.kind \notin {"joined", "left"}
               PROVE  After(view[s], poll[s].batch \o queue[s]) = roomsOf[s]
    BY DEF StatusTellsTheTruth
  <2>1. PollOnly(s) /\ Untouched(s)
    BY DEF PollOnly, Untouched, Statuses
  <2>2. \A r \in Rooms : Told(s, r) <=> r \in roomsOf[s]
    BY <2>1 DEF TruthInv, ToldInv, Busy
  <2>3. roomsOf[s] \subseteq Rooms
    BY DEF BaseInv, TypeInv, TypeOK
  <2>4. After(view[s], poll[s].batch \o queue[s]) \subseteq Rooms
    BY DEF After
  <2> QED
    BY <2>2, <2>3, <2>4 DEF Told
<1> QED
  BY <1>1, Base, TruthKept, PTL

-----------------------------------------------------------------------------
(* The order of an author's messages.                                      *)

\* No two goroutines at work speak for one author.
AuthorsDiffer ==
    \A g, h \in Handlers :
        g # h /\ handler[g].pc # "idle" /\ handler[h].pc # "idle" => Author(g) # Author(h)

\* For a client that uses one way to its session and posts one packet at a
\* time.
LEMMA AuthorsApart ==
    ASSUME BaseInv, UnusedInv, TruthInv, GhostInv
    PROVE  AuthorsDiffer
<1> SUFFICES ASSUME NEW g \in Handlers, NEW h \in Handlers, handler[g].pc # "idle",
                    handler[h].pc # "idle", Author(g) = Author(h)
             PROVE  g = h
  BY DEF AuthorsDiffer
<1>1. /\ \A c \in Conns : c \notin Callers
      /\ \A c \in Posters : c \notin Callers
      /\ \A c \in Callers : c \notin Sessions
      /\ Handlers = Conns \cup Posters \cup Callers
  BY HubAssumption DEF Handlers
<1>2. \A f \in {g, h} : IF f \in Callers THEN Author(f) = f /\ f \notin Sessions
                        ELSE Author(f) = handler[f].session /\ handler[f].session \in Sessions
  BY <1>1 DEF Author, BaseInv, JobInv
<1>3. \A f \in {g, h} : f \in Conns => /\ handler[f].session = conn[f].session
                                       /\ conn[f].pc # "none"
  BY DEF BaseInv, JobInv, AgreeInv, ReaderInv, At
<1>4. CASE g \in Callers \/ h \in Callers
  BY <1>2, <1>4
<1>5. CASE g \notin Callers /\ h \notin Callers
  <2>1. handler[g].session = handler[h].session /\ handler[g].session \in Sessions
    BY <1>2, <1>5
  <2>2. CASE g \in Conns /\ h \in Conns
    BY <1>3, <2>1, <2>2 DEF GhostInv, OneWayInv
  <2>3. CASE g \in Posters /\ h \in Conns
    BY <1>3, <2>1, <2>3 DEF GhostInv, OneWayInv
  <2>4. CASE g \in Conns /\ h \in Posters
    BY <1>3, <2>1, <2>4 DEF GhostInv, OneWayInv
  <2>5. CASE g \in Posters /\ h \in Posters
    <3>1. \A c \in Conns : conn[c].pc # "none" => conn[c].session # handler[g].session
      BY <2>1, <2>5 DEF GhostInv, OneWayInv
    <3>2. PollOnly(handler[g].session)
      BY <2>1, <3>1, HubAssumption DEF PollOnly, UnusedInv
    <3> QED
      BY <2>1, <3>2 DEF TruthInv, OneWorker
  <2> QED
    BY <1>1, <1>5, <2>2, <2>3, <2>4, <2>5
<1> QED
  BY <1>4, <1>5

\* Messages are in the order of their authors, who are those of the entries.
Sorted(ms, entries) ==
    \A i, j \in DOMAIN ms : i < j =>
        /\ ms[i] # ms[j]
        /\ entries[ms[i]].author = entries[ms[j]].author => ms[i] < ms[j]

\* A message more, the newest of its author.
LEMMA SortedMore ==
    ASSUME NEW ms \in Seq(Args), NEW m \in Args, NEW entries, Sorted(ms, entries),
           m \notin Range(ms),
           \A k \in Range(ms) : entries[k].author = entries[m].author => k < m
    PROVE  Sorted(Append(ms, m), entries)
<1> DEFINE n == Len(ms)
           ns == Append(ms, m)
<1>1. /\ n \in Nat /\ DOMAIN ms = 1..n /\ DOMAIN ns = 1..(n + 1)
      /\ \A i \in 1..n : ns[i] = ms[i] /\ ms[i] \in Range(ms)
      /\ ns[n + 1] = m
  BY DEF Range
<1> HIDE DEF ns, n
<1> SUFFICES ASSUME NEW i \in 1..(n + 1), NEW j \in 1..(n + 1), i < j
             PROVE  /\ ns[i] # ns[j]
                    /\ entries[ns[i]].author = entries[ns[j]].author => ns[i] < ns[j]
  BY <1>1 DEF Sorted, ns
<1>2. i \in 1..n /\ (j \in 1..n \/ j = n + 1)
  BY <1>1
<1>3. CASE j \in 1..n
  BY <1>1, <1>2, <1>3 DEF Sorted
<1>4. CASE j = n + 1
  BY <1>1, <1>2, <1>4
<1> QED
  BY <1>2, <1>3, <1>4

\* The middle of three sequences is lost.
LEMMA SortedWithout ==
    \A xs, ys, zs \in Seq(Args) : \A entries :
       /\ Sorted(xs \o (ys \o zs), entries) => Sorted(xs \o zs, entries)
       /\ Range(xs \o zs) \subseteq Range(xs \o (ys \o zs))
<1> TAKE xs, ys, zs \in Seq(Args)
<1> TAKE entries
<1> DEFINE a == Len(xs)
           b == Len(ys)
           c == Len(zs)
           all == xs \o (ys \o zs)
           rest == xs \o zs
           At2(i) == IF i <= a THEN i ELSE b + i
<1>1. /\ a \in Nat /\ b \in Nat /\ c \in Nat
      /\ DOMAIN rest = 1..(a + c)
      /\ \A i \in 1..a : rest[i] = xs[i]
      /\ \A i \in 1..c : rest[a + i] = zs[i]
  OBVIOUS
<1>2. /\ ys \o zs \in Seq(Args) /\ Len(ys \o zs) = b + c
      /\ \A i \in 1..c : (ys \o zs)[b + i] = zs[i]
  OBVIOUS
<1>3. /\ DOMAIN all = 1..(a + (b + c))
      /\ \A i \in 1..a : all[i] = xs[i]
      /\ \A i \in 1..(b + c) : all[a + i] = (ys \o zs)[i]
  BY <1>2
<1> HIDE DEF a, b, c, all, rest
<1>4. ASSUME NEW i \in 1..(a + c)
      PROVE  /\ At2(i) \in 1..(a + (b + c)) /\ rest[i] = all[At2(i)]
  <2>1. CASE i <= a
    <3>1. i \in 1..a
      BY <1>1, <2>1
    <3> QED
      BY <1>1, <1>3, <2>1, <3>1
  <2>2. CASE ~(i <= a)
    <3>1. PICK k \in 1..c : i = a + k
      <4>1. i - a \in 1..c /\ i = a + (i - a)
        BY <1>1, <2>2
      <4> QED
        BY <4>1
    <3>2. b + k \in 1..(b + c) /\ At2(i) = a + (b + k) /\ At2(i) \in 1..(a + (b + c))
      BY <1>1, <2>2, <3>1
    <3>3. rest[i] = zs[k] /\ all[a + (b + k)] = (ys \o zs)[b + k] /\ (ys \o zs)[b + k] = zs[k]
      BY <1>1, <1>2, <1>3, <3>1, <3>2
    <3> QED
      BY <3>2, <3>3
  <2> QED
    BY <2>1, <2>2
<1>5. \A i, j \in 1..(a + c) : i < j => At2(i) < At2(j)
  BY <1>1
<1> HIDE DEF At2
<1>6. Sorted(all, entries) => Sorted(rest, entries)
  BY <1>1, <1>3, <1>4, <1>5 DEF Sorted
<1>7. Range(rest) \subseteq Range(all)
  BY <1>1, <1>3, <1>4 DEF Range
<1> QED
  BY <1>6, <1>7 DEF all, rest

\* Entries that come later change nothing.
LEMMA SortedLater ==
    ASSUME NEW ms, NEW old, NEW new, \A m \in Range(ms) : new[m] = old[m]
    PROVE  Sorted(ms, new) <=> Sorted(ms, old)
<1>1. \A i \in DOMAIN ms : ms[i] \in Range(ms)
  BY DEF Range
<1> QED
  BY <1>1 DEF Sorted

\* Three sequences of messages can be put together in two ways.
LEMMA ArgsOfThree == \A xs, ys, zs \in Seq(Args) : (xs \o ys) \o zs = xs \o (ys \o zs)
OBVIOUS

\* What a client has got from its polls and will get from them.
Flow(s) == received[s] \o Unread(s)

\* It is a sequence of messages.
LEMMA FlowTyped ==
    ASSUME BaseInv, NEW s \in Sessions
    PROVE  /\ received[s] \in Seq(Args) /\ heard[s] \in Seq(Args)
           /\ Messages(poll[s].batch) \in Seq(Args) /\ Messages(queue[s]) \in Seq(Args)
           /\ Unread(s) \in Seq(Args) /\ Flow(s) \in Seq(Args)
           /\ Flow(s) = received[s] \o (Messages(poll[s].batch) \o Messages(queue[s]))
<1>1. received[s] \in Seq(Args) /\ heard[s] \in Seq(Args)
  BY DEF BaseInv, HistoryInv
<1>2. /\ poll[s].batch \in Seq(AllPackets) /\ queue[s] \in Seq(AllPackets)
      /\ poll[s].batch \o queue[s] \in Seq(AllPackets)
  BY TellingTyped
<1>3. Messages(poll[s].batch) \in Seq(Args) /\ Messages(queue[s]) \in Seq(Args)
  BY <1>2, MessagesTyped
<1>4. Unread(s) \in Seq(Args)
  BY <1>2, MessagesTyped DEF Unread
<1>5. Flow(s) \in Seq(Args)
  BY <1>1, <1>4, ArgsOfBoth DEF Flow
<1>6. Unread(s) = Messages(poll[s].batch) \o Messages(queue[s])
  BY <1>2, MessagesOfBoth DEF Unread
<1> QED
  BY <1>1, <1>3, <1>4, <1>5, <1>6 DEF Flow

\* Where nothing but the queue changes, and where it gets one packet more.
LEMMA FlowMore ==
    ASSUME BaseInv, NEW s \in Sessions, UNCHANGED <<received, poll>>, NEW p \in AllPackets
    PROVE  /\ queue'[s] = queue[s] => Flow(s)' = Flow(s)
           /\ queue'[s] = Append(queue[s], p) =>
                 Flow(s)' = IF p.kind = "message" THEN Append(Flow(s), p.arg) ELSE Flow(s)
<1> DEFINE ps == poll[s].batch \o queue[s]
<1>1. queue'[s] = queue[s] => Flow(s)' = Flow(s)
  BY DEF Flow, Unread
<1>2. ASSUME queue'[s] = Append(queue[s], p)
      PROVE  Flow(s)' = IF p.kind = "message" THEN Append(Flow(s), p.arg) ELSE Flow(s)
  <2>1. ps \in Seq(AllPackets) /\ poll[s].batch \o Append(queue[s], p) = Append(ps, p)
    BY MovesOne, TellingTyped
  <2>2. Unread(s) = Messages(ps)
    BY DEF Unread
  <2> HIDE DEF ps
  <2>3. Unread(s)' = Messages(Append(ps, p))
    BY <1>2, <2>1 DEF Unread
  <2>4. /\ p.kind = "message" => Messages(Append(ps, p)) = Append(Messages(ps), p.arg)
        /\ p.kind # "message" => Messages(Append(ps, p)) = Messages(ps)
    BY <2>1, MessagesOfMore
  <2>5. p.arg \in Args /\ received[s] \in Seq(Args) /\ Unread(s) \in Seq(Args)
    BY FlowTyped DEF AllPackets, Args
  <2>6. Append(received[s] \o Unread(s), p.arg) = received[s] \o Append(Unread(s), p.arg)
    BY <2>5, AppendToBoth, Zenon
  <2> QED
    BY <2>2, <2>3, <2>4, <2>6 DEF Flow
<1> QED
  BY <1>1, <1>2

\* The message m is on its way to s, through its queue, or has arrived.
Got(s, m) == m \in Range(Flow(s)) \cup Range(heard[s])

\* What a client has and gets are messages that were broadcast, in the order
\* of their authors.
FlowInv ==
    \A s \in Sessions : /\ Sorted(Flow(s), log) /\ Range(Flow(s)) \subseteq DOMAIN log
                        /\ Sorted(heard[s], log) /\ Range(heard[s]) \subseteq DOMAIN log

\* A message is written by the goroutine that broadcasts it.
WriteInv ==
    \A h \in Handlers : handler[h].write.packet.kind = "message" =>
        /\ handler[h].msg # 0
        /\ handler[h].write.packet = Packet("message", handler[h].msg)

\* The message in hand is the newest of its author, and no member that is
\* still to be served has got it.
NewestInv ==
    \A h \in Handlers : handler[h].msg # 0 =>
        /\ log[handler[h].msg].author = Author(h)
        /\ \A m \in DOMAIN log : log[m].author = Author(h) => m <= handler[h].msg
        /\ \A s \in handler[h].targets : ~Got(s, handler[h].msg)
        /\ handler[h].write.packet.kind = "message" =>
              /\ handler[h].msg \notin Range(heard[handler[h].write.to])
              /\ handler[h].write.to \notin handler[h].targets

OrderInv == FlowInv /\ WriteInv /\ NewestInv

\* At the start there is no message.
LEMMA InitOrder == Init => OrderInv
<1> SUFFICES ASSUME Init
             PROVE  OrderInv
  OBVIOUS
<1>1. \A h \in Handlers : handler[h].msg = 0 /\ handler[h].write.packet.kind # "message"
  BY DEF Init, Idle, NoWrite, Packet
<1>2. ASSUME NEW s \in Sessions
      PROVE  Flow(s) = <<>> /\ heard[s] = <<>>
  <2>1. poll[s].batch = <<>> /\ queue[s] = <<>> /\ received[s] = <<>> /\ heard[s] = <<>>
    BY DEF Init, NoPoll
  <2>2. <<>> \o <<>> = <<>>
    OBVIOUS
  <2> QED
    BY <2>1, <2>2, MessagesOfNone DEF Flow, Unread
<1>3. \A entries : Sorted(<<>>, entries) /\ Range(<<>>) = {}
  BY DEF Sorted, Range
<1> QED
  BY <1>1, <1>2, <1>3 DEF OrderInv, FlowInv, WriteInv, NewestInv

\* Steps that deliver no message: what is in hand stays so or is given up.
LEMMA KeepsOrder ==
    ASSUME BaseInv, OrderInv, log' = log, heard' = heard,
           \A s \in Sessions : /\ Sorted(Flow(s), log) => Sorted(Flow(s)', log)
                               /\ Range(Flow(s)') \subseteq Range(Flow(s)),
           \A h \in Handlers : handler'[h].msg # 0 =>
              /\ handler'[h].msg = handler[h].msg /\ handler'[h].session = handler[h].session
              /\ handler'[h].targets = handler[h].targets,
           \A h \in Handlers : handler'[h].write.packet.kind = "message" =>
              /\ handler'[h].write.packet = handler[h].write.packet
              /\ handler'[h].write.to = handler[h].write.to
              /\ handler'[h].msg = handler[h].msg
    PROVE  OrderInv'
<1>1. FlowInv'
  BY DEF OrderInv, FlowInv
<1>2. WriteInv'
  BY DEF OrderInv, WriteInv
<1>3. NewestInv'
  <2> SUFFICES ASSUME NEW h \in Handlers, handler'[h].msg # 0
               PROVE  /\ log'[handler'[h].msg].author = Author(h)'
                      /\ \A m \in DOMAIN log' : log'[m].author = Author(h)' => m <= handler'[h].msg
                      /\ \A s \in handler'[h].targets :
                            handler'[h].msg \notin Range(Flow(s)') \cup Range(heard'[s])
                      /\ handler'[h].write.packet.kind = "message" =>
                            /\ handler'[h].msg \notin Range(heard'[handler'[h].write.to])
                            /\ handler'[h].write.to \notin handler'[h].targets
    BY DEF NewestInv, Got
  <2>1. /\ handler'[h].msg = handler[h].msg /\ Author(h)' = Author(h)
        /\ handler'[h].targets = handler[h].targets /\ handler[h].msg # 0
    BY DEF Author
  <2>2. handler[h].targets \subseteq Sessions
    BY DEF BaseInv, TypeInv, TypeOK, Jobs
  <2>3. \A s \in handler[h].targets : handler[h].msg \notin Range(Flow(s)) \cup Range(heard[s])
    BY <2>1 DEF OrderInv, NewestInv, Got
  <2>4. \A s \in handler[h].targets : handler[h].msg \notin Range(Flow(s)') \cup Range(heard'[s])
    BY <2>2, <2>3
  <2>5. /\ log[handler[h].msg].author = Author(h)
        /\ \A m \in DOMAIN log : log[m].author = Author(h) => m <= handler[h].msg
        /\ handler[h].write.packet.kind = "message" =>
              /\ handler[h].msg \notin Range(heard[handler[h].write.to])
              /\ handler[h].write.to \notin handler[h].targets
    BY <2>1 DEF OrderInv, NewestInv
  <2> QED
    BY <2>1, <2>4, <2>5
<1> QED
  BY <1>1, <1>2, <1>3 DEF OrderInv

\* The newest message of an author comes last.
LEMMA NewestLast ==
    ASSUME BaseInv, NEW ms \in Seq(Args), Sorted(ms, log), Range(ms) \subseteq DOMAIN log,
           NEW m \in DOMAIN log, m \notin Range(ms),
           \A k \in DOMAIN log : log[k].author = log[m].author => k <= m
    PROVE  /\ Sorted(Append(ms, m), log)
           /\ Range(Append(ms, m)) = Range(ms) \cup {m}
           /\ Range(Append(ms, m)) \subseteq DOMAIN log
<1>1. \A k \in DOMAIN log : k \in Nat
  BY LogTyped DEF BaseInv, TypeInv
<1>2. m \in Args
  BY <1>1 DEF Args
<1>3. \A k \in Range(ms) : log[k].author = log[m].author => k < m
  BY <1>1
<1>4. Sorted(Append(ms, m), log)
  BY <1>2, <1>3, SortedMore
<1>5. Range(Append(ms, m)) = Range(ms) \cup {m}
  <2>1. /\ DOMAIN Append(ms, m) = 1..(Len(ms) + 1) /\ DOMAIN ms = 1..Len(ms) /\ Len(ms) \in Nat
        /\ \A i \in 1..Len(ms) : Append(ms, m)[i] = ms[i]
        /\ Append(ms, m)[Len(ms) + 1] = m
    BY <1>2
  <2> QED
    BY <2>1 DEF Range
<1> QED
  BY <1>4, <1>5

\* A packet that is handed to a session.
LEMMA HandOrders ==
    ASSUME BaseInv, AuthorsDiffer, OrderInv, NEW h \in Handlers, Hand(h)
    PROVE  OrderInv'
<1> DEFINE M == handler[h].msg
<1>1. PICK s \in Sessions, p \in AllPackets, next \in Jobs :
         /\ Hands(h, s, p, next) /\ GoesOn(h, next) /\ Gives(h, s, p, next)
         /\ handler[h].write = NoWrite
  BY HandHands DEF BaseInv
<1>2. /\ handler \in [Handlers -> Jobs] /\ queue \in [Sessions -> Seq(AllPackets)]
  BY DEF BaseInv, TypeInv, TypeOK
<1>3. /\ \A g \in Handlers \ {h} : Same(g)
      /\ UNCHANGED <<log, received, heard, poll>>
      /\ queue' = queue \/ queue' = [queue EXCEPT ![s] = Append(@, p)]
  BY <1>1 DEF Hands
<1>4. \A v \in Sessions : \/ queue'[v] = queue[v]
                          \/ v = s /\ queue'[v] = Append(queue[v], p)
  BY <1>2, <1>3
<1>5. \A v \in Sessions : \/ Flow(v)' = Flow(v)
                          \/ v = s /\ p.kind = "message" /\ Flow(v)' = Append(Flow(v), p.arg)
  BY <1>3, <1>4, FlowMore
<1>6. \/ handler'[h] = Idle
      \/ handler'[h] = next
      \/ Writes(h, s, p, next)
  BY <1>1, <1>2 DEF Hands, Panic
<1>7. /\ Idle.msg = 0 /\ Idle.write = NoWrite /\ NoWrite.packet.kind = "none"
      /\ next.msg = M /\ next.write = NoWrite
  BY <1>1 DEF GoesOn, Idle, NoWrite, Packet
<1>8. CASE M = 0
  <2>1. p.kind # "message"
    BY <1>1, <1>8 DEF Gives, Packet
  <2>2. handler'[h].msg = 0 /\ handler'[h].write.packet.kind # "message"
    BY <1>6, <1>7, <1>8, <2>1 DEF Writes
  <2>3. \A v \in Sessions : Flow(v)' = Flow(v)
    BY <1>5, <2>1
  <2>4. \A g \in Handlers : handler'[g].msg # 0 =>
           /\ handler'[g].msg = handler[g].msg /\ handler'[g].session = handler[g].session
           /\ handler'[g].targets = handler[g].targets
    BY <1>3, <2>2 DEF Same
  <2>5. \A g \in Handlers : handler'[g].write.packet.kind = "message" =>
           /\ handler'[g].write.packet = handler[g].write.packet
           /\ handler'[g].write.to = handler[g].write.to
           /\ handler'[g].msg = handler[g].msg
    BY <1>3, <2>2 DEF Same
  <2> QED
    BY <1>3, <2>3, <2>4, <2>5, KeepsOrder
<1>9. CASE M # 0
  <2>1. handler[h].pc = "deliver" /\ M \in DOMAIN log
    BY <1>9 DEF BaseInv, JobInv
  <2>2. /\ p = Packet("message", M) /\ s \in handler[h].targets
        /\ next = [handler[h] EXCEPT !.targets = @ \ {s}]
    BY <1>1, <1>9, <2>1 DEF Gives
  <2>3. handler[h] \in Jobs /\ handler[h].targets \subseteq Sessions
    BY <1>2 DEF Jobs
  <2>4. next.targets = handler[h].targets \ {s} /\ next.session = handler[h].session
    BY <2>2, <2>3 DEF Jobs
  <2>5. p.kind = "message" /\ p.arg = M
    BY <2>2 DEF Packet
  <2>6. /\ log[M].author = Author(h) /\ \A m \in DOMAIN log : log[m].author = Author(h) => m <= M
        /\ \A v \in handler[h].targets : M \notin Range(Flow(v)) /\ M \notin Range(heard[v])
    BY <1>9 DEF OrderInv, NewestInv, Got
  <2>7. \A g \in Handlers \ {h} : handler[g].msg # 0 => handler[g].msg # M
    BY <1>9, <2>1, <2>6 DEF OrderInv, NewestInv, AuthorsDiffer, BaseInv, JobInv
  <2>8. /\ Sorted(Append(Flow(s), M), log)
        /\ Range(Append(Flow(s), M)) = Range(Flow(s)) \cup {M}
        /\ Range(Append(Flow(s), M)) \subseteq DOMAIN log
    <3>1. Flow(s) \in Seq(Args) /\ Sorted(Flow(s), log) /\ Range(Flow(s)) \subseteq DOMAIN log
      BY FlowTyped DEF OrderInv, FlowInv
    <3> QED
      BY <2>1, <2>2, <2>6, <3>1, NewestLast
  <2>9. \A v \in Sessions : /\ v # s => Flow(v)' = Flow(v)
                            /\ Range(Flow(v)') \subseteq Range(Flow(v)) \cup {M}
    BY <1>5, <2>5, <2>8
  <2>10. FlowInv'
    <3> SUFFICES ASSUME NEW v \in Sessions
                 PROVE  /\ Sorted(Flow(v)', log) /\ Range(Flow(v)') \subseteq DOMAIN log
                        /\ Sorted(heard[v], log) /\ Range(heard[v]) \subseteq DOMAIN log
      BY <1>3 DEF FlowInv
    <3>1. /\ Sorted(Flow(v), log) /\ Range(Flow(v)) \subseteq DOMAIN log
          /\ Sorted(heard[v], log) /\ Range(heard[v]) \subseteq DOMAIN log
      BY DEF OrderInv, FlowInv
    <3> QED
      BY <1>5, <2>5, <2>8, <3>1
  <2> HIDE DEF M
  <2>11. WriteInv'
    <3> SUFFICES ASSUME NEW g \in Handlers, handler'[g].write.packet.kind = "message"
                 PROVE  /\ handler'[g].msg # 0
                        /\ handler'[g].write.packet = Packet("message", handler'[g].msg)
      BY DEF WriteInv
    <3>1. CASE g # h
      BY <1>3, <3>1 DEF Same, OrderInv, WriteInv
    <3>2. CASE g = h
      BY <1>6, <1>7, <1>9, <2>2, <3>2 DEF Writes
    <3> QED
      BY <3>1, <3>2
  <2>12. NewestInv'
    <3> SUFFICES ASSUME NEW g \in Handlers, handler'[g].msg # 0
                 PROVE  /\ log[handler'[g].msg].author = Author(g)'
                        /\ \A m \in DOMAIN log : log[m].author = Author(g)' => m <= handler'[g].msg
                        /\ \A v \in handler'[g].targets :
                              handler'[g].msg \notin Range(Flow(v)') \cup Range(heard[v])
                        /\ handler'[g].write.packet.kind = "message" =>
                              /\ handler'[g].msg \notin Range(heard[handler'[g].write.to])
                              /\ handler'[g].write.to \notin handler'[g].targets
      BY <1>3 DEF NewestInv, Got
    <3>1. CASE g # h
      <4>1. /\ handler'[g].msg = handler[g].msg /\ handler'[g].session = handler[g].session
            /\ handler'[g].targets = handler[g].targets
            /\ handler'[g].write.packet = handler[g].write.packet
            /\ handler'[g].write.to = handler[g].write.to
        BY <1>3, <3>1 DEF Same
      <4>2. Author(g)' = Author(g) /\ handler[g].msg # 0 /\ handler[g].msg # M
        BY <2>7, <3>1, <4>1 DEF Author
      <4>3. handler[g].targets \subseteq Sessions
        BY <1>2 DEF Jobs
      <4>4. \A v \in handler[g].targets : handler[g].msg \notin Range(Flow(v)) \cup Range(heard[v])
        BY <4>2 DEF OrderInv, NewestInv, Got
      <4>5. \A v \in handler[g].targets : handler[g].msg \notin Range(Flow(v)') \cup Range(heard[v])
        BY <2>9, <4>2, <4>3, <4>4
      <4>6. /\ log[handler[g].msg].author = Author(g)
            /\ \A m \in DOMAIN log : log[m].author = Author(g) => m <= handler[g].msg
            /\ handler[g].write.packet.kind = "message" =>
                  /\ handler[g].msg \notin Range(heard[handler[g].write.to])
                  /\ handler[g].write.to \notin handler[g].targets
        BY <4>2 DEF OrderInv, NewestInv
      <4> QED
        BY <4>1, <4>2, <4>5, <4>6
    <3>2. CASE g = h
      <4>1. /\ handler'[h].msg = M /\ handler'[h].session = handler[h].session
            /\ handler'[h].targets = handler[h].targets \ {s}
            /\ handler'[h].write.packet.kind = "message" => handler'[h].write.to = s
        BY <1>6, <1>7, <2>4, <3>2 DEF Writes
      <4>2. Author(h)' = Author(h)
        BY <4>1 DEF Author
      <4>3. \A v \in handler'[h].targets : M \notin Range(Flow(v)') \cup Range(heard[v])
        BY <2>3, <2>6, <2>9, <4>1
      <4> QED
        BY <2>2, <2>6, <3>2, <4>1, <4>2, <4>3
    <3> QED
      BY <3>1, <3>2
  <2> QED
    BY <2>10, <2>11, <2>12 DEF OrderInv
<1> QED
  BY <1>8, <1>9

\* A message at the end.
LEMMA ArgsOfOne == \A xs \in Seq(Args), x \in Args : xs \o <<x>> = Append(xs, x)
OBVIOUS

\* A write that ends puts its message last of what its client has heard.
LEMMA EndWriteOrders ==
    ASSUME BaseInv, AuthorsDiffer, OrderInv, NEW h \in Handlers, EndWrite(h)
    PROVE  OrderInv'
<1> DEFINE w == handler[h].write
           M == handler[h].msg
<1>1. /\ handler \in [Handlers -> Jobs] /\ heard \in [Sessions -> Seq(Args)]
  BY DEF BaseInv, TypeInv, TypeOK, HistoryInv
<1>2. /\ UNCHANGED <<log, received, poll, queue>>
      /\ w.to \in Sessions /\ w.packet \in AllPackets
  BY <1>1 DEF EndWrite, Jobs, BaseInv, JobInv
<1>3. \A v \in Sessions : Flow(v)' = Flow(v)
  BY <1>2 DEF Flow, Unread
<1>4. /\ \A g \in Handlers \ {h} : handler'[g] = handler[g]
      /\ handler'[h].write = NoWrite
      /\ \/ handler'[h].msg = 0
         \/ /\ handler'[h].msg = M /\ handler'[h].targets = handler[h].targets
            /\ handler'[h].session = handler[h].session
  <2>1. \/ handler' = [handler EXCEPT ![h] = Idle]
        \/ handler' = [handler EXCEPT ![h].write = NoWrite]
    BY DEF EndWrite, Panic
  <2>2. /\ \A g \in Handlers \ {h} : handler'[g] = handler[g]
        /\ handler'[h] = Idle \/ handler'[h] = [handler[h] EXCEPT !.write = NoWrite]
        /\ handler[h] \in Jobs
    BY <1>1, <2>1
  <2> QED
    BY <2>2 DEF Jobs, Idle
<1>5. NoWrite.packet.kind = "none"
  BY DEF NoWrite, Packet
<1>6. heard' = heard \/ heard' = [heard EXCEPT ![w.to] = @ \o Messages(<<w.packet>>)]
  BY DEF EndWrite
<1>7. Messages(<<w.packet>>) = IF w.packet.kind = "message" THEN <<w.packet.arg>> ELSE <<>>
  <2>1. <<>> \in Seq(AllPackets) /\ Append(<<>>, w.packet) = <<w.packet>>
    OBVIOUS
  <2>2. Append(<<>>, w.packet.arg) = <<w.packet.arg>>
    OBVIOUS
  <2>3. Messages(Append(<<>>, w.packet)) =
           IF w.packet.kind = "message" THEN Append(Messages(<<>>), w.packet.arg) ELSE Messages(<<>>)
    BY <1>2, <2>1, MessagesOfMore
  <2> HIDE DEF w
  <2> QED
    BY <2>1, <2>2, <2>3, MessagesOfNone
<1>8. CASE heard' = heard
  <2>1. \A g \in Handlers : handler'[g].msg # 0 =>
           /\ handler'[g].msg = handler[g].msg /\ handler'[g].session = handler[g].session
           /\ handler'[g].targets = handler[g].targets
    BY <1>4
  <2>2. \A g \in Handlers : handler'[g].write.packet.kind = "message" =>
           /\ handler'[g].write.packet = handler[g].write.packet
           /\ handler'[g].write.to = handler[g].write.to
           /\ handler'[g].msg = handler[g].msg
    BY <1>4, <1>5
  <2> QED
    BY <1>2, <1>3, <1>8, <2>1, <2>2, KeepsOrder
<1>9. CASE heard' # heard
  <2> DEFINE t == w.to
  <2>1. heard[t] \in Seq(Args) /\ heard' = [heard EXCEPT ![t] = heard[t] \o Messages(<<w.packet>>)]
    BY <1>1, <1>2, <1>6, <1>9
  <2>2. w.packet.kind = "message"
    <3>1. ASSUME w.packet.kind # "message"
          PROVE  FALSE
      <4>1. heard[t] \o <<>> = heard[t]
        BY <2>1
      <4>2. heard' = [heard EXCEPT ![t] = heard[t]]
        BY <1>7, <2>1, <3>1, <4>1
      <4> QED
        BY <1>1, <1>9, <4>2
    <3> QED
      BY <3>1
  <2>3. M # 0 /\ w.packet.arg = M
    <3>1. M # 0 /\ w.packet = Packet("message", M)
      BY <2>2 DEF OrderInv, WriteInv
    <3>2. Packet("message", M).arg = M
      BY DEF Packet
    <3> QED
      BY <3>1, <3>2
  <2>4. M \in DOMAIN log /\ handler[h].pc = "deliver"
    BY <2>3 DEF BaseInv, JobInv
  <2>5. M \in Args
    BY <2>4, LogTyped DEF BaseInv, TypeInv, Args
  <2>6. heard'[t] = Append(heard[t], M) /\ \A v \in Sessions \ {t} : heard'[v] = heard[v]
    <3>1. heard[t] \o <<M>> = Append(heard[t], M)
      BY <2>1, <2>5, ArgsOfOne, Zenon
    <3>2. Messages(<<w.packet>>) = <<M>>
      BY <1>7, <2>2, <2>3
    <3> QED
      BY <1>1, <1>2, <2>1, <3>1, <3>2
  <2>7. /\ log[M].author = Author(h) /\ \A m \in DOMAIN log : log[m].author = Author(h) => m <= M
        /\ \A v \in handler[h].targets : ~Got(v, M)
        /\ M \notin Range(heard[t]) /\ t \notin handler[h].targets
    BY <2>2, <2>3 DEF OrderInv, NewestInv
  <2>8. \A g \in Handlers \ {h} : handler[g].msg # 0 => handler[g].msg # M
    BY <2>3, <2>4, <2>7 DEF OrderInv, NewestInv, AuthorsDiffer, BaseInv, JobInv
  <2>9. /\ Sorted(Append(heard[t], M), log)
        /\ Range(Append(heard[t], M)) = Range(heard[t]) \cup {M}
        /\ Range(Append(heard[t], M)) \subseteq DOMAIN log
    <3>1. Sorted(heard[t], log) /\ Range(heard[t]) \subseteq DOMAIN log
      BY <1>2 DEF OrderInv, FlowInv
    <3> QED
      BY <2>1, <2>4, <2>7, <3>1, NewestLast
  <2> HIDE DEF t
  <2>10. FlowInv'
    <3> SUFFICES ASSUME NEW v \in Sessions
                 PROVE  /\ Sorted(Flow(v), log) /\ Range(Flow(v)) \subseteq DOMAIN log
                        /\ Sorted(heard'[v], log) /\ Range(heard'[v]) \subseteq DOMAIN log
      BY <1>2, <1>3 DEF FlowInv
    <3>1. /\ Sorted(Flow(v), log) /\ Range(Flow(v)) \subseteq DOMAIN log
          /\ Sorted(heard[v], log) /\ Range(heard[v]) \subseteq DOMAIN log
      BY DEF OrderInv, FlowInv
    <3>2. CASE v = t
      BY <2>6, <2>9, <3>1, <3>2
    <3>3. CASE v # t
      BY <2>6, <3>1, <3>3
    <3> QED
      BY <3>2, <3>3
  <2>11. WriteInv'
    BY <1>4, <1>5 DEF OrderInv, WriteInv
  <2>12. NewestInv'
    <3> SUFFICES ASSUME NEW g \in Handlers, handler'[g].msg # 0
                 PROVE  /\ log[handler'[g].msg].author = Author(g)'
                        /\ \A m \in DOMAIN log : log[m].author = Author(g)' => m <= handler'[g].msg
                        /\ \A v \in handler'[g].targets :
                              handler'[g].msg \notin Range(Flow(v)') \cup Range(heard'[v])
                        /\ handler'[g].write.packet.kind = "message" =>
                              /\ handler'[g].msg \notin Range(heard'[handler'[g].write.to])
                              /\ handler'[g].write.to \notin handler'[g].targets
      BY <1>2 DEF NewestInv, Got
    <3>1. handler[g].targets \subseteq Sessions /\ handler[g].write.to \in Sessions \cup {NoSession}
      BY <1>1 DEF Jobs
    <3>2. /\ handler'[g].msg = handler[g].msg /\ handler'[g].session = handler[g].session
          /\ handler'[g].targets = handler[g].targets
      BY <1>4
    <3>3. Author(g)' = Author(g) /\ handler[g].msg # 0
      BY <3>2 DEF Author
    <3>4. /\ log[handler[g].msg].author = Author(g)
          /\ \A m \in DOMAIN log : log[m].author = Author(g) => m <= handler[g].msg
          /\ \A v \in handler[g].targets : handler[g].msg \notin Range(Flow(v)) \cup Range(heard[v])
          /\ handler[g].write.packet.kind = "message" =>
                /\ handler[g].msg \notin Range(heard[handler[g].write.to])
                /\ handler[g].write.to \notin handler[g].targets
      BY <3>3 DEF OrderInv, NewestInv, Got
    <3>5. CASE g # h
      <4>1. handler[g].msg # M /\ handler'[g] = handler[g]
        BY <1>4, <2>8, <3>3, <3>5
      <4>2. \A v \in Sessions : handler[g].msg \in Range(heard'[v]) => handler[g].msg \in Range(heard[v])
        BY <2>6, <2>9, <4>1
      <4>3. \A v \in handler[g].targets : handler[g].msg \notin Range(Flow(v)') \cup Range(heard'[v])
        BY <1>3, <3>1, <3>4, <4>2
      <4>4. ASSUME handler[g].write.packet.kind = "message"
            PROVE  handler[g].msg \notin Range(heard'[handler[g].write.to])
        <5>1. handler[g].write.to \in Sessions
          BY <1>5, <4>4 DEF BaseInv, JobInv
        <5> QED
          BY <3>4, <4>2, <4>4, <5>1
      <4> QED
        BY <3>2, <3>3, <3>4, <4>1, <4>3, <4>4
    <3>6. CASE g = h
      <4>1. handler'[g].write.packet.kind # "message"
        BY <1>4, <1>5, <3>6
      <4>2. \A v \in handler[g].targets : heard'[v] = heard[v] /\ Flow(v)' = Flow(v)
        BY <1>3, <2>6, <2>7, <3>1, <3>6
      <4> QED
        BY <3>2, <3>3, <3>4, <4>1, <4>2
    <3> QED
      BY <3>5, <3>6
  <2> QED
    BY <2>10, <2>11, <2>12 DEF OrderInv
<1> QED
  BY <1>8, <1>9

\* A broadcast that begins: its message is the newest of all.
LEMMA StartOrders ==
    ASSUME BaseInv, AuthorsDiffer, OrderInv, NEW h \in Handlers, StartBroadcast(h)
    PROVE  OrderInv'
<1> DEFINE audience == members[handler[h].room]
           entry == [author |-> Author(h), audience |-> audience]
           k == Len(log) + 1
<1>1. /\ handler \in [Handlers -> Jobs] /\ Len(log) \in Nat /\ DOMAIN log = 1..Len(log)
      /\ members \in [Rooms -> SUBSET Sessions]
      /\ \A m \in DOMAIN log : m \in Nat \ {0}
  BY LogTyped DEF BaseInv, TypeInv, TypeOK
<1>2. /\ UNCHANGED <<received, heard, poll, queue>>
      /\ handler[h].write = NoWrite /\ handler[h].pc \in {"announce", "message"}
      /\ \/ log' = log
         \/ handler[h].pc = "message" /\ log' = Append(log, entry)
  BY DEF StartBroadcast, At, client
<1>3. handler[h].msg = 0
  BY <1>2 DEF BaseInv, JobInv
<1>4. /\ \A g \in Handlers \ {h} : handler'[g] = handler[g]
      /\ handler'[h].session = handler[h].session /\ handler'[h].write = NoWrite
      /\ handler'[h].targets = audience
      /\ handler'[h].msg = IF At(h, "message") THEN k ELSE 0
  <2> DEFINE msg == IF At(h, "message") THEN k ELSE 0
  <2>1. handler' = [handler EXCEPT ![h].pc = "deliver", ![h].targets = audience, ![h].msg = msg]
    BY DEF StartBroadcast
  <2> HIDE DEF audience, msg
  <2>2. /\ \A g \in Handlers \ {h} : handler'[g] = handler[g]
        /\ handler'[h] = [handler[h] EXCEPT !.pc = "deliver", !.targets = audience, !.msg = msg]
        /\ handler[h] \in Jobs
    BY <1>1, <2>1
  <2>3. /\ handler'[h].session = handler[h].session /\ handler'[h].write = handler[h].write
        /\ handler'[h].targets = audience /\ handler'[h].msg = msg
    BY <2>2 DEF Jobs
  <2> QED
    BY <1>2, <2>2, <2>3 DEF msg
<1>5. \A v \in Sessions : Flow(v)' = Flow(v)
  BY <1>2 DEF Flow, Unread
<1>6. NoWrite.packet.kind = "none"
  BY DEF NoWrite, Packet
<1>7. CASE ~At(h, "message")
  <2>1. log' = log
    BY <1>2, <1>7 DEF At
  <2>2. \A g \in Handlers : handler'[g].msg # 0 =>
           /\ handler'[g].msg = handler[g].msg /\ handler'[g].session = handler[g].session
           /\ handler'[g].targets = handler[g].targets
    BY <1>4, <1>7
  <2>3. \A g \in Handlers : handler'[g].write.packet.kind = "message" =>
           /\ handler'[g].write.packet = handler[g].write.packet
           /\ handler'[g].write.to = handler[g].write.to
           /\ handler'[g].msg = handler[g].msg
    BY <1>4, <1>6
  <2> QED
    BY <1>2, <1>5, <2>1, <2>2, <2>3, KeepsOrder
<1>8. CASE At(h, "message")
  <2>1. log' = Append(log, entry)
    BY <1>8 DEF StartBroadcast, At
  <2>2. /\ DOMAIN log' = DOMAIN log \cup {k} /\ k \notin DOMAIN log /\ k \in Nat \ {0}
        /\ \A m \in DOMAIN log : log'[m] = log[m] /\ m <= k
        /\ log'[k] = entry
    <3>1. /\ DOMAIN log' = 1..k /\ \A m \in 1..Len(log) : log'[m] = log[m]
          /\ log'[k] = entry
      BY <2>1 DEF BaseInv, TypeInv, TypeOK
    <3> HIDE DEF entry
    <3> QED
      BY <1>1, <3>1
  <2>3. log'[k].author = Author(h)
    BY <2>2
  <2>4. handler'[h].msg = k
    BY <1>4, <1>8
  <2> HIDE DEF entry, k
  <2>5. FlowInv'
    <3> SUFFICES ASSUME NEW v \in Sessions
                 PROVE  /\ Sorted(Flow(v), log') /\ Range(Flow(v)) \subseteq DOMAIN log'
                        /\ Sorted(heard[v], log') /\ Range(heard[v]) \subseteq DOMAIN log'
      BY <1>2, <1>5 DEF FlowInv
    <3>1. /\ Sorted(Flow(v), log) /\ Range(Flow(v)) \subseteq DOMAIN log
          /\ Sorted(heard[v], log) /\ Range(heard[v]) \subseteq DOMAIN log
      BY DEF OrderInv, FlowInv
    <3>2. /\ \A m \in Range(Flow(v)) : log'[m] = log[m]
          /\ \A m \in Range(heard[v]) : log'[m] = log[m]
      BY <2>2, <3>1
    <3> QED
      BY <2>2, <3>1, <3>2, SortedLater
  <2>6. WriteInv'
    <3> SUFFICES ASSUME NEW g \in Handlers, handler'[g].write.packet.kind = "message"
                 PROVE  /\ handler'[g].msg # 0
                        /\ handler'[g].write.packet = Packet("message", handler'[g].msg)
      BY DEF WriteInv
    <3>1. g # h
      BY <1>4, <1>6
    <3> QED
      BY <1>4, <3>1 DEF OrderInv, WriteInv
  <2>7. NewestInv'
    <3> SUFFICES ASSUME NEW g \in Handlers, handler'[g].msg # 0
                 PROVE  /\ log'[handler'[g].msg].author = Author(g)'
                        /\ \A m \in DOMAIN log' : log'[m].author = Author(g)' => m <= handler'[g].msg
                        /\ \A v \in handler'[g].targets :
                              handler'[g].msg \notin Range(Flow(v)') \cup Range(heard[v])
                        /\ handler'[g].write.packet.kind = "message" =>
                              /\ handler'[g].msg \notin Range(heard[handler'[g].write.to])
                              /\ handler'[g].write.to \notin handler'[g].targets
      BY <1>2 DEF NewestInv, Got
    <3>1. Author(g)' = Author(g)
      BY <1>4 DEF Author
    <3>2. CASE g # h
      <4>1. handler'[g] = handler[g] /\ handler[g].msg # 0
        BY <1>4, <3>2
      <4>2. /\ handler[g].msg \in DOMAIN log /\ handler[g].pc = "deliver"
        BY <4>1 DEF BaseInv, JobInv
      <4>3. Author(g) # Author(h)
        BY <1>2, <3>2, <4>2 DEF AuthorsDiffer
      <4>4. handler[g].targets \subseteq Sessions
        BY <1>1 DEF Jobs
      <4>5. /\ log[handler[g].msg].author = Author(g)
            /\ \A m \in DOMAIN log : log[m].author = Author(g) => m <= handler[g].msg
            /\ \A v \in handler[g].targets : handler[g].msg \notin Range(Flow(v)) \cup Range(heard[v])
            /\ handler[g].write.packet.kind = "message" =>
                  /\ handler[g].msg \notin Range(heard[handler[g].write.to])
                  /\ handler[g].write.to \notin handler[g].targets
        BY <4>1 DEF OrderInv, NewestInv, Got
      <4>6. \A m \in DOMAIN log' : log'[m].author = Author(g) => m <= handler[g].msg
        BY <2>2, <2>3, <4>3, <4>5
      <4>7. \A v \in handler[g].targets : handler[g].msg \notin Range(Flow(v)') \cup Range(heard[v])
        BY <1>5, <4>4, <4>5
      <4> QED
        BY <2>2, <3>1, <4>1, <4>2, <4>5, <4>6, <4>7
    <3>3. CASE g = h
      <4>1. handler'[h].targets \subseteq Sessions
        <5>1. handler[h].room \in Rooms
          BY <1>2 DEF BaseInv, TypeInv, WorkInv
        <5> QED
          BY <1>1, <1>4, <5>1
      <4>2. \A v \in handler'[h].targets : k \notin Range(Flow(v)') \cup Range(heard[v])
        BY <1>5, <2>2, <4>1 DEF OrderInv, FlowInv
      <4>3. \A m \in DOMAIN log' : m <= k
        BY <2>2
      <4> QED
        BY <1>4, <1>6, <2>3, <2>4, <3>1, <3>3, <4>2, <4>3
    <3> QED
      BY <3>2, <3>3
  <2> QED
    BY <2>5, <2>6, <2>7 DEF OrderInv
<1> QED
  BY <1>7, <1>8

\* A poll keeps the order of the queue, and one that is given up loses a part.
LEMMA PollingOrders ==
    ASSUME BaseInv, OrderInv, NEW s \in Sessions, Polling(s) \/ AbortPoll(s)
    PROVE  OrderInv'
<1>1. UNCHANGED <<heard, handler, log>>
  BY DEF Polling, Poll, DrainOne, Respond, RespondToNobody, AbortPoll, client
<1>2. /\ queue \in [Sessions -> Seq(AllPackets)] /\ received \in [Sessions -> Seq(Args)]
      /\ poll \in [Sessions -> [on : BOOLEAN, aborted : BOOLEAN, batch : Seq(AllPackets)]]
  BY DEF BaseInv, TypeInv, TypeOK, HistoryInv
<1>3. \A t \in Sessions \ {s} : /\ poll'[t] = poll[t] /\ queue'[t] = queue[t]
                                /\ received'[t] = received[t]
  BY <1>2 DEF Polling, Poll, DrainOne, Respond, RespondToNobody, AbortPoll, client
<1> DEFINE xs == received[s]
           ys == Messages(poll[s].batch)
           zs == Messages(queue[s])
<1>4. /\ xs \in Seq(Args) /\ ys \in Seq(Args) /\ zs \in Seq(Args)
      /\ Flow(s) = xs \o (ys \o zs) /\ Flow(s) \in Seq(Args)
  BY FlowTyped
<1>5. poll[s].batch \in Seq(AllPackets) /\ queue[s] \in Seq(AllPackets)
  BY <1>2
<1>6. Flow(s)' = Flow(s) \/ Flow(s)' = xs \o zs
  <2>1. CASE Poll(s) \/ AbortPoll(s)
    <3>1. poll'[s].batch = poll[s].batch /\ UNCHANGED <<received, queue>>
      BY <1>2, <2>1 DEF Poll, AbortPoll, client
    <3> QED
      BY <3>1 DEF Flow, Unread
  <2>2. CASE DrainOne(s)
    <3>1. /\ poll'[s].batch = Append(poll[s].batch, Head(queue[s])) /\ queue'[s] = Tail(queue[s])
          /\ received' = received /\ queue[s] # <<>>
      BY <1>2, <2>2 DEF DrainOne, client
    <3>2. poll'[s].batch \o queue'[s] = poll[s].batch \o queue[s]
      BY <1>5, <3>1, MovesOne
    <3> QED
      BY <3>1, <3>2 DEF Flow, Unread
  <2>3. CASE Respond(s)
    <3>1. /\ received'[s] = xs \o ys /\ poll'[s].batch = <<>> /\ queue' = queue
      BY <1>2, <2>3 DEF Respond, NoPoll
    <3>2. poll'[s].batch \o queue'[s] = queue[s]
      BY <1>5, <3>1, MovesOne
    <3>3. Flow(s)' = (xs \o ys) \o zs
      BY <3>1, <3>2 DEF Flow, Unread
    <3> QED
      BY <1>4, <3>3, ArgsOfThree, Zenon
  <2>4. CASE RespondToNobody(s)
    <3>1. /\ received' = received /\ poll'[s].batch = <<>> /\ queue' = queue
      BY <1>2, <2>4 DEF RespondToNobody, NoPoll
    <3>2. poll'[s].batch \o queue'[s] = queue[s]
      BY <1>5, <3>1, MovesOne
    <3> QED
      BY <3>1, <3>2 DEF Flow, Unread
  <2> QED
    BY <2>1, <2>2, <2>3, <2>4 DEF Polling
<1>7. /\ Sorted(Flow(s), log) => Sorted(Flow(s)', log)
      /\ Range(Flow(s)') \subseteq Range(Flow(s))
  <2>1. /\ Sorted(xs \o (ys \o zs), log) => Sorted(xs \o zs, log)
        /\ Range(xs \o zs) \subseteq Range(xs \o (ys \o zs))
    BY <1>4, SortedWithout, Zenon
  <2> HIDE DEF xs, ys, zs
  <2> QED
    BY <1>4, <1>6, <2>1
<1>8. \A t \in Sessions : /\ Sorted(Flow(t), log) => Sorted(Flow(t)', log)
                          /\ Range(Flow(t)') \subseteq Range(Flow(t))
  <2>1. ASSUME NEW t \in Sessions, t # s
        PROVE  Flow(t)' = Flow(t)
    BY <1>3, <2>1 DEF Flow, Unread
  <2> QED
    BY <1>7, <2>1
<1> QED
  BY <1>1, <1>8, KeepsOrder

\* Every step keeps the order.
LEMMA OrderStep == BaseInv /\ AuthorsDiffer /\ OrderInv /\ [Next]_vars => OrderInv'
<1> SUFFICES ASSUME BaseInv, AuthorsDiffer, OrderInv, [Next]_vars
             PROVE  OrderInv'
  OBVIOUS
<1>1. handler \in [Handlers -> Jobs] /\ Conns \subseteq Handlers
  BY DEF BaseInv, TypeInv, TypeOK, Handlers
<1>2. ASSUME UNCHANGED <<received, heard, poll, queue, log>>,
             \A g \in Handlers : handler'[g].msg # 0 =>
                /\ handler'[g].msg = handler[g].msg /\ handler'[g].session = handler[g].session
                /\ handler'[g].targets = handler[g].targets,
             \A g \in Handlers : handler'[g].write.packet.kind = "message" =>
                /\ handler'[g].write = handler[g].write /\ handler'[g].msg = handler[g].msg
      PROVE  OrderInv'
  <2>1. \A s \in Sessions : Flow(s)' = Flow(s)
    BY <1>2 DEF Flow, Unread
  <2> QED
    BY <1>2, <2>1, KeepsOrder
<1>3. CASE UNCHANGED vars
  BY <1>2, <1>3 DEF vars, client
<1>4. ASSUME NEW s \in Sessions, NewSession(s) \/ Polling(s) \/ AbortPoll(s)
      PROVE  OrderInv'
  <2>1. CASE NewSession(s)
    BY <1>2, <2>1 DEF NewSession, client
  <2> QED
    BY <1>4, <2>1, PollingOrders
<1>5. ASSUME NEW c \in Conns, (\E s \in Sessions : FindSession(c, s)) \/ RemoveSession(c)
      PROVE  OrderInv'
  <2>1. UNCHANGED <<received, heard, poll, queue, log, handler>>
    BY <1>5 DEF FindSession, RemoveSession, client
  <2> QED
    BY <1>2, <2>1
<1>6. ASSUME NEW c \in Conns, OpenSocket(c)
      PROVE  OrderInv'
  <2>1. UNCHANGED <<received, heard, poll, queue, log>>
    BY <1>6 DEF OpenSocket, client
  <2>2. PICK write : /\ handler' = [handler EXCEPT ![c].write = write]
                     /\ write.packet = NoWrite.packet
    <3>1. [NoWrite EXCEPT !.conn = c, !.to = conn[c].session].packet = NoWrite.packet
      BY DEF NoWrite
    <3> QED
      BY <1>6, <3>1 DEF OpenSocket
  <2>3. /\ \A g \in Handlers \ {c} : handler'[g] = handler[g]
        /\ handler'[c] = [handler[c] EXCEPT !.write = write] /\ handler[c] \in Jobs
    BY <1>1, <2>2
  <2>4. /\ handler'[c].msg = handler[c].msg /\ handler'[c].session = handler[c].session
        /\ handler'[c].targets = handler[c].targets /\ handler'[c].write = write
    BY <2>3 DEF Jobs
  <2>5. write.packet.kind = "none"
    BY <2>2 DEF NoWrite, Packet
  <2> QED
    BY <1>2, <2>1, <2>3, <2>4, <2>5
<1>7. ASSUME NEW h \in Handlers,
             \/ \E s \in Sessions, k \in Packets, r \in Rooms : Receive(h, s, k, r)
             \/ \E r \in Rooms : BroadcastMessage(h, r)
             \/ JoinRoom(h) \/ LeaveRoom(h) \/ EndBroadcast(h)
      PROVE  OrderInv'
  <2>1. UNCHANGED <<received, heard, poll, queue, log>>
    BY <1>7 DEF Receive, BroadcastMessage, JoinRoom, LeaveRoom, EndBroadcast, client
  <2>2. \A g \in Handlers \ {h} : handler'[g] = handler[g]
    BY <1>1, <1>7 DEF Receive, BroadcastMessage, JoinRoom, LeaveRoom, EndBroadcast
  <2>3. handler[h].write = NoWrite /\ NoWrite.packet.kind = "none"
    BY <1>7 DEF Receive, BroadcastMessage, JoinRoom, LeaveRoom, EndBroadcast, At, NoWrite, Packet
  <2>4. handler'[h].msg = 0 /\ handler'[h].write = NoWrite
    <3>1. CASE EndBroadcast(h)
      <4>1. handler'[h] = Idle
        BY <1>1, <3>1 DEF EndBroadcast
      <4> QED
        BY <4>1 DEF Idle
    <3>2. CASE ~EndBroadcast(h)
      <4>1. handler[h].pc \in {"idle", "join", "leave"}
        BY <1>7, <3>2 DEF Receive, BroadcastMessage, JoinRoom, LeaveRoom, At
      <4>2. handler[h].msg = 0
        BY <4>1 DEF BaseInv, JobInv
      <4>3. PICK pc, session, room :
               handler'[h] = [handler[h] EXCEPT !.pc = pc, !.session = session, !.room = room]
        <5>1. CASE \E s \in Sessions, k \in Packets, r \in Rooms : Receive(h, s, k, r)
          <6>1. PICK s \in Sessions, k \in Packets, r \in Rooms :
                   handler' = [handler EXCEPT ![h].pc = k, ![h].session = s, ![h].room = r]
            BY <5>1 DEF Receive
          <6>2. handler'[h] = [handler[h] EXCEPT !.pc = k, !.session = s, !.room = r]
            BY <1>1, <6>1
          <6> QED
            BY <6>2
        <5>2. CASE \E r \in Rooms : BroadcastMessage(h, r)
          <6>1. PICK r \in Rooms : handler' = [handler EXCEPT ![h].pc = "message", ![h].room = r]
            BY <5>2 DEF BroadcastMessage
          <6>2. handler'[h] = [handler[h] EXCEPT !.pc = "message",
                                                 !.session = handler[h].session, !.room = r]
            BY <1>1, <6>1 DEF Jobs
          <6> QED
            BY <6>2
        <5>3. CASE JoinRoom(h) \/ LeaveRoom(h)
          <6>1. PICK step \in Steps : handler' = [handler EXCEPT ![h].pc = step]
            BY <5>3 DEF JoinRoom, LeaveRoom, Steps
          <6>2. handler'[h] = [handler[h] EXCEPT !.pc = step,
                                  !.session = handler[h].session, !.room = handler[h].room]
            BY <1>1, <6>1 DEF Jobs
          <6> QED
            BY <6>2
        <5> QED
          BY <1>7, <3>2, <5>1, <5>2, <5>3
      <4>4. handler[h] \in Jobs
        BY <1>1
      <4> QED
        BY <2>3, <4>2, <4>3, <4>4 DEF Jobs
    <3> QED
      BY <3>1, <3>2
  <2> QED
    BY <1>2, <2>1, <2>2, <2>3, <2>4
<1>8. ASSUME NEW h \in Handlers, Work(h)
      PROVE  OrderInv'
  BY <1>7, <1>8, HandOrders, EndWriteOrders, StartOrders DEF Work, Hand
<1> QED
  BY <1>3, <1>4, <1>5, <1>6, <1>7, <1>8 DEF Next

\* A client that uses one way to its session and posts one packet at a time
\* gets the messages of an author in the order they were sent, and none
\* twice, through its polls as through its websocket, however the
\* broadcasts, polls, writes and panics interleave.
THEOREM OrderKept ==
    ASSUME Orderly, ~Upgrades
    PROVE  Spec => []AuthorsInOrder
<1>1. BaseInv /\ UnusedInv /\ TruthInv /\ GhostInv => AuthorsDiffer
  BY AuthorsApart
<1>2. Init => OrderInv
  BY InitOrder
<1>3. BaseInv /\ AuthorsDiffer /\ OrderInv /\ [Next]_vars => OrderInv'
  BY OrderStep
<1>4. OrderInv => AuthorsInOrder
  BY DEF OrderInv, FlowInv, AuthorsInOrder, InOrder, Sorted, Flow
<1> QED
  BY <1>1, <1>2, <1>3, <1>4, Base, Unused, TruthKept, GhostsKept, PTL DEF Spec
====
