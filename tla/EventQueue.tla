----------------------------- MODULE EventQueue -----------------------------
(***************************************************************************)
(* The RabbitMQ queue between the services that publish and the worker of  *)
(* every API process.  The services publish event.created, event.ingested  *)
(* and the chat messages of the agents; the bindings also let in sync.*    *)
(* and evidence.* messages of others.  The broker keeps the order, gives a *)
(* worker up to Prefetch messages at a time and takes back those that are  *)
(* refused or were on a connection that broke.  The worker handles one     *)
(* message after the other; it acknowledges after it has stored and        *)
(* broadcast, and refuses, to get it again, what it could not handle.      *)
(***************************************************************************)
EXTENDS Naturals, Sequences, FiniteSets

CONSTANTS
    Messages,     \* messages published in a behaviour
    Kind,         \* what each of them is, see Kinds
    Workers,      \* workers, one for every process
    Prefetch,     \* unacknowledged messages of a worker, 5 in the code
    MaxFailures,  \* bound: broken connections and failed inserts
    NoMessage

\* "event":  event.*, for which the worker has nothing to do
\* "notice": notifications.frontend.#, a chat message of an agent
\* "work":   sync.* and evidence.*, stored as a queue_notification
\* "blank":  a message without event id
\* "broken": not JSON, or about an event the store refuses
Kinds == {"event", "notice", "work", "blank", "broken"}

ASSUME QueueAssumption ==
    /\ Kind \in [Messages -> Kinds]
    /\ Prefetch \in Nat \ {0}
    /\ MaxFailures \in Nat
    /\ NoMessage \notin Messages

VARIABLES
    unsent,     \* messages not yet published, or an agent's not yet broadcast
    told,       \* an agent's messages broadcast by the service and not published
    published,  \* what the broker has accepted, in order
    ready,      \* of these, the ones waiting for a worker
    held,       \* the unacknowledged ones of each worker, oldest first
    worker,     \* the goroutines
    publisher,  \* the one connection of the publisher is in order
    rows,       \* queue_notification rows in the messages table
    shown,      \* broadcasts to the chat rooms
    acked,      \* acknowledged messages
    unsure,     \* history: rows whose insert ended in an error all the same
    returned,   \* history: times a message came back with a broken connection
    relayed,    \* history: notices a worker has broadcast
    failures

broker == <<published, ready, held>>
effects == <<rows, unsure, shown, relayed>>
vars == <<unsent, told, broker, worker, publisher, effects, acked, returned, failures>>

Steps == {"down", "wait", "handle", "show", "ack", "nack"}
\* lost: the connection has broken while the message was being handled.
Down == [pc |-> "down", msg |-> NoMessage, lost |-> FALSE]

Elements(q) == {q[i] : i \in DOMAIN q}
At(w, step) == worker[w].pc = step
Goto(w, step) == worker' = [worker EXCEPT ![w].pc = step]

Init ==
    /\ unsent = Messages
    /\ told = {}
    /\ published = <<>>
    /\ ready = {}
    /\ held = [w \in Workers |-> <<>>]
    /\ worker = [w \in Workers |-> Down]
    /\ publisher = TRUE
    /\ rows = [m \in Messages |-> 0] /\ unsure = [m \in Messages |-> 0]
    /\ shown = [m \in Messages |-> 0]
    /\ acked = {}
    /\ returned = [m \in Messages |-> 0]
    /\ relayed = {}
    /\ failures = 0

Fails == failures < MaxFailures /\ failures' = failures + 1

-----------------------------------------------------------------------------
(* Publishing.                                                             *)

\* addAgentMessage broadcasts the stored message before it publishes it.
BroadcastMessage(m) ==
    /\ m \in unsent /\ Kind[m] = "notice"
    /\ unsent' = unsent \ {m}
    /\ told' = told \cup {m}
    /\ shown' = [shown EXCEPT ![m] = @ + 1]
    /\ UNCHANGED <<broker, worker, publisher, rows, unsure, relayed, acked, returned, failures>>

\* The caller ignores an error, and nothing confirms what was sent.
Publish(m) ==
    /\ m \in told \/ (m \in unsent /\ Kind[m] # "notice")
    /\ unsent' = unsent \ {m}
    /\ told' = told \ {m}
    /\ \/ /\ publisher
          /\ published' = Append(published, m)
          /\ ready' = ready \cup {m}
       \/ UNCHANGED <<published, ready>>
    /\ UNCHANGED <<held, worker, publisher, effects, acked, returned, failures>>

\* The publisher connects once, when the process starts.
PublisherBreaks ==
    /\ publisher /\ Fails
    /\ publisher' = FALSE
    /\ UNCHANGED <<unsent, told, broker, worker, effects, acked, returned>>

-----------------------------------------------------------------------------
(* The broker.                                                             *)

\* Place of a message in the queue; a message that comes back keeps it.
Place(m) == CHOOSE i \in DOMAIN published : published[i] = m
IsNext(m) == m \in ready /\ \A n \in ready : Place(m) <= Place(n)

\* The mutants, named for the mistake, each stand for a definition below.
\* The broker pushes the next message to a worker with room in its window.
Deliver(w, m) ==
    /\ ~At(w, "down") /\ ~worker[w].lost
    /\ Len(held[w]) < Prefetch
    /\ IsNext(m)
    /\ ready' = ready \ {m}
    /\ held' = [held EXCEPT ![w] = Append(@, m)]
    /\ UNCHANGED <<unsent, told, published, worker, publisher, effects, acked, returned, failures>>

\* The connection breaks: the broker has its messages again, the worker ends
\* after the message it is handling.
Disconnect(w) ==
    /\ ~At(w, "down") /\ ~worker[w].lost /\ Fails
    /\ ready' = ready \cup Elements(held[w])
    /\ held' = [held EXCEPT ![w] = <<>>]
    /\ returned' = [m \in Messages |->
                      IF m \in Elements(held[w]) THEN returned[m] + 1 ELSE returned[m]]
    /\ worker' = [worker EXCEPT ![w] = IF At(w, "wait") THEN Down ELSE [@ EXCEPT !.lost = TRUE]]
    /\ UNCHANGED <<unsent, told, published, publisher, effects, acked>>

\* The process stops and starts again.
Crash(w) ==
    /\ ~At(w, "down") /\ Fails
    /\ ready' = ready \cup Elements(held[w])
    /\ held' = [held EXCEPT ![w] = <<>>]
    /\ returned' = [m \in Messages |->
                      IF m \in Elements(held[w]) THEN returned[m] + 1 ELSE returned[m]]
    /\ worker' = [worker EXCEPT ![w] = Down]
    /\ UNCHANGED <<unsent, told, published, publisher, effects, acked>>

-----------------------------------------------------------------------------
(* The worker.                                                             *)

\* Three seconds after it ended, or later when the broker is not there.
Connect(w) ==
    /\ At(w, "down")
    /\ Goto(w, "wait")
    /\ UNCHANGED <<unsent, told, broker, publisher, effects, acked, returned, failures>>

\* The next delivery of the channel.
Take(w) ==
    /\ At(w, "wait") /\ held[w] # <<>>
    /\ worker' = [worker EXCEPT ![w].pc = "handle", ![w].msg = Head(held[w])]
    /\ UNCHANGED <<unsent, told, broker, publisher, effects, acked, returned, failures>>

\* Messages that need neither a row nor a broadcast, or cannot be decoded.
HandleOther(w) ==
    LET k == Kind[worker[w].msg] IN
    /\ At(w, "handle") /\ k \in {"event", "blank", "broken"}
    /\ Goto(w, IF k = "broken" THEN "nack" ELSE "ack")
    /\ UNCHANGED <<unsent, told, broker, publisher, effects, acked, returned, failures>>

HandleNotice(w) ==
    LET m == worker[w].msg IN
    /\ At(w, "handle") /\ Kind[m] = "notice"
    /\ shown' = [shown EXCEPT ![m] = @ + 1]
    /\ relayed' = relayed \cup {m}
    /\ Goto(w, "ack")
    /\ UNCHANGED <<unsent, told, broker, publisher, rows, unsure, acked, returned, failures>>

\* AddMessage inserts the row.
StoreNotification(w) ==
    LET m == worker[w].msg IN
    /\ At(w, "handle") /\ Kind[m] = "work"
    /\ rows' = [rows EXCEPT ![m] = @ + 1]
    /\ Goto(w, "show")
    /\ UNCHANGED <<unsent, told, broker, publisher, unsure, shown, relayed, acked, returned, failures>>

MutantStoreFailsIsIgnored(w) ==
    /\ At(w, "handle") /\ Kind[worker[w].msg] = "work" /\ Fails
    /\ Goto(w, "ack")
    /\ UNCHANGED <<unsent, told, broker, publisher, effects, acked, returned>>

\* It ends in an error, before or after the row was there.
StoreFails(w) ==
    LET m == worker[w].msg IN
    /\ At(w, "handle") /\ Kind[m] = "work" /\ Fails
    /\ \/ UNCHANGED <<rows, unsure>>
       \/ /\ rows' = [rows EXCEPT ![m] = @ + 1]
          /\ unsure' = [unsure EXCEPT ![m] = @ + 1]
    /\ Goto(w, "nack")
    /\ UNCHANGED <<unsent, told, broker, publisher, shown, relayed, acked, returned>>

MutantShowNotificationNacks(w) ==
    LET m == worker[w].msg IN
    /\ At(w, "show")
    /\ shown' = [shown EXCEPT ![m] = @ + 1]
    /\ Goto(w, IF shown[m] = 0 THEN "nack" ELSE "ack")
    /\ UNCHANGED <<unsent, told, broker, publisher, rows, unsure, relayed, acked, returned, failures>>

ShowNotification(w) ==
    LET m == worker[w].msg IN
    /\ At(w, "show")
    /\ shown' = [shown EXCEPT ![m] = @ + 1]
    /\ Goto(w, "ack")
    /\ UNCHANGED <<unsent, told, broker, publisher, rows, unsure, relayed, acked, returned, failures>>

\* After the message: on a broken connection the worker ends.
Proceed(w) == worker' = [worker EXCEPT ![w] = IF @.lost THEN Down ELSE [Down EXCEPT !.pc = "wait"]]

\* On a broken connection the acknowledgement is an error, and ignored.
Ack(w) ==
    /\ At(w, "ack")
    /\ IF worker[w].lost
         THEN UNCHANGED <<held, acked>>
         ELSE /\ held' = [held EXCEPT ![w] = Tail(@)]
              /\ acked' = acked \cup {worker[w].msg}
    /\ Proceed(w)
    /\ UNCHANGED <<unsent, told, published, ready, publisher, effects, returned, failures>>

MutantNackDrops(w) ==
    /\ At(w, "nack")
    /\ IF worker[w].lost
         THEN UNCHANGED <<held, ready>>
         ELSE /\ held' = [held EXCEPT ![w] = Tail(@)]
              /\ ready' = ready
    /\ Proceed(w)
    /\ UNCHANGED <<unsent, told, published, publisher, effects, acked, returned, failures>>

\* Refused, to be delivered again.
Nack(w) ==
    /\ At(w, "nack")
    /\ IF worker[w].lost
         THEN UNCHANGED <<held, ready>>
         ELSE /\ held' = [held EXCEPT ![w] = Tail(@)]
              /\ ready' = ready \cup {worker[w].msg}
    /\ Proceed(w)
    /\ UNCHANGED <<unsent, told, published, publisher, effects, acked, returned, failures>>

Work(w) ==
    \/ Connect(w) \/ Take(w) \/ HandleOther(w) \/ HandleNotice(w)
    \/ StoreNotification(w) \/ StoreFails(w) \/ ShowNotification(w)
    \/ Ack(w) \/ Nack(w)

Next ==
    \/ \E m \in Messages : BroadcastMessage(m) \/ Publish(m)
    \/ \E w \in Workers, m \in Messages : Deliver(w, m)
    \/ \E w \in Workers : Work(w) \/ Disconnect(w) \/ Crash(w)
    \/ PublisherBreaks

Spec == Init /\ [][Next]_vars

\* The worker is in a broadcast, which ends when the hub has written to the
\* last browser of the room (module SocketHub); no write has a deadline.
Broadcasting(w) ==
    At(w, "show") \/ (At(w, "handle") /\ Kind[worker[w].msg] = "notice")

\* The worker goes on unless a broadcast keeps it, connecting again when it
\* has ended; the broker fills a window that has room again and again.
FairSpec ==
    /\ Spec
    /\ \A w \in Workers : WF_vars(~Broadcasting(w) /\ Work(w))
    /\ \A w \in Workers, m \in Messages : SF_vars(Deliver(w, m))

-----------------------------------------------------------------------------
(* Properties.                                                             *)

\* The variables keep their types and no worker has more than its window.
TypeOK ==
    /\ unsent \subseteq Messages /\ told \subseteq Messages \ unsent
    /\ published \in Seq(Messages)
    /\ held \in [Workers -> Seq(Messages)]
    /\ worker \in [Workers -> [pc : Steps, msg : Messages \cup {NoMessage}, lost : BOOLEAN]]
    /\ publisher \in BOOLEAN
    /\ rows \in [Messages -> Nat] /\ shown \in [Messages -> Nat]
    /\ unsure \in [Messages -> Nat] /\ returned \in [Messages -> Nat]
    /\ relayed \subseteq Messages
    /\ failures \in 0..MaxFailures
    /\ \A w \in Workers : Len(held[w]) <= Prefetch

\* What the broker has accepted is waiting, with exactly one worker, or
\* acknowledged: no broken connection, crash or refusal loses a message or
\* leaves it in two places.
InOnePlace ==
    \A m \in Elements(published) :
        LET holders == {w \in Workers : m \in Elements(held[w])} IN
        /\ m \in ready \cup acked \/ holders # {}
        /\ m \in ready => m \notin acked /\ holders = {}
        /\ m \in acked => holders = {}
        /\ Cardinality(holders) <= 1

\* An acknowledged message has had its effect: a notification is stored and
\* broadcast, a message of an agent broadcast by the worker.
AckedIsDone ==
    \A m \in acked : /\ Kind[m] = "work" => rows[m] > 0 /\ shown[m] > 0
                     /\ Kind[m] = "notice" => m \in relayed
                     /\ Kind[m] # "broken"

\* A notification is stored again only when its connection broke between the
\* insert and the acknowledgement, or when an insert that had stored it ended
\* in an error and the worker refused it.  Only the rows of inserts that
\* succeeded are broadcast, so that nothing is shown twice for the second
\* reason.
RepeatsHaveCauses ==
    \A m \in Messages : /\ rows[m] <= 1 + returned[m] + unsure[m]
                        /\ Kind[m] # "work" => rows[m] = 0
                        /\ Kind[m] = "work" => shown[m] + unsure[m] <= rows[m]

\* With fewer broken messages than the window has places, every other message
\* is acknowledged in the end, although the broken ones come back forever,
\* unless from some point on a worker hangs in a broadcast and keeps its window.
AcceptedIsAcked ==
    \A m \in Messages :
        (m \in ready /\ Kind[m] # "broken")
            ~> (m \in acked \/ [](\E w \in Workers : Broadcasting(w)))
=============================================================================
