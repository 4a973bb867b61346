---------------------------- MODULE EngineerChat ----------------------------
(***************************************************************************)
(* Engineers ask the language model about one event (engineer-chat/send),  *)
(* and people post messages to it (send_message).  A question is stored,   *)
(* the prompt is put together from the tables of the event and the last    *)
(* lines of the conversation, the model is asked, its answer is stored and *)
(* broadcast to the room of the event, then the engineer gets it.  The     *)
(* requests are served concurrently and interleave between these calls.    *)
(*                                                                         *)
(* A prompt is modelled by the conversation in it; the sections on tasks,  *)
(* actions, commands, executions and summaries are only read.              *)
(***************************************************************************)
EXTENDS Naturals, Sequences, FiniteSets, SequencesExt

CONSTANTS
    Handlers,     \* goroutines that serve requests
    HistoryLimit, \* lines of conversation in a prompt, 20 in the code
    Stores,       \* the stores to check: "memory", "postgres"
    StoreErrors,  \* a statement may fail on PostgreSQL
    MaxRequests,  \* bound: questions and posts
    MaxRestarts   \* bound: times the process stops

ASSUME BoundsAssumption ==
    /\ HistoryLimit \in Nat \ {0}
    /\ Stores \subseteq {"memory", "postgres"}
    /\ StoreErrors \in BOOLEAN
    /\ MaxRequests \in Nat /\ MaxRestarts \in Nat

VARIABLES
    store,     \* which store the process runs on
    messages,  \* the messages of the event, in the order of their ids
    req,       \* what each goroutine is doing
    asked,     \* number of requests so far; a request is named by its number
    told,      \* history: requests whose result was broadcast to the room
    acked,     \* history: requests that were answered 200
    dropped,   \* history: questions whose answer met an error of the store
    failed,    \* history: requests that ended in an error or with the process
    restarts

history == <<told, acked, dropped, failed>>
vars == <<store, messages, req, asked, history, restarts>>

Numbers == 1..MaxRequests
Lines == [from : {"user", "ai", "post"}, no : Numbers]

\* pc: the next call; known: the answers acknowledged before the question;
\* prompt: the conversation the model was sent; blind: it could not be read.
Requests == [pc : {"idle", "question", "prompt", "model", "answer", "post", "broadcast", "reply"},
             no : Numbers \cup {0}, known : SUBSET Numbers,
             prompt : BoundedSeq(Lines, HistoryLimit), blind : BOOLEAN]
Idle == [pc |-> "idle", no |-> 0, known |-> {}, prompt |-> <<>>, blind |-> FALSE]

At(h, step) == req[h].pc = step
Goto(h, step) == req' = [req EXCEPT ![h].pc = step]
Finish(h) == req' = [req EXCEPT ![h] = Idle]
MayFail == StoreErrors /\ store = "postgres"

Stored(from, n) == [from |-> from, no |-> n] \in ToSet(messages)

Init ==
    /\ store \in Stores
    /\ messages = <<>>
    /\ req = [h \in Handlers |-> Idle]
    /\ asked = 0
    /\ told = {} /\ acked = {} /\ dropped = {} /\ failed = {}
    /\ restarts = 0

-----------------------------------------------------------------------------
(* AddMessage, for a question, an answer or a posted message.  The error is *)
(* dropped except for the post, which is answered 404.                      *)

AppendLine(h, from) == messages' = Append(messages, [from |-> from, no |-> req[h].no])

\* The insert returns an error: it was not done, or it was and its reply lost.
AddMessageFails(h, from) ==
    /\ MayFail
    /\ messages' = messages \/ AppendLine(h, from)

-----------------------------------------------------------------------------
(* engineerChatSend.                                                       *)

\* The body names the event, which GetEvent finds.
Ask(h) ==
    /\ At(h, "idle") /\ asked < MaxRequests
    /\ asked' = asked + 1
    /\ req' = [req EXCEPT ![h] = [Idle EXCEPT
                 !.pc = "question", !.no = asked + 1,
                 !.known = {n \in acked : Stored("ai", n)}]]
    /\ UNCHANGED <<store, messages, history, restarts>>

AddQuestion(h) ==
    /\ At(h, "question")
    /\ Goto(h, "prompt")
    /\ AppendLine(h, "user") \/ AddMessageFails(h, "user")
    /\ UNCHANGED <<store, asked, history, restarts>>

\* The lines of the engineers and the model; posts are of another category.
Chat(lines) ==
    LET chat[i \in 0..Len(lines)] ==
            IF i = 0 THEN <<>>
            ELSE IF lines[i].from = "post" THEN chat[i - 1]
            ELSE Append(chat[i - 1], lines[i])
    IN  chat[Len(lines)]

Conversation(lines) ==
    LET chat == Chat(lines)
    IN  SubSeq(chat, IF Len(chat) > HistoryLimit THEN Len(chat) - HistoryLimit + 1 ELSE 1,
               Len(chat))

MutantWritePrompt(h) ==
    /\ At(h, "prompt")
    /\ LET chat == Chat(messages)
           some == SubSeq(chat, 1, IF Len(chat) > HistoryLimit THEN HistoryLimit ELSE Len(chat))
       IN  req' = [req EXCEPT ![h].pc = "model", ![h].prompt = some]
    /\ UNCHANGED <<store, messages, asked, history, restarts>>

\* A list that cannot be read is an empty one.
WritePrompt(h) ==
    /\ At(h, "prompt")
    /\ \/ req' = [req EXCEPT ![h].pc = "model", ![h].prompt = Conversation(messages)]
       \/ MayFail /\ req' = [req EXCEPT ![h].pc = "model", ![h].blind = TRUE]
    /\ UNCHANGED <<store, messages, asked, history, restarts>>

\* Chat returned a text, the canned one when no model is configured.  The
\* prompt is not looked at again.
ModelAnswers(h) ==
    /\ At(h, "model")
    /\ req' = [req EXCEPT ![h] = [Idle EXCEPT !.pc = "answer", !.no = req[h].no]]
    /\ UNCHANGED <<store, messages, asked, history, restarts>>

MutantModelFails(h) ==
    /\ At(h, "model")
    /\ Goto(h, "prompt")
    /\ UNCHANGED <<store, messages, asked, history, restarts>>

\* The model refused, timed out or sent no choices: 502.  The question stays.
ModelFails(h) ==
    /\ At(h, "model")
    /\ failed' = failed \cup {req[h].no}
    /\ Finish(h)
    /\ UNCHANGED <<store, messages, asked, told, acked, dropped, restarts>>

\* The answer is given, and broadcast, also when it could not be stored.
AddAnswer(h) ==
    /\ At(h, "answer")
    /\ Goto(h, "broadcast")
    /\ \/ AppendLine(h, "ai") /\ dropped' = dropped
       \/ AddMessageFails(h, "ai") /\ dropped' = dropped \cup {req[h].no}
    /\ UNCHANGED <<store, asked, told, acked, failed, restarts>>

-----------------------------------------------------------------------------
(* sendEventMessage.                                                       *)

Post(h) ==
    /\ At(h, "idle") /\ asked < MaxRequests
    /\ asked' = asked + 1
    /\ req' = [req EXCEPT ![h] = [Idle EXCEPT !.pc = "post", !.no = asked + 1]]
    /\ UNCHANGED <<store, messages, history, restarts>>

MutantAddPost(h) ==
    /\ At(h, "post")
    /\ AppendLine(h, "post") \/ AddMessageFails(h, "post")
    /\ Goto(h, "broadcast")
    /\ UNCHANGED <<store, asked, history, restarts>>

AddPost(h) ==
    /\ At(h, "post")
    /\ \/ AppendLine(h, "post") /\ Goto(h, "broadcast") /\ failed' = failed
       \/ AddMessageFails(h, "post") /\ Finish(h) /\ failed' = failed \cup {req[h].no}
    /\ UNCHANGED <<store, asked, told, acked, dropped, restarts>>

-----------------------------------------------------------------------------
(* withNewMessageBroadcast.                                                *)

MutantBroadcast(h) ==
    /\ At(h, "broadcast")
    /\ told' = IF Stored("post", req[h].no) THEN told \cup {req[h].no} ELSE told
    /\ Goto(h, "reply")
    /\ UNCHANGED <<store, messages, asked, acked, dropped, failed, restarts>>

\* The answer of the handler has been recorded and is 2xx: the room is told
\* what it holds (module SocketHub) before the client gets it.
Broadcast(h) ==
    /\ At(h, "broadcast")
    /\ told' = told \cup {req[h].no}
    /\ Goto(h, "reply")
    /\ UNCHANGED <<store, messages, asked, acked, dropped, failed, restarts>>

Reply(h) ==
    /\ At(h, "reply")
    /\ acked' = acked \cup {req[h].no}
    /\ Finish(h)
    /\ UNCHANGED <<store, messages, asked, told, dropped, failed, restarts>>

\* The process stops; the memory store forgets the conversation, and the
\* histories with it what they say of it.
Restart ==
    /\ restarts < MaxRestarts
    /\ restarts' = restarts + 1
    /\ failed' = failed \cup {req[h].no : h \in {g \in Handlers : ~At(g, "idle")}}
    /\ req' = [h \in Handlers |-> Idle]
    /\ IF store = "memory" THEN messages' = <<>> /\ told' = {} /\ acked' = {}
                           ELSE UNCHANGED <<messages, told, acked>>
    /\ UNCHANGED <<store, asked, dropped>>

Serve(h) ==
    \/ AddQuestion(h) \/ WritePrompt(h) \/ ModelAnswers(h) \/ ModelFails(h)
    \/ AddAnswer(h) \/ AddPost(h) \/ Broadcast(h) \/ Reply(h)

Next ==
    \/ \E h \in Handlers : Ask(h) \/ Post(h) \/ Serve(h)
    \/ Restart

Spec == Init /\ [][Next]_vars

\* A request that can go on does: the scheduler runs it, and the call of the
\* model ends at the latest by the timeout of its HTTP client.  Nothing is
\* assumed of a broadcast, which writes to browsers without a deadline.
FairSpec == Spec /\ \A h \in Handlers : WF_vars(~At(h, "broadcast") /\ Serve(h))

-----------------------------------------------------------------------------
(* Properties.                                                             *)

\* Every variable keeps the shape the code gives it.
TypeOK ==
    /\ store \in Stores
    /\ messages \in Seq(Lines)
    /\ req \in [Handlers -> Requests]
    /\ asked \in 0..MaxRequests
    /\ told \subseteq Numbers /\ acked \subseteq Numbers
    /\ dropped \subseteq Numbers /\ failed \subseteq Numbers
    /\ restarts \in 0..MaxRestarts

\* The model is sent every answer that had been given before the question,
\* by whichever engineer, unless as many lines as a prompt takes came after
\* it or the conversation could not be read.
PromptKnowsAnswers ==
    \A h \in Handlers : At(h, "model") /\ ~req[h].blind =>
        \A n \in req[h].known :
            LET answer == [from |-> "ai", no |-> n]
                after == {i \in DOMAIN messages :
                             /\ messages[i].from # "post"
                             /\ \E j \in 1..(i - 1) : messages[j] = answer}
            IN  \/ answer \in ToSet(req[h].prompt)
                \/ Cardinality(after) >= HistoryLimit

\* What a client is answered has been broadcast to the room, and what is
\* broadcast is stored: a post always, an answer of the model unless its own
\* insert returned an error, which engineerChatSend drops.
AckedIsToldAndStored ==
    /\ acked \subseteq told
    /\ \A n \in told : Stored("post", n) \/ Stored("ai", n) \/ n \in dropped

\* A stored question is answered, or its engineer has seen a failure or the
\* process stop, or its answer hangs in the broadcast for ever.
QuestionsEnd ==
    \A n \in Numbers :
        Stored("user", n) ~>
            \/ n \in acked \/ n \in failed
            \/ \E h \in Handlers : [](At(h, "broadcast") /\ req[h].no = n)
=============================================================================
