-------------------------- MODULE EventQueueProofs --------------------------
(***************************************************************************)
(* Theorems about the queue, for any messages of any kinds, any number of  *)
(* workers, any prefetch and any number of broken connections, stops and   *)
(* failed inserts: nothing is lost or in two places, what is acknowledged  *)
(* is done, and only a redelivery does it again.                           *)
(***************************************************************************)
EXTENDS EventQueue, TLAPS, SequenceTheorems, FiniteSetTheorems

-----------------------------------------------------------------------------
(* Sequences as places of messages.                                        *)

NoRepeats(q) == \A i, j \in DOMAIN q : q[i] = q[j] => i = j

\* Nothing is in the empty sequence.
LEMMA ElementsOfEmpty == Elements(<<>>) = {} /\ NoRepeats(<<>>)
BY DEF Elements, NoRepeats

\* Only messages are in a sequence of messages.
LEMMA ElementsTyped ==
    ASSUME NEW S, NEW q \in Seq(S)
    PROVE  Elements(q) \subseteq S
BY LenProperties, ElementOfSeq DEF Elements

\* Append adds one element, which is new to a sequence without repeats.
LEMMA ElementsOfAppend ==
    ASSUME NEW S, NEW q \in Seq(S), NEW m \in S
    PROVE  /\ Elements(Append(q, m)) = Elements(q) \cup {m}
           /\ NoRepeats(q) /\ m \notin Elements(q) => NoRepeats(Append(q, m))
<1> DEFINE a == Append(q, m)
           n == Len(q)
<1>1. /\ n \in Nat /\ DOMAIN q = 1..n
      /\ a \in Seq(S) /\ Len(a) = n + 1 /\ DOMAIN a = 1..n + 1
      /\ \A i \in 1..n : a[i] = q[i]
      /\ a[n + 1] = m
  BY AppendProperties, LenProperties
<1>2. \A i \in 1..n + 1 : i \in 1..n \/ i = n + 1
  BY <1>1
<1>3. 1..n \subseteq 1..n + 1 /\ n + 1 \in 1..n + 1
  BY <1>1
<1> HIDE DEF a, n
<1>4. Elements(a) = Elements(q) \cup {m}
  BY <1>1, <1>2, <1>3 DEF Elements
<1>5. ASSUME NoRepeats(q), m \notin Elements(q),
             NEW i \in 1..n + 1, NEW j \in 1..n + 1, a[i] = a[j]
      PROVE  i = j
  <2>1. \A k \in 1..n : a[k] # m
    BY <1>1, <1>5 DEF Elements
  <2>2. i \in 1..n /\ j \in 1..n => i = j
    BY <1>1, <1>5 DEF NoRepeats
  <2> QED
    BY <1>1, <1>2, <1>5, <2>1, <2>2
<1> QED
  BY <1>1, <1>4, <1>5 DEF NoRepeats, a

\* Of a sequence without repeats, Tail takes away the head and nothing else.
LEMMA ElementsOfTail ==
    ASSUME NEW S, NEW q \in Seq(S), q # <<>>
    PROVE  /\ Head(q) \in Elements(q) /\ Elements(Tail(q)) \subseteq Elements(q)
           /\ NoRepeats(q) => /\ Elements(Tail(q)) = Elements(q) \ {Head(q)}
                              /\ NoRepeats(Tail(q))
<1> DEFINE a == Tail(q)
           n == Len(a)
<1>1. /\ n \in Nat /\ DOMAIN q = 1..n + 1 /\ DOMAIN a = 1..n
      /\ \A i \in 1..n : a[i] = q[i + 1]
  BY HeadTailProperties, LenProperties, EmptySeq
<1>2. Head(q) = q[1]
  OBVIOUS
<1>3. /\ \A i \in 1..n : i + 1 \in 1..n + 1 /\ i + 1 # 1
      /\ \A j \in 1..n + 1 : j = 1 \/ (\E i \in 1..n : j = i + 1)
      /\ \A i, j \in 1..n : i + 1 = j + 1 => i = j
      /\ 1 \in 1..n + 1
  <2>1. ASSUME NEW j \in 1..n + 1, j # 1
        PROVE  \E i \in 1..n : j = i + 1
    <3>1. j - 1 \in 1..n /\ j = (j - 1) + 1
      BY <1>1, <2>1
    <3> QED
      BY <3>1
  <2> QED
    BY <1>1, <2>1
<1> HIDE DEF a, n
<1>4. Head(q) \in Elements(q) /\ Elements(a) \subseteq Elements(q)
  BY <1>1, <1>2, <1>3 DEF Elements
<1>5. ASSUME NoRepeats(q)
      PROVE  NoRepeats(a)
  BY <1>1, <1>3, <1>5 DEF NoRepeats
<1>6. ASSUME NoRepeats(q)
      PROVE  Elements(a) = Elements(q) \ {Head(q)}
  <2>1. ASSUME NEW i \in 1..n
        PROVE  a[i] # Head(q)
    BY <1>1, <1>2, <1>3, <1>6 DEF NoRepeats
  <2>2. ASSUME NEW x \in Elements(q), x # Head(q)
        PROVE  x \in Elements(a)
    <3>1. PICK j \in 1..n + 1 : q[j] = x
      BY <1>1 DEF Elements
    <3>2. PICK i \in 1..n : j = i + 1
      BY <1>2, <1>3, <2>2, <3>1
    <3> QED
      BY <1>1, <3>1, <3>2 DEF Elements
  <2>3. Head(q) \notin Elements(a)
    BY <1>1, <2>1 DEF Elements
  <2> QED
    BY <1>4, <2>2, <2>3
<1> QED
  BY <1>4, <1>5, <1>6 DEF a

-----------------------------------------------------------------------------
(* The inductive invariant.                                                *)

\* What a worker that handles a message has before it: the message is the
\* oldest it has not acknowledged, unless the connection has taken it back.
Busy == {"handle", "show", "ack", "nack"}
WorkerFine(w) ==
    /\ worker[w].pc \in Busy /\ ~worker[w].lost =>
          held[w] # <<>> /\ Head(held[w]) = worker[w].msg
    /\ worker[w].pc \in Busy => worker[w].msg \in Messages
    /\ worker[w].lost => worker[w].pc \in Busy
    /\ worker[w].lost \/ worker[w].pc = "down" => held[w] = <<>>

WorkerInv == \A w \in Workers : WorkerFine(w)

\* Where a message that the broker accepted can be.
PlacesInv ==
    /\ Elements(published) \cap (unsent \cup told) = {}
    /\ ready \subseteq Elements(published) /\ acked \subseteq Elements(published)
    /\ ready \cap acked = {}
    /\ \A w \in Workers : /\ Elements(held[w]) \subseteq Elements(published)
                          /\ Elements(held[w]) \cap (ready \cup acked) = {}
                          /\ NoRepeats(held[w])
    /\ \A v, w \in Workers : v # w => Elements(held[v]) \cap Elements(held[w]) = {}
    /\ \A m \in Elements(published) :
          m \in ready \cup acked \/ \E w \in Workers : m \in Elements(held[w])

Done(m) ==
    /\ Kind[m] = "work" => rows[m] > 0 /\ shown[m] > 0
    /\ Kind[m] = "notice" => m \in relayed
    /\ Kind[m] # "broken"

\* A message is done before it is acknowledged, not after.
DoneInv ==
    /\ \A m \in acked : Done(m)
    /\ \A w \in Workers : At(w, "ack") => Done(worker[w].msg)
    /\ \A w \in Workers : At(w, "show") => /\ Kind[worker[w].msg] = "work"
                                           /\ rows[worker[w].msg] > 0

\* A worker that has lost the message and will store it all the same.
Late(m) == {w \in Workers : worker[w].lost /\ At(w, "handle") /\ worker[w].msg = m}
\* The broker still counts on the worker that has stored the message.
Settled(m) ==
    \/ m \in acked
    \/ \E w \in Workers : /\ ~worker[w].lost /\ worker[w].msg = m
                          /\ At(w, "show") \/ At(w, "ack")
Showing(m) == {w \in Workers : At(w, "show") /\ worker[w].msg = m}

\* Every row but one, and every row that is still to come from a worker that
\* has lost its connection, is paid for by a return of the message or by an
\* insert that ended in an error.
Copies(m) ==
    /\ IsFiniteSet(Late(m)) /\ IsFiniteSet(Showing(m))
    /\ rows[m] + Cardinality(Late(m))
          <= returned[m] + unsure[m] + (IF Settled(m) THEN 1 ELSE 0)
    /\ Kind[m] # "work" => rows[m] = 0
    /\ Kind[m] = "work" => shown[m] + unsure[m] + Cardinality(Showing(m)) <= rows[m]

CopiesInv == \A m \in Messages : Copies(m)

-----------------------------------------------------------------------------
(* Types.                                                                  *)

Jobs == [pc : Steps, msg : Messages \cup {NoMessage}, lost : BOOLEAN]

\* The initial state is well typed.
LEMMA InitTypeOK == Init => TypeOK
<1> SUFFICES ASSUME Init
             PROVE  TypeOK
  OBVIOUS
<1>1. <<>> \in Seq(Messages) /\ Len(<<>>) = 0
  BY EmptySeq
<1> QED
  BY <1>1, QueueAssumption DEF Init, TypeOK, Down, Steps

\* What the worker's own steps do to its goroutine.
LEMMA WorkerTyped ==
    ASSUME TypeOK, NEW w \in Workers,
           \/ \E s \in Steps : Goto(w, s)
           \/ Proceed(w)
           \/ worker' = [worker EXCEPT ![w] = Down]
           \/ worker' = [worker EXCEPT ![w] = [@ EXCEPT !.lost = TRUE]]
           \/ \E m \in Messages :
                 worker' = [worker EXCEPT ![w].pc = "handle", ![w].msg = m]
    PROVE  worker' \in [Workers -> Jobs]
<1>1. worker \in [Workers -> Jobs]
  BY DEF TypeOK, Jobs
<1>2. worker[w] \in Jobs /\ Down \in Jobs /\ [Down EXCEPT !.pc = "wait"] \in Jobs
  BY <1>1 DEF Jobs, Down, Steps
<1>3. ASSUME NEW s \in Steps, Goto(w, s)
      PROVE  worker' \in [Workers -> Jobs]
  BY <1>1, <1>3 DEF Goto, Jobs
<1>4. CASE Proceed(w) \/ worker' = [worker EXCEPT ![w] = Down]
  <2> HIDE DEF Jobs
  <2> QED
    BY <1>1, <1>2, <1>4, Zenon DEF Proceed
<1>5. CASE worker' = [worker EXCEPT ![w] = [@ EXCEPT !.lost = TRUE]]
  BY <1>1, <1>5 DEF Jobs
<1>6. ASSUME NEW m \in Messages,
             worker' = [worker EXCEPT ![w].pc = "handle", ![w].msg = m]
      PROVE  worker' \in [Workers -> Jobs]
  BY <1>1, <1>6 DEF Jobs, Steps
<1> QED
  BY <1>3, <1>4, <1>5, <1>6

\* A broken connection and a stop keep the types.
LEMMA ReturnTyped ==
    ASSUME TypeOK, NEW w \in Workers, Disconnect(w) \/ Crash(w)
    PROVE  TypeOK'
<1>1. worker' \in [Workers -> Jobs]
  <2>1. \/ worker' = [worker EXCEPT ![w] = Down]
        \/ worker' = [worker EXCEPT ![w] = [@ EXCEPT !.lost = TRUE]]
    BY DEF Disconnect, Crash
  <2> QED
    BY <2>1, WorkerTyped
<1>2. held' = [held EXCEPT ![w] = <<>>]
  BY DEF Disconnect, Crash
<1>3. <<>> \in Seq(Messages) /\ Len(<<>>) = 0
  BY EmptySeq
<1>4. /\ held' \in [Workers -> Seq(Messages)]
      /\ \A v \in Workers : Len(held'[v]) <= Prefetch
  BY <1>2, <1>3, QueueAssumption DEF TypeOK
<1>5. returned' \in [Messages -> Nat]
  <2>1. returned' = [m \in Messages |->
                       IF m \in Elements(held[w]) THEN returned[m] + 1 ELSE returned[m]]
    BY DEF Disconnect, Crash
  <2>2. \A m \in Messages : returned[m] \in Nat /\ returned[m] + 1 \in Nat
    BY DEF TypeOK
  <2> QED
    BY <2>1, <2>2
<1>6. failures' \in 0..MaxFailures
  BY QueueAssumption DEF Disconnect, Crash, Fails, TypeOK
<1>7. UNCHANGED <<unsent, told, published, publisher, effects>>
  BY DEF Disconnect, Crash
<1> QED
  BY <1>1, <1>4, <1>5, <1>6, <1>7 DEF TypeOK, Jobs, effects

\* A step of the worker's goroutine keeps the types.
LEMMA WorkTyped ==
    ASSUME TypeOK, WorkerInv, NEW w \in Workers, Work(w)
    PROVE  TypeOK'
<1>0. worker[w] \in Jobs
  BY DEF TypeOK, Jobs
<1>1. worker' \in [Workers -> Jobs]
  <2>1. CASE Take(w)
    <3>1. Head(held[w]) \in Messages
      BY <2>1, HeadTailProperties DEF Take, TypeOK
    <3> QED
      BY <2>1, <3>1, WorkerTyped DEF Take
  <2>2. CASE ~Take(w)
    BY <2>2, WorkerTyped DEF Work, Connect, HandleOther, HandleNotice,
       StoreNotification, StoreFails, ShowNotification, Ack, Nack, Steps
  <2> QED
    BY <2>1, <2>2
<1>2. UNCHANGED <<unsent, told, published, publisher, returned>>
  BY DEF Work, Connect, Take, HandleOther, HandleNotice, StoreNotification, StoreFails,
         ShowNotification, Ack, Nack, broker
<1>3. failures' \in 0..MaxFailures
  BY QueueAssumption
     DEF Work, Connect, Take, HandleOther, HandleNotice, StoreNotification, StoreFails,
         ShowNotification, Ack, Nack, Fails, TypeOK
<1>4. \/ UNCHANGED held
      \/ held[w] # <<>> /\ held' = [held EXCEPT ![w] = Tail(held[w])]
  <2>1. CASE Ack(w) \/ Nack(w)
    BY <2>1 DEF Ack, Nack, WorkerInv, WorkerFine, At, Busy
  <2>2. CASE ~Ack(w) /\ ~Nack(w)
    BY <2>2 DEF Work, Connect, Take, HandleOther, HandleNotice,
                StoreNotification, StoreFails, ShowNotification, broker
  <2> QED
    BY <2>1, <2>2
<1>5. /\ held' \in [Workers -> Seq(Messages)]
      /\ \A v \in Workers : Len(held'[v]) <= Prefetch
  <2>1. CASE UNCHANGED held
    BY <2>1 DEF TypeOK
  <2>2. CASE held[w] # <<>> /\ held' = [held EXCEPT ![w] = Tail(held[w])]
    <3>1. held[w] \in Seq(Messages) /\ Len(held[w]) <= Prefetch
      BY DEF TypeOK
    <3>2. /\ Tail(held[w]) \in Seq(Messages)
          /\ Len(Tail(held[w])) <= Prefetch
      BY <2>2, <3>1, HeadTailProperties, LenProperties, QueueAssumption
    <3> QED
      BY <2>2, <3>2 DEF TypeOK
  <2> QED
    BY <1>4, <2>1, <2>2
<1>6. /\ rows' \in [Messages -> Nat] /\ shown' \in [Messages -> Nat]
      /\ unsure' \in [Messages -> Nat] /\ relayed' \subseteq Messages
  <2>1. CASE At(w, "handle") \/ At(w, "show")
    <3>1. worker[w].msg \in Messages
      BY <2>1 DEF WorkerInv, WorkerFine, At, Busy
    <3>2. CASE HandleNotice(w) \/ StoreNotification(w) \/ ShowNotification(w)
      BY <3>1, <3>2 DEF HandleNotice, StoreNotification, ShowNotification, TypeOK
    <3>3. CASE StoreFails(w)
      <4>1. /\ shown' = shown /\ relayed' = relayed
            /\ \/ rows' = rows
               \/ rows' = [rows EXCEPT ![worker[w].msg] = @ + 1]
            /\ \/ unsure' = unsure
               \/ unsure' = [unsure EXCEPT ![worker[w].msg] = @ + 1]
        BY <3>3 DEF StoreFails
      <4>2. /\ rows \in [Messages -> Nat] /\ unsure \in [Messages -> Nat]
            /\ shown \in [Messages -> Nat] /\ relayed \subseteq Messages
        BY DEF TypeOK
      <4>3. rows' \in [Messages -> Nat]
        BY <3>1, <4>1, <4>2
      <4>4. unsure' \in [Messages -> Nat]
        BY <3>1, <4>1, <4>2
      <4> QED
        BY <4>1, <4>2, <4>3, <4>4
    <3>4. CASE ~HandleNotice(w) /\ ~StoreNotification(w) /\ ~StoreFails(w) /\ ~ShowNotification(w)
      BY <3>4 DEF Work, Connect, Take, HandleOther, Ack, Nack, effects, TypeOK
    <3> QED
      BY <3>2, <3>3, <3>4
  <2>2. CASE ~At(w, "handle") /\ ~At(w, "show")
    BY <2>2 DEF Work, Connect, Take, HandleOther, HandleNotice, StoreNotification, StoreFails,
                ShowNotification, Ack, Nack, effects, TypeOK
  <2> QED
    BY <2>1, <2>2
<1> QED
  BY <1>1, <1>2, <1>3, <1>5, <1>6 DEF TypeOK, Jobs

\* Every step keeps the types.
LEMMA StepTypeOK == TypeOK /\ WorkerInv /\ [Next]_vars => TypeOK'
<1> SUFFICES ASSUME TypeOK, WorkerInv, [Next]_vars
             PROVE  TypeOK'
  OBVIOUS
<1>1. ASSUME NEW m \in Messages, BroadcastMessage(m)
      PROVE  TypeOK'
  BY <1>1 DEF BroadcastMessage, TypeOK, broker
<1>2. ASSUME NEW m \in Messages, Publish(m)
      PROVE  TypeOK'
  <2>1. published' \in Seq(Messages)
    <3>1. published \in Seq(Messages)
      BY DEF TypeOK
    <3>2. Append(published, m) \in Seq(Messages)
      BY <3>1, AppendProperties
    <3> QED
      BY <1>2, <3>1, <3>2 DEF Publish
  <2> QED
    BY <1>2, <2>1 DEF Publish, TypeOK, effects
<1>3. ASSUME NEW w \in Workers, NEW m \in Messages, Deliver(w, m)
      PROVE  TypeOK'
  <2>1. held[w] \in Seq(Messages) /\ Len(held[w]) < Prefetch
    BY <1>3 DEF Deliver, TypeOK
  <2>2. Append(held[w], m) \in Seq(Messages) /\ Len(Append(held[w], m)) <= Prefetch
    BY <2>1, AppendProperties, LenProperties, QueueAssumption
  <2>3. held' = [held EXCEPT ![w] = Append(held[w], m)]
    BY <1>3 DEF Deliver
  <2>4. /\ held' \in [Workers -> Seq(Messages)]
        /\ \A v \in Workers : Len(held'[v]) <= Prefetch
    BY <2>2, <2>3 DEF TypeOK
  <2> QED
    BY <1>3, <2>4 DEF Deliver, TypeOK, effects
<1>4. CASE PublisherBreaks
  <2>1. failures' \in 0..MaxFailures
    BY <1>4, QueueAssumption DEF PublisherBreaks, Fails, TypeOK
  <2> QED
    BY <1>4, <2>1 DEF PublisherBreaks, TypeOK, broker, effects
<1>5. CASE UNCHANGED vars
  BY <1>5 DEF vars, broker, effects, TypeOK
<1> QED
  BY <1>1, <1>2, <1>3, <1>4, <1>5, WorkTyped, ReturnTyped DEF Next

-----------------------------------------------------------------------------
(* What a worker has before it.                                            *)

\* What worker w does leaves the other workers and their messages alone.
LEMMA WorkerFrame ==
    ASSUME TypeOK, NEW w \in Workers,
           Work(w) \/ Disconnect(w) \/ Crash(w) \/ (\E m \in Messages : Deliver(w, m))
    PROVE  \A v \in Workers \ {w} : worker'[v] = worker[v] /\ held'[v] = held[v]
BY DEF TypeOK, Work, Connect, Take, HandleOther, HandleNotice, StoreNotification, StoreFails,
       ShowNotification, Ack, Nack, Disconnect, Crash, Deliver, Goto, Proceed, broker

\* So it is enough to look at that worker.
LEMMA OthersFine ==
    ASSUME WorkerInv, NEW w \in Workers, WorkerFine(w)',
           \A v \in Workers \ {w} : worker'[v] = worker[v] /\ held'[v] = held[v]
    PROVE  WorkerInv'
BY DEF WorkerInv, WorkerFine

\* A worker takes the oldest message, keeps it until it acknowledges or
\* refuses it, and has none when its connection has taken them back.
LEMMA WorkerStep ==
    ASSUME TypeOK, WorkerInv, [Next]_vars
    PROVE  WorkerInv'
<1>1. ASSUME NEW w \in Workers, NEW m \in Messages, Deliver(w, m)
      PROVE  WorkerInv'
  <2>1. /\ held[w] \in Seq(Messages) /\ worker'[w] = worker[w]
        /\ held'[w] = Append(held[w], m)
        /\ worker[w].pc # "down" /\ ~worker[w].lost
    BY <1>1 DEF Deliver, TypeOK, At
  <2>2. /\ Append(held[w], m) # <<>>
        /\ held[w] # <<>> => Head(Append(held[w], m)) = Head(held[w])
    BY <2>1, AppendProperties, HeadTailAppend
  <2>3. WorkerFine(w)'
    BY <2>1, <2>2 DEF WorkerInv, WorkerFine
  <2> QED
    BY <1>1, <2>3, WorkerFrame, OthersFine
<1>2. ASSUME NEW w \in Workers, Disconnect(w) \/ Crash(w)
      PROVE  WorkerInv'
  <2>1. held'[w] = <<>>
    BY <1>2 DEF Disconnect, Crash, TypeOK
  <2>2. \/ worker'[w] = Down
        \/ /\ worker'[w].pc = worker[w].pc /\ worker'[w].msg = worker[w].msg
           /\ worker'[w].lost /\ worker[w].pc \in Busy
    BY <1>2 DEF Disconnect, Crash, TypeOK, At, Steps, Busy
  <2>3. WorkerFine(w)'
    BY <2>1, <2>2 DEF WorkerInv, WorkerFine, Down, Busy
  <2> QED
    BY <1>2, <2>3, WorkerFrame, OthersFine
<1>3. ASSUME NEW w \in Workers, Work(w)
      PROVE  WorkerInv'
  <2>0. WorkerFine(w) /\ worker[w] \in Jobs
    BY DEF WorkerInv, TypeOK, Jobs
  <2>1. CASE Connect(w)
    <3>1. worker'[w].pc = "wait" /\ worker'[w].lost = worker[w].lost /\ held' = held
      BY <2>1 DEF Connect, Goto, TypeOK, broker
    <3> QED
      BY <1>3, <2>0, <2>1, <3>1, WorkerFrame, OthersFine DEF WorkerFine, Connect, At, Busy
  <2>2. CASE Take(w)
    <3>1. /\ worker'[w].pc = "handle" /\ worker'[w].lost = worker[w].lost
          /\ worker'[w].msg = Head(held[w]) /\ held' = held /\ held[w] # <<>>
      BY <2>2 DEF Take, TypeOK, broker
    <3>2. Head(held[w]) \in Messages
      BY <3>1, HeadTailProperties DEF TypeOK
    <3> QED
      BY <1>3, <2>0, <3>1, <3>2, WorkerFrame, OthersFine DEF WorkerFine, Busy
  <2>3. CASE HandleOther(w) \/ HandleNotice(w) \/ StoreNotification(w) \/ StoreFails(w) \/ ShowNotification(w)
    <3>1. /\ worker'[w].pc \in Busy /\ worker'[w].lost = worker[w].lost
          /\ worker'[w].msg = worker[w].msg /\ held' = held /\ worker[w].pc \in Busy
      BY <2>3 DEF HandleOther, HandleNotice, StoreNotification, StoreFails, ShowNotification,
                  Goto, At, TypeOK, broker, Busy
    <3> QED
      BY <1>3, <2>0, <3>1, WorkerFrame, OthersFine DEF WorkerFine, Busy
  <2>4. CASE Ack(w) \/ Nack(w)
    <3>1. /\ worker[w].lost => worker'[w] = Down /\ held'[w] = held[w]
          /\ ~worker[w].lost => worker'[w] = [Down EXCEPT !.pc = "wait"]
      BY <2>4 DEF Ack, Nack, Proceed, TypeOK
    <3> QED
      BY <1>3, <2>0, <3>1, WorkerFrame, OthersFine DEF WorkerFine, Busy, Down
  <2> QED
    BY <1>3, <2>1, <2>2, <2>3, <2>4 DEF Work
<1>4. CASE UNCHANGED <<worker, held>>
  BY <1>4 DEF WorkerInv, WorkerFine
<1>5. ASSUME NEW m \in Messages, BroadcastMessage(m) \/ Publish(m)
      PROVE  UNCHANGED <<worker, held>>
  BY <1>5 DEF BroadcastMessage, Publish, broker
<1>6. CASE PublisherBreaks \/ UNCHANGED vars
  BY <1>4, <1>6 DEF PublisherBreaks, broker, vars
<1> QED
  BY <1>1, <1>2, <1>3, <1>4, <1>5, <1>6 DEF Next

\* No worker is connected at first.
LEMMA InitWorkerInv == Init => WorkerInv
BY DEF Init, WorkerInv, WorkerFine, Down, Busy

\* The variables keep their types, a worker handles the oldest message it
\* holds, and it never holds more than its window.
THEOREM Typing == Spec => [](TypeOK /\ WorkerInv)
<1>1. Init => TypeOK /\ WorkerInv
  BY InitTypeOK, InitWorkerInv
<1>2. TypeOK /\ WorkerInv /\ [Next]_vars => TypeOK' /\ WorkerInv'
  BY StepTypeOK, WorkerStep
<1> QED
  BY <1>1, <1>2, PTL DEF Spec

-----------------------------------------------------------------------------
(* Nothing is lost or in two places.                                       *)

\* No message is anywhere at first.
LEMMA InitPlacesInv == Init => PlacesInv
BY ElementsOfEmpty DEF Init, PlacesInv

\* A message moves, with the whole of M, from a worker back to the broker or
\* on to the acknowledged ones.
LEMMA GivenBack ==
    ASSUME PlacesInv, NEW w \in Workers, NEW M \in SUBSET Elements(held[w]),
           UNCHANGED <<unsent, told, published>>,
           \A v \in Workers \ {w} : held'[v] = held[v],
           Elements(held'[w]) = Elements(held[w]) \ M, NoRepeats(held'[w]),
           \/ ready' = ready \cup M /\ acked' = acked
           \/ ready' = ready /\ acked' = acked \cup M
    PROVE  PlacesInv'
<1>1. Elements(published') = Elements(published)
  OBVIOUS
<1>2. \A v \in Workers : /\ Elements(held'[v]) \subseteq Elements(held[v])
                         /\ v # w => Elements(held'[v]) = Elements(held[v])
  OBVIOUS
<1>3. \A v \in Workers : /\ Elements(held'[v]) \subseteq Elements(published')
                         /\ Elements(held'[v]) \cap (ready' \cup acked') = {}
                         /\ NoRepeats(held'[v])
  BY <1>1, <1>2 DEF PlacesInv
<1>4. \A u, v \in Workers : u # v => Elements(held'[u]) \cap Elements(held'[v]) = {}
  BY <1>2 DEF PlacesInv
<1>5. ASSUME NEW m \in Elements(published)
      PROVE  m \in ready' \cup acked' \/ \E v \in Workers : m \in Elements(held'[v])
  BY <1>2 DEF PlacesInv
<1> QED
  BY <1>1, <1>3, <1>4, <1>5 DEF PlacesInv

\* No step loses a message or leaves it in two places.
LEMMA PlacesStep ==
    ASSUME TypeOK, WorkerInv, PlacesInv, [Next]_vars
    PROVE  PlacesInv'
<1>1. ASSUME NEW m \in Messages, Publish(m), ~UNCHANGED <<published, ready>>
      PROVE  PlacesInv'
  <2>1. /\ published' = Append(published, m) /\ ready' = ready \cup {m}
        /\ unsent' = unsent \ {m} /\ told' = told \ {m} /\ m \in unsent \cup told
        /\ held' = held /\ acked' = acked
    BY <1>1 DEF Publish
  <2>2. Elements(published') = Elements(published) \cup {m}
    BY <2>1, ElementsOfAppend DEF TypeOK
  <2>3. m \notin Elements(published)
    BY <2>1 DEF PlacesInv
  <2> QED
    BY <2>1, <2>2, <2>3 DEF PlacesInv
<1>2. CASE UNCHANGED <<published, ready, held, acked>>
            /\ unsent' \cup told' \subseteq unsent \cup told
  BY <1>2 DEF PlacesInv
<1>3. ASSUME NEW m \in Messages,
             BroadcastMessage(m) \/ (Publish(m) /\ UNCHANGED <<published, ready>>)
      PROVE  PlacesInv'
  BY <1>2, <1>3 DEF BroadcastMessage, Publish, broker
<1>4. ASSUME NEW w \in Workers, NEW m \in Messages, Deliver(w, m)
      PROVE  PlacesInv'
  <2>1. /\ m \in ready /\ ready' = ready \ {m} /\ held'[w] = Append(held[w], m)
        /\ UNCHANGED <<unsent, told, published, acked>>
    BY <1>4 DEF Deliver, IsNext, TypeOK
  <2>2. m \in Elements(published) /\ m \notin acked /\ \A v \in Workers : m \notin Elements(held[v])
    BY <2>1 DEF PlacesInv
  <2>3. Elements(held'[w]) = Elements(held[w]) \cup {m} /\ NoRepeats(held'[w])
    <3>1. held[w] \in Seq(Messages) /\ NoRepeats(held[w])
      BY DEF TypeOK, PlacesInv
    <3> QED
      BY <2>1, <2>2, <3>1, ElementsOfAppend
  <2>4. \A v \in Workers \ {w} : held'[v] = held[v]
    BY <1>4, WorkerFrame
  <2>5. \A v \in Workers : /\ Elements(held'[v]) = Elements(held[v]) \cup (IF v = w THEN {m} ELSE {})
                           /\ NoRepeats(held'[v])
    BY <2>3, <2>4 DEF PlacesInv
  <2>6. \A v \in Workers : /\ Elements(held'[v]) \subseteq Elements(published)
                           /\ Elements(held'[v]) \cap (ready' \cup acked') = {}
    <3>1. TAKE v \in Workers
    <3>2. /\ Elements(held[v]) \subseteq Elements(published)
          /\ Elements(held[v]) \cap (ready \cup acked) = {}
      BY DEF PlacesInv
    <3>3. Elements(held'[v]) \subseteq Elements(held[v]) \cup {m}
      BY <2>5
    <3> QED
      BY <2>1, <2>2, <3>2, <3>3
  <2>7. \A u, v \in Workers : u # v => Elements(held'[u]) \cap Elements(held'[v]) = {}
    BY <2>2, <2>5 DEF PlacesInv
  <2>8. ASSUME NEW n \in Elements(published)
        PROVE  n \in ready' \cup acked' \/ \E v \in Workers : n \in Elements(held'[v])
    BY <2>1, <2>5 DEF PlacesInv
  <2> QED
    BY <2>1, <2>5, <2>6, <2>7, <2>8 DEF PlacesInv
<1>5. ASSUME NEW w \in Workers, Disconnect(w) \/ Crash(w)
      PROVE  PlacesInv'
  <2>1. /\ held'[w] = <<>> /\ ready' = ready \cup Elements(held[w])
        /\ UNCHANGED <<unsent, told, published, acked>>
    BY <1>5 DEF Disconnect, Crash, TypeOK
  <2>2. Elements(held'[w]) = Elements(held[w]) \ Elements(held[w]) /\ NoRepeats(held'[w])
    BY <2>1, ElementsOfEmpty
  <2> QED
    BY <1>5, <2>1, <2>2, WorkerFrame, GivenBack
<1>6. ASSUME NEW w \in Workers, Work(w)
      PROVE  PlacesInv'
  <2>1. CASE (Ack(w) \/ Nack(w)) /\ ~worker[w].lost
    <3> DEFINE m == worker[w].msg
    <3>1. /\ held[w] # <<>> /\ Head(held[w]) = m
          /\ held[w] \in Seq(Messages) /\ NoRepeats(held[w])
      BY <2>1 DEF Ack, Nack, At, Busy, WorkerInv, WorkerFine, TypeOK, PlacesInv
    <3>2. /\ held'[w] = Tail(held[w])
          /\ \/ ready' = ready \cup {m} /\ acked' = acked
             \/ ready' = ready /\ acked' = acked \cup {m}
          /\ UNCHANGED <<unsent, told, published>>
      BY <2>1 DEF Ack, Nack, TypeOK
    <3>3. /\ {m} \in SUBSET Elements(held[w])
          /\ Elements(held'[w]) = Elements(held[w]) \ {m} /\ NoRepeats(held'[w])
      BY <3>1, <3>2, ElementsOfTail
    <3> QED
      BY <1>6, <3>2, <3>3, WorkerFrame, GivenBack
  <2>2. CASE (Ack(w) \/ Nack(w)) /\ worker[w].lost
    BY <1>2, <2>2 DEF Ack, Nack
  <2>3. CASE ~Ack(w) /\ ~Nack(w)
    BY <1>2, <1>6, <2>3 DEF Work, Connect, Take, HandleOther, HandleNotice,
                            StoreNotification, StoreFails, ShowNotification, broker
  <2> QED
    BY <2>1, <2>2, <2>3
<1>7. CASE PublisherBreaks \/ UNCHANGED vars
  BY <1>2, <1>7 DEF PublisherBreaks, broker, vars
<1> QED
  BY <1>1, <1>3, <1>4, <1>5, <1>6, <1>7 DEF Next

\* Every message is in one place, in every state.
LEMMA PlacesInvariant == Spec => []PlacesInv
<1>1. TypeOK /\ WorkerInv /\ PlacesInv /\ [Next]_vars => PlacesInv'
  BY PlacesStep
<1> QED
  BY <1>1, InitPlacesInv, Typing, PTL DEF Spec

\* What the broker has accepted is waiting, with one worker or acknowledged,
\* through any number of broken connections, stops and refusals.
THEOREM NothingLost == Spec => []InOnePlace
<1>1. PlacesInv => InOnePlace
  <2> SUFFICES ASSUME PlacesInv, NEW m \in Elements(published)
               PROVE  LET holders == {w \in Workers : m \in Elements(held[w])} IN
                      /\ m \in ready \cup acked \/ holders # {}
                      /\ m \in ready => m \notin acked /\ holders = {}
                      /\ m \in acked => holders = {}
                      /\ Cardinality(holders) <= 1
    BY DEF InOnePlace
  <2> DEFINE holders == {w \in Workers : m \in Elements(held[w])}
  <2>1. holders = {} \/ \E w \in Workers : holders = {w}
    BY DEF PlacesInv
  <2>2. Cardinality(holders) <= 1
    <3>1. Cardinality({}) = 0
      BY FS_EmptySet
    <3>2. \A w : Cardinality({w}) = 1
      BY FS_Singleton
    <3>3. CASE holders = {}
      BY <3>1, <3>3
    <3>4. ASSUME NEW w \in Workers, holders = {w}
          PROVE  Cardinality(holders) <= 1
      <4>1. Cardinality(holders) = 1
        BY <3>2, <3>4, Zenon
      <4> QED
        BY <4>1
    <3> QED
      BY <2>1, <3>3, <3>4
  <2>3. /\ m \in ready \cup acked \/ holders # {}
        /\ m \in ready => m \notin acked /\ holders = {}
        /\ m \in acked => holders = {}
    BY DEF PlacesInv
  <2> QED
    BY <2>2, <2>3
<1> QED
  BY <1>1, PlacesInvariant, PTL

-----------------------------------------------------------------------------
(* What is acknowledged is done.                                           *)

\* A counter of one more message, or of the same.
LEMMA CountsUp ==
    ASSUME NEW f \in [Messages -> Nat], NEW n \in Messages, NEW m \in Messages
    PROVE  /\ [f EXCEPT ![n] = @ + 1][m] = IF n = m THEN f[m] + 1 ELSE f[m]
           /\ [f EXCEPT ![n] = @ + 1][m] >= f[m] /\ f[m] >= f[m] /\ f[m] \in Nat
OBVIOUS

\* No step takes back a row or a broadcast.
LEMMA EffectsStay ==
    ASSUME TypeOK, WorkerInv, [Next]_vars, NEW m \in Messages
    PROVE  rows'[m] >= rows[m] /\ shown'[m] >= shown[m] /\ relayed \subseteq relayed'
<1>0. /\ rows \in [Messages -> Nat] /\ shown \in [Messages -> Nat]
      /\ rows[m] >= rows[m] /\ shown[m] >= shown[m]
  BY DEF TypeOK
<1>1. ASSUME NEW n \in Messages, BroadcastMessage(n) \/ Publish(n)
      PROVE  rows'[m] >= rows[m] /\ shown'[m] >= shown[m] /\ relayed \subseteq relayed'
  <2>1. /\ shown' = [shown EXCEPT ![n] = @ + 1] \/ shown' = shown
        /\ rows' = rows /\ relayed' = relayed
    BY <1>1 DEF BroadcastMessage, Publish, effects
  <2> QED
    BY <1>0, <2>1, CountsUp
<1>2. ASSUME NEW w \in Workers, Work(w)
      PROVE  rows'[m] >= rows[m] /\ shown'[m] >= shown[m] /\ relayed \subseteq relayed'
  <2>1. CASE HandleNotice(w) \/ ShowNotification(w) \/ StoreNotification(w) \/ StoreFails(w)
    <3>1. worker[w].msg \in Messages
      BY <2>1 DEF HandleNotice, ShowNotification, StoreNotification, StoreFails, At, WorkerInv,
                  WorkerFine, Busy
    <3>2. /\ \/ shown' = [shown EXCEPT ![worker[w].msg] = @ + 1] \/ shown' = shown
          /\ \/ rows' = [rows EXCEPT ![worker[w].msg] = @ + 1] \/ rows' = rows
          /\ relayed \subseteq relayed'
      BY <2>1 DEF HandleNotice, ShowNotification, StoreNotification, StoreFails
    <3> QED
      BY <1>0, <3>1, <3>2, CountsUp
  <2>2. CASE ~HandleNotice(w) /\ ~ShowNotification(w) /\ ~StoreNotification(w) /\ ~StoreFails(w)
    BY <1>0, <1>2, <2>2 DEF Work, Connect, Take, HandleOther, Ack, Nack, effects
  <2> QED
    BY <2>1, <2>2
<1>3. CASE UNCHANGED effects
  BY <1>0, <1>3 DEF effects
<1>4. ASSUME NEW w \in Workers,
             Disconnect(w) \/ Crash(w) \/ (\E n \in Messages : Deliver(w, n))
      PROVE  UNCHANGED effects
  BY <1>4 DEF Disconnect, Crash, Deliver
<1>5. CASE PublisherBreaks \/ UNCHANGED vars
  BY <1>3, <1>5 DEF PublisherBreaks, vars
<1> QED
  BY <1>1, <1>2, <1>3, <1>4, <1>5 DEF Next

\* What is done stays done.
LEMMA DoneStays ==
    ASSUME TypeOK, WorkerInv, [Next]_vars, NEW m \in Messages, Done(m)
    PROVE  Done(m)'
<1>1. rows[m] \in Nat /\ shown[m] \in Nat /\ rows'[m] \in Nat /\ shown'[m] \in Nat
  BY StepTypeOK DEF TypeOK
<1>2. rows'[m] >= rows[m] /\ shown'[m] >= shown[m] /\ relayed \subseteq relayed'
  BY EffectsStay
<1>3. (rows[m] > 0 => rows'[m] > 0) /\ (shown[m] > 0 => shown'[m] > 0)
  BY <1>1, <1>2
<1> QED
  BY <1>2, <1>3 DEF Done

\* A message is done when a worker reaches the acknowledgement, and one that
\* is stored when it reaches the broadcast.
DoneAt(w) ==
    /\ At(w, "ack") => Done(worker[w].msg)
    /\ At(w, "show") => Kind[worker[w].msg] = "work" /\ rows[worker[w].msg] > 0

\* Every step keeps it.
LEMMA DoneStep ==
    ASSUME TypeOK, WorkerInv, PlacesInv, DoneInv, [Next]_vars
    PROVE  DoneInv'
<1>0. acked \subseteq Messages
  BY ElementsTyped DEF PlacesInv, TypeOK
<1>1. \A w \in Workers : DoneAt(w)
  BY DEF DoneInv, DoneAt
\* A worker that has not moved.
<1>2. ASSUME NEW w \in Workers, worker'[w] = worker[w]
      PROVE  DoneAt(w)'
  <2> DEFINE m == worker[w].msg
  <2>1. ASSUME At(w, "ack") \/ At(w, "show")
        PROVE  m \in Messages
    BY <2>1 DEF WorkerInv, WorkerFine, Busy, At
  <2>2. ASSUME At(w, "ack")
        PROVE  Done(m)'
    <3>1. m \in Messages /\ Done(m)
      BY <1>1, <2>1, <2>2 DEF DoneAt
    <3> HIDE DEF m
    <3>2. \A n \in Messages : Done(n) => Done(n)'
      BY DoneStays
    <3>3. Done(worker[w].msg)'
      BY <1>2, <3>1, <3>2 DEF m, Done
    <3> QED
      BY <3>3 DEF m
  <2>3. ASSUME At(w, "show")
        PROVE  Kind[m] = "work" /\ rows'[m] > 0
    <3>1. m \in Messages /\ Kind[m] = "work" /\ rows[m] > 0
      BY <1>1, <2>1, <2>3 DEF DoneAt
    <3> HIDE DEF m
    <3>2. rows[m] \in Nat /\ rows'[m] \in Nat /\ rows'[m] >= rows[m]
      BY <3>1, EffectsStay, StepTypeOK DEF TypeOK
    <3> QED
      BY <3>1, <3>2
  <2> QED
    BY <1>2, <2>2, <2>3 DEF DoneAt, At, Done
\* A worker that has.
<1>3. ASSUME NEW w \in Workers, Work(w)
      PROVE  DoneAt(w)' /\ \A m \in acked' : m \in acked \/ (m \in Messages /\ Done(m))
  <2> DEFINE m == worker[w].msg
  <2>1. CASE HandleOther(w) \/ HandleNotice(w) \/ StoreNotification(w) \/ StoreFails(w) \/ ShowNotification(w)
    <3>1. m \in Messages /\ Kind[m] \in Kinds /\ worker'[w].msg = m /\ acked' = acked
      BY <2>1, QueueAssumption
         DEF HandleOther, HandleNotice, StoreNotification, StoreFails, ShowNotification,
             WorkerInv, WorkerFine, Busy, At, Goto, TypeOK
    <3>2. rows[m] \in Nat /\ shown[m] \in Nat
      BY <3>1 DEF TypeOK
    <3>3. CASE HandleOther(w)
      BY <3>1, <3>3 DEF HandleOther, DoneAt, At, Done, Goto, TypeOK
    <3>4. CASE HandleNotice(w)
      BY <3>1, <3>4 DEF HandleNotice, DoneAt, At, Done, Goto, TypeOK
    <3>5. CASE StoreNotification(w) \/ StoreFails(w)
      <4>1. worker'[w].pc \in {"show", "nack"}
        BY <3>5 DEF StoreNotification, StoreFails, Goto, TypeOK
      <4>2. worker'[w].pc = "show" => rows'[m] = rows[m] + 1
        BY <3>1, <3>5 DEF StoreNotification, StoreFails, Goto, TypeOK
      <4>3. Kind[m] = "work"
        BY <3>5 DEF StoreNotification, StoreFails
      <4> QED
        BY <3>1, <3>2, <4>1, <4>2, <4>3 DEF DoneAt, At
    <3>6. CASE ShowNotification(w)
      <4>1. worker'[w].pc = "ack" /\ shown'[m] = shown[m] + 1 /\ rows' = rows
        BY <3>1, <3>6 DEF ShowNotification, Goto, TypeOK
      <4>2. Kind[m] = "work" /\ rows[m] > 0
        BY <1>1, <3>6 DEF ShowNotification, DoneAt
      <4>3. shown'[m] > 0
        BY <3>2, <4>1
      <4> QED
        BY <3>1, <4>1, <4>2, <4>3 DEF DoneAt, At, Done
    <3> QED
      BY <2>1, <3>3, <3>4, <3>5, <3>6, <3>1
  <2>2. CASE Connect(w) \/ Take(w) \/ Ack(w) \/ Nack(w)
    <3>1. worker'[w].pc \notin {"show", "ack"}
      BY <2>2 DEF Connect, Take, Ack, Nack, Proceed, Down, Goto, TypeOK
    <3>2. acked' = acked \/ (At(w, "ack") /\ acked' = acked \cup {m})
      BY <2>2 DEF Connect, Take, Ack, Nack
    <3>3. At(w, "ack") => m \in Messages /\ Done(m)
      BY <1>1 DEF DoneAt, WorkerInv, WorkerFine, Busy, At
    <3> QED
      BY <3>1, <3>2, <3>3 DEF DoneAt, At
  <2> QED
    BY <1>3, <2>1, <2>2 DEF Work
<1>4. ASSUME \A w \in Workers : DoneAt(w)',
             \A m \in acked' : m \in acked \/ (m \in Messages /\ Done(m))
      PROVE  DoneInv'
  <2>1. \A m \in acked' : m \in Messages /\ Done(m)
    BY <1>0, <1>4 DEF DoneInv
  <2>2. \A m \in Messages : Done(m) => Done(m)'
    BY DoneStays
  <2> QED
    BY <1>4, <2>1, <2>2 DEF DoneInv, DoneAt
<1>5. ASSUME NEW w \in Workers, Work(w)
      PROVE  DoneInv'
  <2>1. \A v \in Workers \ {w} : worker'[v] = worker[v]
    BY <1>5, WorkerFrame
  <2>2. DoneAt(w)' /\ \A m \in acked' : m \in acked \/ (m \in Messages /\ Done(m))
    BY <1>3, <1>5
  <2> QED
    BY <1>2, <1>4, <2>1, <2>2
<1>6. ASSUME NEW w \in Workers, Disconnect(w) \/ Crash(w)
      PROVE  DoneInv'
  <2>1. \A v \in Workers \ {w} : worker'[v] = worker[v]
    BY <1>6, WorkerFrame
  <2>2. acked' = acked
    BY <1>6 DEF Disconnect, Crash
  <2>3. DoneAt(w)'
    <3>1. CASE worker'[w] = Down
      BY <3>1 DEF DoneAt, At, Down
    <3>2. CASE /\ worker'[w].pc = worker[w].pc /\ worker'[w].msg = worker[w].msg
               /\ rows' = rows /\ shown' = shown /\ relayed' = relayed
      BY <1>1, <3>2 DEF DoneAt, At, Done
    <3> QED
      BY <1>6, <3>1, <3>2 DEF Disconnect, Crash, TypeOK, effects
  <2> QED
    BY <1>2, <1>4, <2>1, <2>2, <2>3
<1>7. CASE UNCHANGED <<worker, acked>>
  BY <1>2, <1>4, <1>7
<1>8. ASSUME NEW m \in Messages,
             BroadcastMessage(m) \/ Publish(m) \/ \E w \in Workers : Deliver(w, m)
      PROVE  UNCHANGED <<worker, acked>>
  BY <1>8 DEF BroadcastMessage, Publish, Deliver
<1>9. CASE PublisherBreaks \/ UNCHANGED vars
  BY <1>7, <1>9 DEF PublisherBreaks, vars
<1> QED
  BY <1>5, <1>6, <1>7, <1>8, <1>9 DEF Next

\* It holds in every state.
LEMMA DoneInvariant == Spec => []DoneInv
<1>1. Init => DoneInv
  BY DEF Init, DoneInv, At, Down
<1>2. TypeOK /\ WorkerInv /\ PlacesInv /\ DoneInv /\ [Next]_vars => DoneInv'
  BY DoneStep
<1> QED
  BY <1>1, <1>2, Typing, PlacesInvariant, PTL DEF Spec

\* An acknowledged notification is stored and broadcast, an acknowledged
\* message of an agent broadcast, whatever broke before; what the worker
\* cannot handle is never acknowledged.
THEOREM AcknowledgedIsDone == Spec => []AckedIsDone
<1>1. DoneInv => AckedIsDone
  BY DEF DoneInv, AckedIsDone, Done
<1> QED
  BY <1>1, DoneInvariant, PTL

-----------------------------------------------------------------------------
(* What stores a notification again.                                       *)

\* The numbers in Copies are natural numbers, before and after a step.
LEMMA CopiesTyped ==
    ASSUME TypeOK, NEW m \in Messages, IsFiniteSet(Late(m)), IsFiniteSet(Showing(m))
    PROVE  /\ rows[m] \in Nat /\ shown[m] \in Nat /\ returned[m] \in Nat /\ unsure[m] \in Nat
           /\ Cardinality(Late(m)) \in Nat /\ Cardinality(Showing(m)) \in Nat
BY FS_CardinalityType DEF TypeOK

\* A step that stores nothing of m, shows nothing that counts and leaves no
\* worker late keeps Copies(m); if it unsettles m, m has come back.
LEMMA CopiesKept ==
    ASSUME TypeOK, TypeOK', NEW m \in Messages, Copies(m),
           Late(m)' \subseteq Late(m), Showing(m)' \subseteq Showing(m),
           rows'[m] = rows[m], unsure'[m] = unsure[m], Kind[m] = "work" => shown'[m] = shown[m],
           \/ returned'[m] = returned[m] /\ (Settled(m) => Settled(m)')
           \/ returned'[m] = returned[m] + 1
    PROVE  Copies(m)'
<1>1. /\ IsFiniteSet(Late(m)') /\ Cardinality(Late(m)') <= Cardinality(Late(m))
      /\ IsFiniteSet(Showing(m)') /\ Cardinality(Showing(m)') <= Cardinality(Showing(m))
  BY FS_Subset DEF Copies
<1>2. /\ rows[m] \in Nat /\ shown[m] \in Nat /\ returned[m] \in Nat /\ unsure[m] \in Nat
      /\ Cardinality(Late(m)) \in Nat /\ Cardinality(Showing(m)) \in Nat
  BY CopiesTyped DEF Copies
<1>3. Cardinality(Late(m)') \in Nat /\ Cardinality(Showing(m)') \in Nat
  BY <1>1, FS_CardinalityType
<1>4. rows'[m] + Cardinality(Late(m)') <= returned'[m] + unsure'[m] + (IF Settled(m)' THEN 1 ELSE 0)
  BY <1>1, <1>2, <1>3 DEF Copies
<1>5. Kind[m] = "work" => shown'[m] + unsure'[m] + Cardinality(Showing(m)') <= rows'[m]
  BY <1>1, <1>2, <1>3 DEF Copies
<1> QED
  BY <1>1, <1>4, <1>5 DEF Copies

\* The message that a worker handles is with that worker, unless its
\* connection has taken it back.
LEMMA HandledIsHeld ==
    ASSUME TypeOK, WorkerInv, NEW w \in Workers, worker[w].pc \in Busy, ~worker[w].lost
    PROVE  worker[w].msg \in Elements(held[w])
<1>1. held[w] \in Seq(Messages) /\ held[w] # <<>> /\ Head(held[w]) = worker[w].msg
  BY DEF TypeOK, WorkerInv, WorkerFine
<1> QED
  BY <1>1, ElementsOfTail

\* The worker's insert of a notification: the first, or paid for by the
\* return that made the worker late.
LEMMA CopiesStored ==
    ASSUME TypeOK, TypeOK', WorkerInv, PlacesInv, CopiesInv, NEW w \in Workers,
           StoreNotification(w) \/ StoreFails(w), NEW n \in Messages
    PROVE  Copies(n)'
<1> DEFINE m == worker[w].msg
<1>1. /\ m \in Messages /\ Kind[m] = "work" /\ worker[w].pc = "handle"
      /\ worker'[w].msg = m /\ worker'[w].lost = worker[w].lost
      /\ \A v \in Workers \ {w} : worker'[v] = worker[v]
      /\ UNCHANGED <<acked, returned, shown>>
  <2>1. /\ Kind[m] = "work" /\ worker[w].pc = "handle" /\ UNCHANGED <<acked, returned, shown>>
        /\ \E step \in {"show", "nack"} : Goto(w, step)
    BY DEF StoreNotification, StoreFails, At
  <2>2. m \in Messages
    BY <2>1 DEF WorkerInv, WorkerFine, Busy
  <2> QED
    BY <2>1, <2>2 DEF Goto, TypeOK
<1>2. CASE n # m
  <2>1. rows'[n] = rows[n] /\ unsure'[n] = unsure[n]
    BY <1>1, <1>2 DEF StoreNotification, StoreFails, TypeOK
  <2>2. /\ Late(n)' \subseteq Late(n) /\ Showing(n)' \subseteq Showing(n)
        /\ Settled(n) => Settled(n)'
    BY <1>1, <1>2 DEF Late, Showing, Settled, At
  <2> QED
    BY <1>1, <2>1, <2>2, CopiesKept DEF CopiesInv
<1>3. CASE n = m /\ UNCHANGED <<rows, unsure>> /\ StoreFails(w)
  <2>1. worker'[w].pc # "show"
    BY <1>1, <1>3 DEF StoreFails, Goto, TypeOK
  <2>2. /\ Late(n)' \subseteq Late(n) /\ Showing(n)' \subseteq Showing(n)
        /\ Settled(n) => Settled(n)'
    BY <1>1, <2>1 DEF Late, Showing, Settled, At
  <2> QED
    BY <1>1, <1>3, <2>2, CopiesKept DEF CopiesInv
<1>4. CASE n = m /\ StoreNotification(w)
  <2>1. rows'[n] = rows[n] + 1 /\ unsure'[n] = unsure[n] /\ worker'[w].pc = "show"
    BY <1>1, <1>4 DEF StoreNotification, Goto, TypeOK
  <2>2. Late(n)' = Late(n) \ {w} /\ Showing(n)' = Showing(n) \cup {w}
    BY <1>1, <1>4, <2>1 DEF Late, Showing, At
  <2>3. w \notin Showing(n) /\ Copies(n)
    BY <1>1, <1>4 DEF Showing, At, CopiesInv
  <2>4. /\ IsFiniteSet(Late(n)') /\ IsFiniteSet(Showing(n)')
        /\ Cardinality(Late(n)') =
              IF w \in Late(n) THEN Cardinality(Late(n)) - 1 ELSE Cardinality(Late(n))
        /\ Cardinality(Showing(n)') = Cardinality(Showing(n)) + 1
    <3>1. IsFiniteSet(Late(n)) /\ IsFiniteSet(Showing(n))
      BY <2>3 DEF Copies
    <3>2. /\ IsFiniteSet(Showing(n) \cup {w})
          /\ Cardinality(Showing(n) \cup {w}) = Cardinality(Showing(n)) + 1
      BY <2>3, <3>1, FS_AddElement
    <3>3. /\ IsFiniteSet(Late(n) \ {w})
          /\ Cardinality(Late(n) \ {w}) =
                IF w \in Late(n) THEN Cardinality(Late(n)) - 1 ELSE Cardinality(Late(n))
      BY <3>1, FS_RemoveElement
    <3> QED
      BY <2>2, <3>2, <3>3
  <2>5. /\ rows[n] \in Nat /\ shown[n] \in Nat /\ returned[n] \in Nat /\ unsure[n] \in Nat
        /\ Cardinality(Late(n)) \in Nat /\ Cardinality(Showing(n)) \in Nat
    BY <2>3, CopiesTyped DEF Copies
  <2>6. w \notin Late(n) => ~Settled(n) /\ Settled(n)'
    <3> SUFFICES ASSUME ~worker[w].lost
                 PROVE  ~Settled(n) /\ Settled(n)'
      BY <1>1, <1>4 DEF Late, At
    <3>1. n \in Elements(held[w])
      BY <1>1, <1>4, HandledIsHeld DEF Busy
    <3>2. \A v \in Workers : ~worker[v].lost /\ worker[v].msg = n /\ worker[v].pc \in Busy
                               => n \in Elements(held[v])
      BY HandledIsHeld
    <3>3. n \notin acked /\ \A v \in Workers \ {w} : n \notin Elements(held[v])
      BY <3>1 DEF PlacesInv
    <3>4. ~Settled(n)
      BY <1>1, <3>2, <3>3 DEF Settled, At, Busy
    <3>5. Settled(n)'
      BY <1>1, <1>4, <2>1 DEF Settled, At
    <3> QED
      BY <3>4, <3>5
  <2>7. w \in Late(n) => (Settled(n) => Settled(n)')
    BY <1>1 DEF Late, Settled, At
  <2>8. rows'[n] + Cardinality(Late(n)') <= returned'[n] + unsure'[n] + (IF Settled(n)' THEN 1 ELSE 0)
    BY <1>1, <2>1, <2>3, <2>4, <2>5, <2>6, <2>7 DEF Copies
  <2>9. shown'[n] + unsure'[n] + Cardinality(Showing(n)') <= rows'[n]
    BY <1>1, <1>4, <2>1, <2>3, <2>4, <2>5 DEF Copies
  <2> QED
    BY <1>1, <1>4, <2>4, <2>8, <2>9 DEF Copies
<1>5. CASE n = m /\ ~UNCHANGED <<rows, unsure>> /\ StoreFails(w)
  <2>1. /\ rows'[n] = rows[n] + 1 /\ unsure'[n] = unsure[n] + 1
        /\ worker'[w].pc = "nack" /\ Copies(n)
    BY <1>1, <1>5 DEF StoreFails, Goto, TypeOK, CopiesInv
  <2>2. /\ Late(n)' \subseteq Late(n) /\ Showing(n)' \subseteq Showing(n)
        /\ Settled(n) => Settled(n)'
    BY <1>1, <2>1 DEF Late, Showing, Settled, At
  <2>3. /\ IsFiniteSet(Late(n)') /\ Cardinality(Late(n)') <= Cardinality(Late(n))
        /\ IsFiniteSet(Showing(n)') /\ Cardinality(Showing(n)') <= Cardinality(Showing(n))
    BY <2>1, <2>2, FS_Subset DEF Copies
  <2>4. /\ rows[n] \in Nat /\ shown[n] \in Nat /\ returned[n] \in Nat /\ unsure[n] \in Nat
        /\ Cardinality(Late(n)) \in Nat /\ Cardinality(Showing(n)) \in Nat
        /\ Cardinality(Late(n)') \in Nat /\ Cardinality(Showing(n)') \in Nat
    BY <2>1, <2>3, CopiesTyped, FS_CardinalityType DEF Copies
  <2>5. rows'[n] + Cardinality(Late(n)') <= returned'[n] + unsure'[n] + (IF Settled(n)' THEN 1 ELSE 0)
    BY <1>1, <2>1, <2>2, <2>3, <2>4 DEF Copies
  <2>6. shown'[n] + unsure'[n] + Cardinality(Showing(n)') <= rows'[n]
    BY <1>1, <1>5, <2>1, <2>3, <2>4 DEF Copies
  <2> QED
    BY <1>1, <1>5, <2>3, <2>5, <2>6 DEF Copies
<1> QED
  BY <1>2, <1>3, <1>4, <1>5 DEF StoreNotification

\* The broadcast of a notification that has a row.
LEMMA CopiesShown ==
    ASSUME TypeOK, TypeOK', WorkerInv, CopiesInv, NEW w \in Workers,
           ShowNotification(w), NEW n \in Messages
    PROVE  Copies(n)'
<1> DEFINE m == worker[w].msg
<1>1. /\ m \in Messages /\ worker[w].pc = "show"
      /\ worker'[w].msg = m /\ worker'[w].lost = worker[w].lost /\ worker'[w].pc = "ack"
      /\ \A v \in Workers \ {w} : worker'[v] = worker[v]
      /\ shown' = [shown EXCEPT ![m] = @ + 1]
      /\ UNCHANGED <<acked, returned, rows, unsure>>
  BY DEF ShowNotification, Goto, At, WorkerInv, WorkerFine, Busy, TypeOK
<1>2. Late(n)' \subseteq Late(n) /\ (Settled(n) => Settled(n)')
  BY <1>1 DEF Late, Settled, At
<1>3. CASE n # m
  <2>1. shown'[n] = shown[n] /\ Showing(n)' \subseteq Showing(n)
    BY <1>1, <1>3 DEF TypeOK, Showing, At
  <2> QED
    BY <1>1, <1>2, <2>1, CopiesKept DEF CopiesInv
<1>4. CASE n = m
  <2>1. /\ shown'[n] = shown[n] + 1
        /\ Showing(n)' = Showing(n) \ {w} /\ w \in Showing(n) /\ Copies(n)
    BY <1>1, <1>4 DEF TypeOK, Showing, At, CopiesInv
  <2>2. /\ IsFiniteSet(Late(n)') /\ Cardinality(Late(n)') <= Cardinality(Late(n))
        /\ IsFiniteSet(Showing(n)')
        /\ Cardinality(Showing(n)') = Cardinality(Showing(n)) - 1
    BY <1>2, <2>1, FS_Subset, FS_RemoveElement DEF Copies
  <2>3. /\ rows[n] \in Nat /\ shown[n] \in Nat /\ returned[n] \in Nat /\ unsure[n] \in Nat
        /\ Cardinality(Late(n)) \in Nat /\ Cardinality(Showing(n)) \in Nat
        /\ Cardinality(Late(n)') \in Nat
    BY <2>1, <2>2, CopiesTyped, FS_CardinalityType DEF Copies
  <2>4. rows'[n] + Cardinality(Late(n)') <= returned'[n] + unsure'[n] + (IF Settled(n)' THEN 1 ELSE 0)
    BY <1>1, <1>2, <2>1, <2>2, <2>3 DEF Copies
  <2>5. Kind[n] = "work" => shown'[n] + unsure'[n] + Cardinality(Showing(n)') <= rows'[n]
    BY <1>1, <2>1, <2>2, <2>3 DEF Copies
  <2> QED
    BY <1>1, <2>1, <2>2, <2>4, <2>5 DEF Copies
<1> QED
  BY <1>3, <1>4

\* The other steps of a worker.
LEMMA CopiesWorked ==
    ASSUME TypeOK, TypeOK', WorkerInv, CopiesInv, NEW w \in Workers, Work(w),
           ~StoreNotification(w), ~StoreFails(w), ~ShowNotification(w), NEW n \in Messages
    PROVE  Copies(n)'
<1>1. /\ \A v \in Workers \ {w} : worker'[v] = worker[v]
      /\ returned' = returned /\ rows' = rows /\ unsure' = unsure
  BY WorkerFrame DEF Work, Connect, Take, HandleOther, HandleNotice, Ack, Nack, effects
<1>2. CASE Connect(w) \/ Take(w)
  <2>1. /\ worker'[w].lost = worker[w].lost /\ worker[w].pc \notin Busy
        /\ worker'[w].pc \notin {"show", "ack"} /\ acked' = acked /\ shown' = shown
    BY <1>2 DEF Connect, Take, Goto, At, Busy, TypeOK, effects
  <2>2. ~worker[w].lost
    BY <2>1 DEF WorkerInv, WorkerFine
  <2>3. /\ Late(n)' \subseteq Late(n) /\ Showing(n)' \subseteq Showing(n)
        /\ Settled(n) => Settled(n)'
    BY <1>1, <2>1, <2>2 DEF Late, Showing, Settled, At, Busy
  <2> QED
    BY <1>1, <2>1, <2>3, CopiesKept DEF CopiesInv
<1>3. CASE HandleOther(w) \/ HandleNotice(w)
  <2>1. /\ worker[w].pc = "handle" /\ worker'[w].pc \in {"ack", "nack"}
        /\ worker'[w].lost = worker[w].lost /\ worker'[w].msg = worker[w].msg
        /\ acked' = acked
    <3>1. \E step \in {"ack", "nack"} : Goto(w, step)
      BY <1>3 DEF HandleOther, HandleNotice
    <3>2. worker[w].pc = "handle" /\ acked' = acked
      BY <1>3 DEF HandleOther, HandleNotice, At
    <3> QED
      BY <3>1, <3>2 DEF Goto, TypeOK
  <2>2. Kind[n] = "work" => shown'[n] = shown[n]
    BY <1>3 DEF HandleOther, HandleNotice, TypeOK, effects
  <2>3. /\ Late(n)' \subseteq Late(n) /\ Showing(n)' \subseteq Showing(n)
        /\ Settled(n) => Settled(n)'
    BY <1>1, <2>1 DEF Late, Showing, Settled, At
  <2> QED
    BY <1>1, <2>2, <2>3, CopiesKept DEF CopiesInv
<1>4. CASE Ack(w) \/ Nack(w)
  <2>1. /\ worker'[w].pc \in {"down", "wait"} /\ shown' = shown /\ acked \subseteq acked'
        /\ worker[w].pc = "nack" \/ worker[w].lost \/ worker[w].msg \in acked'
        /\ worker[w].pc \in {"ack", "nack"}
    BY <1>4 DEF Ack, Nack, Proceed, Down, At, TypeOK, effects
  <2>2. /\ Late(n)' \subseteq Late(n) /\ Showing(n)' \subseteq Showing(n)
        /\ Settled(n) => Settled(n)'
    BY <1>1, <2>1 DEF Late, Showing, Settled, At
  <2> QED
    BY <1>1, <2>1, <2>2, CopiesKept DEF CopiesInv
<1> QED
  BY <1>2, <1>3, <1>4 DEF Work

\* A broken connection and a stop: what the worker was handling comes back,
\* and the worker that goes on with it is late.
LEMMA CopiesReturned ==
    ASSUME TypeOK, TypeOK', WorkerInv, CopiesInv, NEW w \in Workers,
           Disconnect(w) \/ Crash(w), NEW n \in Messages
    PROVE  Copies(n)'
<1> DEFINE m == worker[w].msg
<1>1. /\ \A v \in Workers \ {w} : worker'[v] = worker[v]
      /\ acked' = acked /\ rows' = rows /\ unsure' = unsure /\ shown' = shown
      /\ returned'[n] = IF n \in Elements(held[w]) THEN returned[n] + 1 ELSE returned[n]
  BY WorkerFrame DEF Disconnect, Crash, effects
<1>2. \/ worker'[w].pc = "down"
      \/ /\ worker'[w].pc = worker[w].pc /\ worker'[w].msg = m
         /\ worker'[w].lost /\ ~worker[w].lost
  <2>1. CASE Crash(w)
    BY <2>1 DEF Crash, Down, TypeOK
  <2>2. CASE Disconnect(w)
    BY <2>2 DEF Disconnect, Down, At, TypeOK
  <2> QED
    BY <2>1, <2>2
<1>3. Showing(n)' \subseteq Showing(n)
  BY <1>1, <1>2 DEF Showing, At
<1>4. \/ returned'[n] = returned[n] /\ (Settled(n) => Settled(n)')
      \/ returned'[n] = returned[n] + 1
  <2>1. CASE n \in Elements(held[w])
    BY <1>1, <2>1
  <2>2. CASE n \notin Elements(held[w])
    <3>1. ~(~worker[w].lost /\ m = n /\ worker[w].pc \in Busy)
      BY <2>2, HandledIsHeld
    <3>2. Settled(n) => Settled(n)'
      BY <1>1, <3>1 DEF Settled, At, Busy
    <3> QED
      BY <1>1, <2>2, <3>2
  <2> QED
    BY <2>1, <2>2
<1>5. CASE Late(n)' \subseteq Late(n)
  BY <1>1, <1>3, <1>4, <1>5, CopiesKept DEF CopiesInv
<1>6. CASE ~(Late(n)' \subseteq Late(n))
  <2>1. /\ worker[w].pc = "handle" /\ m = n /\ worker'[w].lost /\ ~worker[w].lost
        /\ worker'[w].pc = "handle"
    BY <1>1, <1>2, <1>6 DEF Late, At
  <2>2. Late(n)' = Late(n) \cup {w} /\ w \notin Late(n)
    BY <1>1, <1>2, <2>1 DEF Late, At
  <2>3. returned'[n] = returned[n] + 1
    BY <1>1, <2>1, HandledIsHeld DEF Busy
  <2>4. Settled(n) => Settled(n)'
    BY <1>1, <2>1 DEF Settled, At
  <2>5. Copies(n)
    BY DEF CopiesInv
  <2>6. /\ IsFiniteSet(Late(n)') /\ Cardinality(Late(n)') = Cardinality(Late(n)) + 1
        /\ IsFiniteSet(Showing(n)') /\ Cardinality(Showing(n)') <= Cardinality(Showing(n))
    BY <1>3, <2>2, <2>5, FS_AddElement, FS_Subset DEF Copies
  <2>7. /\ rows[n] \in Nat /\ shown[n] \in Nat /\ returned[n] \in Nat /\ unsure[n] \in Nat
        /\ Cardinality(Late(n)) \in Nat /\ Cardinality(Showing(n)) \in Nat
        /\ Cardinality(Showing(n)') \in Nat
    BY <2>5, <2>6, CopiesTyped, FS_CardinalityType DEF Copies
  <2>8. rows'[n] + Cardinality(Late(n)') <= returned'[n] + unsure'[n] + (IF Settled(n)' THEN 1 ELSE 0)
    BY <1>1, <2>3, <2>4, <2>5, <2>6, <2>7 DEF Copies
  <2>9. Kind[n] = "work" => shown'[n] + unsure'[n] + Cardinality(Showing(n)') <= rows'[n]
    BY <1>1, <2>5, <2>6, <2>7 DEF Copies
  <2> QED
    BY <1>1, <2>5, <2>6, <2>8, <2>9 DEF Copies
<1> QED
  BY <1>5, <1>6

\* Every step keeps the count of rows and returns.
LEMMA CopiesStep ==
    ASSUME TypeOK, WorkerInv, PlacesInv, CopiesInv, [Next]_vars
    PROVE  CopiesInv'
<1> SUFFICES ASSUME NEW n \in Messages
             PROVE  Copies(n)'
  BY DEF CopiesInv
<1>0. TypeOK'
  BY StepTypeOK
<1>1. ASSUME NEW w \in Workers, Work(w)
      PROVE  Copies(n)'
  BY <1>0, <1>1, CopiesStored, CopiesShown, CopiesWorked
<1>2. ASSUME NEW w \in Workers, Disconnect(w) \/ Crash(w)
      PROVE  Copies(n)'
  BY <1>0, <1>2, CopiesReturned
<1>3. CASE /\ UNCHANGED <<worker, acked, returned, rows, unsure>>
           /\ Kind[n] = "work" => shown'[n] = shown[n]
  <2>1. Late(n)' = Late(n) /\ Showing(n)' = Showing(n) /\ (Settled(n) => Settled(n)')
    BY <1>3 DEF Late, Showing, Settled, At
  <2> QED
    BY <1>0, <1>3, <2>1, CopiesKept DEF CopiesInv
<1>4. ASSUME NEW m \in Messages,
             BroadcastMessage(m) \/ Publish(m) \/ \E w \in Workers : Deliver(w, m)
      PROVE  Copies(n)'
  <2>1. /\ UNCHANGED <<worker, acked, returned, rows, unsure>>
        /\ Kind[n] = "work" => shown'[n] = shown[n]
    BY <1>4 DEF BroadcastMessage, Publish, Deliver, effects, TypeOK
  <2> QED
    BY <1>3, <2>1
<1>5. CASE PublisherBreaks \/ UNCHANGED vars
  BY <1>3, <1>5 DEF PublisherBreaks, vars, effects
<1> QED
  BY <1>1, <1>2, <1>4, <1>5 DEF Next

\* It holds in every state.
LEMMA CopiesInvariant == Spec => []CopiesInv
<1>1. Init => CopiesInv
  <2> SUFFICES ASSUME Init, NEW m \in Messages
               PROVE  Copies(m)
    BY DEF CopiesInv
  <2>1. Late(m) = {} /\ Showing(m) = {}
    BY DEF Init, Late, Showing, At, Down
  <2>2. IsFiniteSet({}) /\ Cardinality({}) = 0
    BY FS_EmptySet
  <2>3. rows[m] = 0 /\ unsure[m] = 0 /\ shown[m] = 0 /\ returned[m] = 0 /\ ~Settled(m)
    BY DEF Init, Settled, Down, At
  <2> QED
    BY <2>1, <2>2, <2>3 DEF Copies
<1>2. TypeOK /\ WorkerInv /\ PlacesInv /\ CopiesInv /\ [Next]_vars => CopiesInv'
  BY CopiesStep
<1> QED
  BY <1>1, <1>2, Typing, PlacesInvariant, PTL DEF Spec

\* A notification is stored once more only for each time the broker has taken
\* it back, also from a worker that goes on after its connection broke, and
\* for each insert that stored it and ended in an error; it is broadcast no
\* more often than it is stored by an insert that succeeded.
THEOREM RepeatsAreExplained == Spec => []RepeatsHaveCauses
<1>1. TypeOK /\ CopiesInv => RepeatsHaveCauses
  <2> SUFFICES ASSUME TypeOK, CopiesInv, NEW m \in Messages
               PROVE  /\ rows[m] <= 1 + returned[m] + unsure[m]
                      /\ Kind[m] # "work" => rows[m] = 0
                      /\ Kind[m] = "work" => shown[m] + unsure[m] <= rows[m]
    BY DEF RepeatsHaveCauses
  <2>1. Copies(m)
    BY DEF CopiesInv
  <2>2. /\ rows[m] \in Nat /\ shown[m] \in Nat /\ returned[m] \in Nat /\ unsure[m] \in Nat
        /\ Cardinality(Late(m)) \in Nat /\ Cardinality(Showing(m)) \in Nat
    BY <2>1, CopiesTyped DEF Copies
  <2> QED
    BY <2>1, <2>2 DEF Copies
<1> QED
  BY <1>1, Typing, CopiesInvariant, PTL
=============================================================================
