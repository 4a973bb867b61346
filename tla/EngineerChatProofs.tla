------------------------- MODULE EngineerChatProofs -------------------------
(***************************************************************************)
(* Theorems about EngineerChat for any number of goroutines, requests,     *)
(* lines in a prompt and stops of the process, both stores, with and       *)
(* without statements that fail.                                           *)
(***************************************************************************)
EXTENDS EngineerChat, TLAPS, WellFoundedInduction, FiniteSetTheorems

-----------------------------------------------------------------------------
(* The lines of a chat.                                                    *)

\* A set that has 0 and with a number the next one has all numbers: otherwise
\* the least number it lacks would follow one it has.
LEMMA NumberInduction ==
    ASSUME NEW T, 0 \in T, \A n \in Nat : n \in T => n + 1 \in T
    PROVE  Nat \subseteq T
<1> DEFINE R == OpToRel(<, Nat)
           U == Nat \ T
<1> SUFFICES ASSUME U # {} PROVE FALSE
  OBVIOUS
<1>1. \A x, y \in Nat : y < x => <<y, x>> \in R
  BY Zenon DEF OpToRel
<1>2. IsWellFoundedOn(R, Nat)
  BY NatLessThanWellFounded
<1> HIDE DEF R
<1>3. PICK x \in U : \A y \in U : ~(<<y, x>> \in R)
  BY <1>2, WFMin
<1>4. x \in Nat /\ x # 0
  OBVIOUS
<1>5. x - 1 \in Nat /\ x - 1 < x /\ (x - 1) + 1 = x
  BY <1>4
<1>6. x - 1 \in T
  BY <1>1, <1>3, <1>4, <1>5
<1> QED
  BY <1>3, <1>5, <1>6

\* A set that has the empty sequence and with a sequence every longer one by
\* an element has all sequences.
LEMMA SequenceInduction ==
    ASSUME NEW S, NEW T, <<>> \in T,
           \A ps \in Seq(S), p \in S : ps \in T => Append(ps, p) \in T
    PROVE  Seq(S) \subseteq T
<1> DEFINE N == {n \in Nat : \A ps \in Seq(S) : Len(ps) = n => ps \in T}
<1>1. 0 \in N
  <2>1. \A ps \in Seq(S) : Len(ps) = 0 => ps = <<>>
    OBVIOUS
  <2> QED
    BY <2>1
<1>2. ASSUME NEW n \in Nat, n \in N
      PROVE  n + 1 \in N
  <2> SUFFICES ASSUME NEW ps \in Seq(S), Len(ps) = n + 1
               PROVE  ps \in T
    OBVIOUS
  <2> DEFINE qs == [i \in 1..n |-> ps[i]]
  <2>1. qs \in Seq(S) /\ Len(qs) = n
    OBVIOUS
  <2>2. ps[n + 1] \in S
    OBVIOUS
  <2>3. ps = Append(qs, ps[n + 1])
    OBVIOUS
  <2>4. qs \in T
    BY <1>2, <2>1
  <2> HIDE DEF qs
  <2> QED
    BY <2>1, <2>2, <2>3, <2>4
<1> HIDE DEF N
<1>3. Nat \subseteq N
  BY <1>1, <1>2, NumberInduction
<1> QED
  BY <1>3 DEF N

\* What the scan in Chat makes of the first lines.
IsScan(cs, ls) ==
    cs = [i \in 0..Len(ls) |->
            IF i = 0 THEN <<>>
            ELSE IF ls[i].from = "post" THEN cs[i - 1]
            ELSE Append(cs[i - 1], ls[i])]

\* Every sequence of lines can be scanned.
LEMMA ScanExists == \A ls \in Seq(Lines) : \E cs : IsScan(cs, ls)
<1> DEFINE T == {ls \in Seq(Lines) : \E cs : IsScan(cs, ls)}
<1>1. <<>> \in T
  <2>1. IsScan([i \in 0..0 |-> <<>>], <<>>)
    BY DEF IsScan
  <2> QED
    BY <2>1
<1>2. ASSUME NEW ls \in Seq(Lines), NEW l \in Lines, ls \in T
      PROVE  Append(ls, l) \in T
  <2>1. PICK cs : IsScan(cs, ls)
    BY <1>2
  <2> DEFINE n == Len(ls)
             ks == Append(ls, l)
             last == IF l.from = "post" THEN cs[n] ELSE Append(cs[n], l)
             ds == [i \in 0..(n + 1) |-> IF i = n + 1 THEN last ELSE cs[i]]
  <2>2. n \in Nat /\ Len(ks) = n + 1 /\ ks[n + 1] = l /\ \A i \in 1..n : ks[i] = ls[i]
    OBVIOUS
  <2>3. \A i \in 0..n : cs[i] = IF i = 0 THEN <<>>
                                ELSE IF ls[i].from = "post" THEN cs[i - 1]
                                ELSE Append(cs[i - 1], ls[i])
    BY <2>1 DEF IsScan
  <2>4. \A i \in 0..(n + 1) :
           ds[i] = IF i = 0 THEN <<>>
                   ELSE IF ks[i].from = "post" THEN ds[i - 1]
                   ELSE Append(ds[i - 1], ks[i])
    <3> HIDE DEF ks
    <3> TAKE i \in 0..(n + 1)
    <3>1. CASE i = n + 1
      BY <2>2, <3>1
    <3>2. CASE i \in 0..n
      BY <2>2, <2>3, <3>2
    <3> QED
      BY <2>2, <3>1, <3>2
  <2> HIDE DEF n, ks, last
  <2>5. IsScan(ds, ks)
    <3>1. Len(ks) = n + 1
      BY <2>2
    <3> QED
      BY <2>4, <3>1 DEF IsScan
  <2> HIDE DEF ds
  <2>6. ks \in Seq(Lines)
    BY DEF ks
  <2> QED
    BY <2>5, <2>6 DEF ks
<1> HIDE DEF T
<1>3. Seq(Lines) \subseteq T
  BY <1>1, <1>2, SequenceInduction
<1> QED
  BY <1>3 DEF T

\* The scan is what Chat takes its last value of.
LEMMA ChatScan ==
    ASSUME NEW ls \in Seq(Lines)
    PROVE  \E cs : IsScan(cs, ls) /\ Chat(ls) = cs[Len(ls)]
<1> DEFINE f == CHOOSE cs : IsScan(cs, ls)
<1>1. Chat(ls) = f[Len(ls)]
  BY Zenon DEF Chat, IsScan
<1>2. IsScan(f, ls)
  BY ScanExists
<1> QED
  BY <1>1, <1>2

\* A chat starts with no line.
LEMMA ChatOfNone == Chat(<<>>) = <<>>
<1>1. <<>> \in Seq(Lines) /\ Len(<<>>) = 0
  OBVIOUS
<1>2. PICK cs : IsScan(cs, <<>>) /\ Chat(<<>>) = cs[0]
  BY <1>1, ChatScan
<1> QED
  BY <1>1, <1>2 DEF IsScan

\* Two scans agree as long as the lines do.
LEMMA ScansAgree ==
    ASSUME NEW ls \in Seq(Lines), NEW l \in Lines, NEW cs, NEW ds,
           IsScan(cs, ls), IsScan(ds, Append(ls, l))
    PROVE  cs[Len(ls)] = ds[Len(ls)]
<1> DEFINE n == Len(ls)
           ks == Append(ls, l)
           T == {i \in Nat : i <= n => cs[i] = ds[i]}
<1>1. n \in Nat /\ Len(ks) = n + 1 /\ \A i \in 1..n : ks[i] = ls[i]
  OBVIOUS
<1>2. \A i \in 0..n : cs[i] = IF i = 0 THEN <<>>
                              ELSE IF ls[i].from = "post" THEN cs[i - 1]
                              ELSE Append(cs[i - 1], ls[i])
  BY DEF IsScan
<1>3. \A i \in 0..(n + 1) : ds[i] = IF i = 0 THEN <<>>
                                    ELSE IF ks[i].from = "post" THEN ds[i - 1]
                                    ELSE Append(ds[i - 1], ks[i])
  <2> HIDE DEF ks
  <2> QED
    BY <1>1 DEF IsScan, ks
<1> HIDE DEF n, ks
<1>4. 0 \in T
  BY <1>1, <1>2, <1>3
<1>5. ASSUME NEW i \in Nat, i \in T
      PROVE  i + 1 \in T
  <2> SUFFICES ASSUME i + 1 <= n
               PROVE  cs[i + 1] = ds[i + 1]
    OBVIOUS
  <2>1. i + 1 \in 0..n /\ i + 1 \in 0..(n + 1) /\ i + 1 # 0 /\ (i + 1) - 1 = i /\ i <= n
    BY <1>1
  <2>2. cs[i] = ds[i] /\ ks[i + 1] = ls[i + 1]
    BY <1>1, <1>5, <2>1
  <2> QED
    BY <1>2, <1>3, <2>1, <2>2
<1> HIDE DEF T
<1>6. n \in T
  BY <1>1, <1>4, <1>5, NumberInduction
<1> QED
  BY <1>1, <1>6 DEF T, n

\* A line more, unless it is a post.
LEMMA ChatOfMore ==
    ASSUME NEW ls \in Seq(Lines), NEW l \in Lines
    PROVE  Chat(Append(ls, l)) = IF l.from = "post" THEN Chat(ls)
                                                     ELSE Append(Chat(ls), l)
<1>1. PICK cs : IsScan(cs, ls) /\ Chat(ls) = cs[Len(ls)]
  BY ChatScan
<1> DEFINE ks == Append(ls, l)
           n == Len(ls)
<1>2. ks \in Seq(Lines) /\ Len(ks) = n + 1 /\ ks[n + 1] = l /\ n \in Nat
  OBVIOUS
<1>3. PICK ds : IsScan(ds, ks) /\ Chat(ks) = ds[Len(ks)]
  BY <1>2, ChatScan
<1>4. cs[n] = ds[n]
  BY <1>1, <1>3, ScansAgree
<1> HIDE DEF ks, n
<1>5. ds[n + 1] = IF l.from = "post" THEN ds[n] ELSE Append(ds[n], l)
  <2>1. n + 1 \in 0..Len(ks) /\ n + 1 # 0 /\ (n + 1) - 1 = n
    BY <1>2
  <2> QED
    BY <1>2, <1>3, <2>1 DEF IsScan
<1> QED
  BY <1>1, <1>2, <1>3, <1>4, <1>5 DEF n, ks

\* A chat is a sequence of lines.
LEMMA ChatTyped == \A ls \in Seq(Lines) : Chat(ls) \in Seq(Lines)
<1> DEFINE T == {ls \in Seq(Lines) : Chat(ls) \in Seq(Lines)}
<1>1. <<>> \in T
  <2>1. <<>> \in Seq(Lines)
    OBVIOUS
  <2> QED
    BY <2>1, ChatOfNone
<1>2. ASSUME NEW ls \in Seq(Lines), NEW l \in Lines, ls \in T
      PROVE  Append(ls, l) \in T
  <2>1. Append(ls, l) \in Seq(Lines) /\ Chat(ls) \in Seq(Lines)
    BY <1>2
  <2>2. Append(Chat(ls), l) \in Seq(Lines)
    BY <2>1
  <2> QED
    BY <2>1, <2>2, ChatOfMore
<1> HIDE DEF T
<1>3. Seq(Lines) \subseteq T
  BY <1>1, <1>2, SequenceInduction
<1> QED
  BY <1>3 DEF T

\* The lines of a chat that came after the first line a.
Behind(ls, a) ==
    {i \in DOMAIN ls : /\ ls[i].from # "post"
                       /\ \E j \in 1..(i - 1) : ls[j] = a}

\* There are finitely many.
LEMMA BehindFinite ==
    ASSUME NEW ls \in Seq(Lines), NEW a
    PROVE  IsFiniteSet(Behind(ls, a)) /\ Cardinality(Behind(ls, a)) \in Nat
<1>1. DOMAIN ls = 1..Len(ls) /\ Len(ls) \in Nat
  OBVIOUS
<1>2. IsFiniteSet(1..Len(ls))
  BY <1>1, FS_Interval
<1>3. Behind(ls, a) \in SUBSET (1..Len(ls))
  BY <1>1 DEF Behind
<1> QED
  BY <1>2, <1>3, FS_Subset, FS_CardinalityType

\* A line more is behind a, if there is an a and the line is no post.
LEMMA BehindMore ==
    ASSUME NEW ls \in Seq(Lines), NEW l \in Lines, NEW a
    PROVE  Behind(Append(ls, l), a) =
              IF l.from # "post" /\ a \in ToSet(ls) THEN Behind(ls, a) \cup {Len(ls) + 1}
                                                    ELSE Behind(ls, a)
<1> DEFINE n == Len(ls)
           ks == Append(ls, l)
<1>1. /\ n \in Nat /\ DOMAIN ls = 1..n /\ DOMAIN ks = 1..(n + 1)
      /\ \A i \in 1..n : ks[i] = ls[i]
      /\ ks[n + 1] = l
  OBVIOUS
<1> HIDE DEF n, ks
<1>2. a \in ToSet(ls) <=> \E j \in 1..n : ls[j] = a
  BY <1>1 DEF ToSet
<1>3. \A i \in 1..n : i \in Behind(ks, a) <=> i \in Behind(ls, a)
  <2> TAKE i \in 1..n
  <2>1. \A j \in 1..(i - 1) : j \in 1..n
    BY <1>1
  <2> QED
    BY <1>1, <2>1 DEF Behind
<1>4. n + 1 \in Behind(ks, a) <=> l.from # "post" /\ a \in ToSet(ls)
  <2>1. (n + 1) - 1 = n /\ n + 1 \in 1..(n + 1)
    BY <1>1
  <2> QED
    BY <1>1, <1>2, <2>1 DEF Behind
<1>5. Behind(ks, a) \subseteq 1..(n + 1) /\ Behind(ls, a) \subseteq 1..n
  BY <1>1 DEF Behind
<1>6. \A i \in 1..(n + 1) : i \in 1..n \/ i = n + 1
  BY <1>1
<1>7. 1..n \subseteq 1..(n + 1) /\ n + 1 \notin 1..n /\ n + 1 \in 1..(n + 1)
  BY <1>1
<1> DEFINE B == Behind(ks, a)
           C == Behind(ls, a)
           D == IF l.from # "post" /\ a \in ToSet(ls) THEN C \cup {n + 1} ELSE C
<1>8. \A i : i \in B <=> i \in D
  <2> HIDE DEF B, C
  <2>1. \A i \in 1..n : i \in B <=> i \in C
    BY <1>3 DEF B, C
  <2>2. n + 1 \in B <=> l.from # "post" /\ a \in ToSet(ls)
    BY <1>4 DEF B
  <2>3. B \subseteq 1..(n + 1) /\ C \subseteq 1..n
    BY <1>5 DEF B, C
  <2> QED
    BY <1>6, <1>7, <2>1, <2>2, <2>3
<1>9. B = D
  <2> HIDE DEF B, D
  <2> QED
    BY <1>8
<1> QED
  BY <1>9 DEF n, ks

\* A stored line that is no post has its place in the chat, and those after
\* that place are the ones behind it.
LEMMA ChatPlaces ==
    ASSUME NEW a \in Lines, a.from # "post"
    PROVE  \A ls \in Seq(Lines) : a \in ToSet(ls) =>
              \E k \in 1..Len(Chat(ls)) :
                 /\ Chat(ls)[k] = a
                 /\ Cardinality(Behind(ls, a)) = Len(Chat(ls)) - k
<1> DEFINE Placed(ls) == \E k \in 1..Len(Chat(ls)) :
                            /\ Chat(ls)[k] = a
                            /\ Cardinality(Behind(ls, a)) = Len(Chat(ls)) - k
           T == {ls \in Seq(Lines) : a \in ToSet(ls) => Placed(ls)}
<1>1. <<>> \in T
  <2>1. <<>> \in Seq(Lines) /\ ToSet(<<>>) = {}
    BY DEF ToSet
  <2> QED
    BY <2>1
<1>2. ASSUME NEW ls \in Seq(Lines), NEW l \in Lines, ls \in T
      PROVE  Append(ls, l) \in T
  <2> DEFINE n == Len(ls)
             ks == Append(ls, l)
             chat == Chat(ls)
             m == Len(chat)
  <2>1. /\ n \in Nat /\ ks \in Seq(Lines) /\ DOMAIN ls = 1..n /\ DOMAIN ks = 1..(n + 1)
        /\ \A i \in 1..n : ks[i] = ls[i]
        /\ ks[n + 1] = l
    OBVIOUS
  <2>2. a \in ToSet(ls) => Placed(ls)
    BY <1>2
  <2>3. Behind(ks, a) = IF l.from # "post" /\ a \in ToSet(ls) THEN Behind(ls, a) \cup {n + 1}
                                                              ELSE Behind(ls, a)
    BY BehindMore
  <2>4. /\ IsFiniteSet(Behind(ls, a)) /\ Cardinality(Behind(ls, a)) \in Nat
        /\ n + 1 \notin Behind(ls, a)
    <3>1. n + 1 \notin 1..n
      BY <2>1
    <3> QED
      BY <2>1, <3>1, BehindFinite DEF Behind
  <2>5. chat \in Seq(Lines) /\ m \in Nat
    BY ChatTyped
  <2>6. Chat(ks) = IF l.from = "post" THEN chat ELSE Append(chat, l)
    BY ChatOfMore
  <2>7. a \in ToSet(ks) => a \in ToSet(ls) \/ a = l
    <3> SUFFICES ASSUME NEW i \in 1..(n + 1), ks[i] = a, a # l
                 PROVE  a \in ToSet(ls)
      BY <2>1 DEF ToSet
    <3>1. i \in 1..n
      BY <2>1
    <3> QED
      BY <2>1, <3>1 DEF ToSet
  <2> HIDE DEF ks, n
  <2>8. CASE l.from = "post"
    <3>1. Behind(ks, a) = Behind(ls, a) /\ Chat(ks) = chat /\ a # l
      BY <2>3, <2>6, <2>8
    <3>2. a \in ToSet(ks) => Placed(ls)
      BY <2>2, <2>7, <3>1
    <3>3. Placed(ls) => Placed(ks)
      BY <3>1
    <3> HIDE DEF Placed
    <3> QED
      BY <2>1, <3>2, <3>3 DEF ks
  <2>9. CASE l.from # "post" /\ a \in ToSet(ls)
    <3>1. PICK k \in 1..m : chat[k] = a /\ Cardinality(Behind(ls, a)) = m - k
      BY <2>2, <2>9
    <3>2. Chat(ks) = Append(chat, l)
      BY <2>6, <2>9
    <3>3. /\ Len(Chat(ks)) = m + 1 /\ Chat(ks)[k] = a
          /\ k \in 1..(m + 1) /\ (m - k) + 1 = (m + 1) - k
      <4> HIDE DEF chat
      <4> QED
        BY <2>5, <3>1, <3>2
    <3>4. Cardinality(Behind(ks, a)) = Cardinality(Behind(ls, a)) + 1
      BY <2>3, <2>4, <2>9, FS_AddElement
    <3>5. Placed(ks)
      BY <3>1, <3>3, <3>4
    <3> HIDE DEF Placed
    <3> QED
      BY <2>1, <3>5 DEF ks
  <2>10. CASE l.from # "post" /\ a \notin ToSet(ls)
    <3>1. Behind(ks, a) = {}
      <4>1. \A j \in 1..n : ls[j] # a
        BY <2>1, <2>10 DEF ToSet
      <4>2. \A i \in 1..n : \A j \in 1..(i - 1) : j \in 1..n
        BY <2>1
      <4>3. Behind(ls, a) = {}
        BY <2>1, <4>1, <4>2 DEF Behind
      <4> QED
        BY <2>3, <2>10, <4>3
    <3>2. Chat(ks) = Append(chat, l)
      BY <2>6, <2>10
    <3>3. /\ Len(Chat(ks)) = m + 1 /\ Chat(ks)[m + 1] = l
          /\ m + 1 \in 1..(m + 1) /\ (m + 1) - (m + 1) = 0
      <4> HIDE DEF chat
      <4> QED
        BY <2>5, <3>2
    <3>4. Cardinality(Behind(ks, a)) = 0
      BY <3>1, FS_EmptySet
    <3>5. a = l => Placed(ks)
      BY <3>3, <3>4
    <3> HIDE DEF Placed
    <3> QED
      BY <2>1, <2>7, <2>10, <3>5 DEF ks
  <2> HIDE DEF T
  <2> QED
    BY <2>8, <2>9, <2>10 DEF ks
<1> HIDE DEF T
<1>3. Seq(Lines) \subseteq T
  BY <1>1, <1>2, SequenceInduction
<1> QED
  BY <1>3 DEF T

\* What writeEngineerHistory keeps of the conversation: at most as many lines
\* as a prompt takes.
LEMMA ConversationTyped ==
    ASSUME NEW ls \in Seq(Lines)
    PROVE  Conversation(ls) \in BoundedSeq(Lines, HistoryLimit)
<1> DEFINE chat == Chat(ls)
           n == Len(chat)
           m == IF n > HistoryLimit THEN n - HistoryLimit + 1 ELSE 1
           some == SubSeq(chat, m, n)
<1>1. chat \in Seq(Lines) /\ n \in Nat /\ HistoryLimit \in Nat \ {0}
  BY ChatTyped, BoundsAssumption
<1> HIDE DEF chat
<1>2. m \in Nat \ {0} /\ m <= n + 1
  BY <1>1
<1> HIDE DEF m
<1>3. some \in Seq(Lines) /\ Len(some) = n - m + 1 /\ Len(some) \in Nat
  BY <1>1, <1>2
<1>4. Len(some) <= HistoryLimit
  BY <1>1, <1>3 DEF m
<1>5. Conversation(ls) = some
  BY DEF Conversation, m, chat
<1> HIDE DEF some
<1>6. Len(some) \in 0..HistoryLimit /\ some \in [1..Len(some) -> Lines]
  BY <1>1, <1>3, <1>4
<1> QED
  BY <1>5, <1>6 DEF BoundedSeq, SeqOf

\* It has every line, unless as many as a prompt takes are behind it.
LEMMA ConversationKnows ==
    ASSUME NEW ls \in Seq(Lines), NEW a \in Lines, a.from # "post", a \in ToSet(ls)
    PROVE  a \in ToSet(Conversation(ls)) \/ Cardinality(Behind(ls, a)) >= HistoryLimit
<1> DEFINE chat == Chat(ls)
           n == Len(chat)
           m == IF n > HistoryLimit THEN n - HistoryLimit + 1 ELSE 1
           some == SubSeq(chat, m, n)
<1>1. chat \in Seq(Lines) /\ n \in Nat /\ HistoryLimit \in Nat \ {0}
  BY ChatTyped, BoundsAssumption
<1>2. PICK k \in 1..n : chat[k] = a /\ Cardinality(Behind(ls, a)) = n - k
  BY ChatPlaces
<1>3. Conversation(ls) = some
  BY DEF Conversation
<1> HIDE DEF chat
<1>4. CASE k >= m
  <2>1. k - m + 1 \in 1..(n - m + 1) /\ m \in Nat \ {0} /\ m <= n /\ m + (k - m + 1) - 1 = k
    BY <1>1, <1>4
  <2> HIDE DEF m
  <2>2. DOMAIN some = 1..(n - m + 1) /\ some[k - m + 1] = chat[m + (k - m + 1) - 1]
    BY <1>1, <2>1
  <2> QED
    BY <1>2, <1>3, <2>1, <2>2 DEF ToSet
<1>5. CASE k < m
  <2>1. n - k >= HistoryLimit
    BY <1>1, <1>5
  <2> QED
    BY <1>2, <2>1
<1> QED
  BY <1>1, <1>4, <1>5

-----------------------------------------------------------------------------
(* Types.                                                                  *)

\* A request that is served has its number.
TypeInv ==
    /\ TypeOK
    /\ \A h \in Handlers : ~At(h, "idle") => req[h].no \in Numbers

\* A line that AddMessage may store.
LEMMA LineTyped ==
    ASSUME NEW from \in {"user", "ai", "post"}, NEW n \in Numbers
    PROVE  [from |-> from, no |-> n] \in Lines
  BY DEF Lines

\* AddMessage keeps the shape of the conversation.
LEMMA AppendTyped ==
    ASSUME TypeInv, NEW h \in Handlers, ~At(h, "idle"),
           NEW from \in {"user", "ai", "post"}, AppendLine(h, from)
    PROVE  messages' \in Seq(Lines)
<1>1. [from |-> from, no |-> req[h].no] \in Lines
  BY LineTyped DEF TypeInv
<1>2. messages \in Seq(Lines)
  BY DEF TypeInv, TypeOK
<1> QED
  BY <1>1, <1>2 DEF AppendLine

\* A request that does not start over keeps its number.
LEMMA GotoTyped ==
    ASSUME TypeInv, NEW h \in Handlers, ~At(h, "idle"),
           NEW step \in {"prompt", "broadcast", "reply"}, Goto(h, step)
    PROVE  /\ req' \in [Handlers -> Requests]
           /\ \A g \in Handlers : ~At(g, "idle")' => req'[g].no \in Numbers
<1>1. req \in [Handlers -> Requests]
  BY DEF TypeInv, TypeOK
<1>2. [req[h] EXCEPT !.pc = step] \in Requests
  BY <1>1 DEF Requests
<1>3. req' = [req EXCEPT ![h] = [req[h] EXCEPT !.pc = step]]
  BY DEF Goto
<1>4. req' \in [Handlers -> Requests]
  BY <1>1, <1>2, <1>3
<1>5. req'[h].no = req[h].no
  BY <1>1, <1>3 DEF Requests
<1>6. \A g \in Handlers : g # h => req'[g] = req[g]
  BY <1>1, <1>3
<1> QED
  BY <1>4, <1>5, <1>6 DEF TypeInv, At

\* Idle is a request.
LEMMA IdleTyped == Idle \in Requests
<1>1. <<>> \in BoundedSeq(Lines, HistoryLimit)
  <2>1. 0 \in 0..HistoryLimit
    BY BoundsAssumption
  <2>2. <<>> \in [1..0 -> Lines]
    OBVIOUS
  <2> QED
    BY <2>1, <2>2 DEF BoundedSeq, SeqOf
<1> QED
  BY <1>1 DEF Idle, Requests

\* A request that ends leaves its goroutine idle.
LEMMA FinishTyped ==
    ASSUME TypeInv, NEW h \in Handlers, Finish(h)
    PROVE  /\ req' \in [Handlers -> Requests]
           /\ \A g \in Handlers : ~At(g, "idle")' => req'[g].no \in Numbers
<1>1. req \in [Handlers -> Requests]
  BY DEF TypeInv, TypeOK
<1>2. req' \in [Handlers -> Requests] /\ req'[h] = Idle
  BY <1>1, IdleTyped DEF Finish
<1>3. \A g \in Handlers : g # h => req'[g] = req[g]
  BY <1>1 DEF Finish
<1> QED
  BY <1>2, <1>3 DEF TypeInv, At, Idle

\* A question that got its answer keeps its number only.
LEMMA AnswerTyped ==
    ASSUME TypeInv, NEW h \in Handlers, ModelAnswers(h)
    PROVE  /\ req' \in [Handlers -> Requests]
           /\ \A g \in Handlers : ~At(g, "idle")' => req'[g].no \in Numbers
           /\ req'[h].pc = "answer" /\ req'[h].known = {}
           /\ \A g \in Handlers : g # h => req'[g] = req[g]
<1> DEFINE r == [Idle EXCEPT !.pc = "answer", !.no = req[h].no]
<1>1. req \in [Handlers -> Requests] /\ req[h].no \in Numbers
  BY DEF TypeInv, TypeOK, ModelAnswers, At
<1>2. r \in Requests /\ r.pc = "answer" /\ r.known = {} /\ r.no = req[h].no
  BY <1>1, IdleTyped DEF Requests, Idle
<1>3. req' = [req EXCEPT ![h] = r]
  BY DEF ModelAnswers
<1> HIDE DEF r
<1>4. req' \in [Handlers -> Requests] /\ req'[h] = r /\ \A g \in Handlers : g # h => req'[g] = req[g]
  BY <1>1, <1>2, <1>3
<1> QED
  BY <1>1, <1>2, <1>4 DEF TypeInv, At

\* A request that starts has the next number.
LEMMA StartTyped ==
    ASSUME TypeInv, NEW h \in Handlers, NEW r, asked < MaxRequests,
           r.no = asked + 1, r \in Requests,
           asked' = asked + 1, req' = [req EXCEPT ![h] = r]
    PROVE  /\ req' \in [Handlers -> Requests]
           /\ \A g \in Handlers : ~At(g, "idle")' => req'[g].no \in Numbers
           /\ asked' \in 0..MaxRequests
<1>1. req \in [Handlers -> Requests]
  BY DEF TypeInv, TypeOK
<1>2. asked' \in 0..MaxRequests /\ asked + 1 \in Numbers
  BY BoundsAssumption DEF TypeInv, TypeOK, Numbers
<1>3. req' \in [Handlers -> Requests] /\ req'[h] = r
  BY <1>1
<1>4. \A g \in Handlers : g # h => req'[g] = req[g]
  BY <1>1
<1> QED
  BY <1>2, <1>3, <1>4 DEF TypeInv, At

\* So does an insert that returns an error, done or not.
LEMMA FailTyped ==
    ASSUME TypeInv, NEW h \in Handlers, ~At(h, "idle"),
           NEW from \in {"user", "ai", "post"}, AddMessageFails(h, from)
    PROVE  messages' \in Seq(Lines)
  BY AppendTyped DEF AddMessageFails, TypeInv, TypeOK

\* Every step keeps the types.
LEMMA StepTyped == TypeInv /\ [Next]_vars => TypeInv'
<1> SUFFICES ASSUME TypeInv, [Next]_vars
             PROVE  TypeInv'
  OBVIOUS
<1> USE DEF vars, history
<1>0. /\ req \in [Handlers -> Requests] /\ messages \in Seq(Lines) /\ store \in Stores
      /\ asked \in 0..MaxRequests /\ restarts \in 0..MaxRestarts
      /\ told \subseteq Numbers /\ acked \subseteq Numbers
      /\ dropped \subseteq Numbers /\ failed \subseteq Numbers
  BY DEF TypeInv, TypeOK
<1>1. ASSUME NEW h \in Handlers, Ask(h)
      PROVE  TypeInv'
  <2> DEFINE r == [Idle EXCEPT !.pc = "question", !.no = asked + 1,
                               !.known = {n \in acked : Stored("ai", n)}]
  <2>1. r \in Requests /\ r.no = asked + 1
    <3>1. asked + 1 \in Numbers
      BY <1>0, <1>1, BoundsAssumption DEF Ask, Numbers
    <3>2. {n \in acked : Stored("ai", n)} \in SUBSET Numbers
      BY <1>0
    <3> QED
      BY <3>1, <3>2, IdleTyped DEF Requests, Idle
  <2>2. asked < MaxRequests /\ asked' = asked + 1 /\ req' = [req EXCEPT ![h] = r]
    BY <1>1 DEF Ask
  <2> HIDE DEF r
  <2> QED
    BY <1>0, <1>1, <2>1, <2>2, StartTyped DEF Ask, TypeInv, TypeOK
<1>2. ASSUME NEW h \in Handlers, Post(h)
      PROVE  TypeInv'
  <2> DEFINE r == [Idle EXCEPT !.pc = "post", !.no = asked + 1]
  <2>1. r \in Requests /\ r.no = asked + 1
    <3>1. asked + 1 \in Numbers
      BY <1>0, <1>2, BoundsAssumption DEF Post, Numbers
    <3> QED
      BY <3>1, IdleTyped DEF Requests, Idle
  <2>2. asked < MaxRequests /\ asked' = asked + 1 /\ req' = [req EXCEPT ![h] = r]
    BY <1>2 DEF Post
  <2> HIDE DEF r
  <2> QED
    BY <1>0, <1>2, <2>1, <2>2, StartTyped DEF Post, TypeInv, TypeOK
<1>3. ASSUME NEW h \in Handlers, AddQuestion(h)
      PROVE  TypeInv'
  <2>1. ~At(h, "idle") /\ Goto(h, "prompt")
    BY <1>3 DEF AddQuestion, At
  <2>2. messages' \in Seq(Lines)
    BY <1>3, <2>1, AppendTyped, FailTyped DEF AddQuestion
  <2> QED
    BY <1>0, <1>3, <2>1, <2>2, GotoTyped DEF AddQuestion, TypeInv, TypeOK
<1>4. ASSUME NEW h \in Handlers, WritePrompt(h)
      PROVE  TypeInv'
  <2>1. Conversation(messages) \in BoundedSeq(Lines, HistoryLimit)
    BY <1>0, ConversationTyped
  <2>2. PICK r \in {[req[h] EXCEPT !.pc = "model", !.prompt = Conversation(messages)],
                    [req[h] EXCEPT !.pc = "model", !.blind = TRUE]} :
           req' = [req EXCEPT ![h] = r]
    BY <1>0, <1>4 DEF WritePrompt
  <2>3. r \in Requests /\ r.no = req[h].no
    BY <1>0, <2>1, <2>2 DEF Requests
  <2>4. req' \in [Handlers -> Requests] /\ req'[h] = r
    BY <1>0, <2>2, <2>3
  <2>5. \A g \in Handlers : g # h => req'[g] = req[g]
    BY <1>0, <2>2
  <2>6. ~At(h, "idle")
    BY <1>4 DEF WritePrompt, At
  <2>7. \A g \in Handlers : ~At(g, "idle")' => req'[g].no \in Numbers
    BY <2>3, <2>4, <2>5, <2>6 DEF TypeInv, At
  <2> QED
    BY <1>0, <1>4, <2>4, <2>7 DEF WritePrompt, TypeInv, TypeOK
<1>5. ASSUME NEW h \in Handlers, ModelAnswers(h)
      PROVE  TypeInv'
  BY <1>0, <1>5, AnswerTyped DEF ModelAnswers, TypeInv, TypeOK
<1>6. ASSUME NEW h \in Handlers, ModelFails(h)
      PROVE  TypeInv'
  <2>1. ~At(h, "idle") /\ Finish(h)
    BY <1>6 DEF ModelFails, At
  <2>2. failed' \subseteq Numbers
    BY <1>0, <1>6, <2>1 DEF ModelFails, TypeInv
  <2> QED
    BY <1>0, <1>6, <2>1, <2>2, FinishTyped DEF ModelFails, TypeInv, TypeOK
<1>7. ASSUME NEW h \in Handlers, AddAnswer(h)
      PROVE  TypeInv'
  <2>1. ~At(h, "idle") /\ Goto(h, "broadcast")
    BY <1>7 DEF AddAnswer, At
  <2>2. messages' \in Seq(Lines)
    BY <1>7, <2>1, AppendTyped, FailTyped DEF AddAnswer
  <2>3. dropped' \subseteq Numbers
    BY <1>0, <1>7, <2>1 DEF AddAnswer, TypeInv
  <2> QED
    BY <1>0, <1>7, <2>1, <2>2, <2>3, GotoTyped DEF AddAnswer, TypeInv, TypeOK
<1>8. ASSUME NEW h \in Handlers, AddPost(h)
      PROVE  TypeInv'
  <2>1. ~At(h, "idle")
    BY <1>8 DEF AddPost, At
  <2>2. messages' \in Seq(Lines)
    BY <1>8, <2>1, AppendTyped, FailTyped DEF AddPost
  <2>4. failed' \subseteq Numbers
    BY <1>0, <1>8, <2>1 DEF AddPost, TypeInv
  <2>3. Goto(h, "broadcast") \/ Finish(h)
    BY <1>8 DEF AddPost
  <2> QED
    BY <1>0, <1>8, <2>1, <2>2, <2>3, <2>4, GotoTyped, FinishTyped DEF AddPost, TypeInv, TypeOK
<1>9. ASSUME NEW h \in Handlers, Broadcast(h)
      PROVE  TypeInv'
  <2>1. ~At(h, "idle") /\ Goto(h, "reply")
    BY <1>9 DEF Broadcast, At
  <2>2. told' \subseteq Numbers
    BY <1>0, <1>9, <2>1 DEF Broadcast, TypeInv
  <2> QED
    BY <1>0, <1>9, <2>1, <2>2, GotoTyped DEF Broadcast, TypeInv, TypeOK
<1>10. ASSUME NEW h \in Handlers, Reply(h)
       PROVE  TypeInv'
  <2>1. ~At(h, "idle") /\ Finish(h)
    BY <1>10 DEF Reply, At
  <2>2. acked' \subseteq Numbers
    BY <1>0, <1>10, <2>1 DEF Reply, TypeInv
  <2> QED
    BY <1>0, <1>10, <2>1, <2>2, FinishTyped DEF Reply, TypeInv, TypeOK
<1>11. CASE Restart
  <2>1. req' = [h \in Handlers |-> Idle]
    BY <1>11 DEF Restart
  <2>2. req' \in [Handlers -> Requests] /\ \A h \in Handlers : At(h, "idle")'
    BY <2>1, IdleTyped DEF At, Idle
  <2>3. failed' \subseteq Numbers
    BY <1>0, <1>11 DEF Restart, TypeInv
  <2>4. messages' \in Seq(Lines) /\ told' \subseteq Numbers /\ acked' \subseteq Numbers
    <3>1. <<>> \in Seq(Lines)
      OBVIOUS
    <3>2. CASE store = "memory"
      BY <1>11, <3>1, <3>2 DEF Restart
    <3>3. CASE store # "memory"
      BY <1>0, <1>11, <3>3 DEF Restart
    <3> QED
      BY <3>2, <3>3
  <2>5. restarts' \in 0..MaxRestarts
    BY <1>0, <1>11, BoundsAssumption DEF Restart
  <2> QED
    BY <1>0, <1>11, <2>2, <2>3, <2>4, <2>5 DEF Restart, TypeInv, TypeOK
<1>12. CASE UNCHANGED vars
  BY <1>12 DEF TypeInv, TypeOK, At
<1> QED
  BY <1>1, <1>2, <1>3, <1>4, <1>5, <1>6, <1>7, <1>8, <1>9, <1>10, <1>11, <1>12
  DEF Next, Serve

\* Every variable keeps the shape the code gives it.
THEOREM Typing == Spec => []TypeInv
<1>1. Init => TypeInv
  <2> SUFFICES ASSUME Init PROVE TypeInv
    OBVIOUS
  <2>1. messages \in Seq(Lines)
    BY DEF Init
  <2>2. req \in [Handlers -> Requests] /\ \A h \in Handlers : At(h, "idle")
    BY IdleTyped DEF Init, At, Idle
  <2>3. 0 \in 0..MaxRequests /\ 0 \in 0..MaxRestarts
    BY BoundsAssumption
  <2> QED
    BY <2>1, <2>2, <2>3 DEF Init, TypeInv, TypeOK
<1> QED
  BY <1>1, StepTyped, PTL DEF Spec

-----------------------------------------------------------------------------
(* What a step of a request leaves.                                        *)

\* The conversation has at most a line more, and the history only grows.
Grows ==
    /\ \/ messages' = messages
       \/ \E l \in Lines : messages' = Append(messages, l)
    /\ told \subseteq told' /\ dropped \subseteq dropped'

\* AddMessage stores one line.
LEMMA AppendGrows ==
    ASSUME TypeInv, NEW h \in Handlers, ~At(h, "idle"),
           NEW from \in {"user", "ai", "post"}, AppendLine(h, from)
    PROVE  \E l \in Lines : messages' = Append(messages, l)
<1>1. [from |-> from, no |-> req[h].no] \in Lines
  BY LineTyped DEF TypeInv
<1> QED
  BY <1>1 DEF AppendLine

\* No step of a request takes a line or a part of the history back.
LEMMA RequestGrows ==
    ASSUME TypeInv, NEW h \in Handlers, Ask(h) \/ Post(h) \/ Serve(h)
    PROVE  Grows
<1> USE DEF history
<1>1. CASE Ask(h) \/ Post(h)
  BY <1>1 DEF Ask, Post, Grows
<1>2. CASE WritePrompt(h) \/ ModelAnswers(h)
  BY <1>2 DEF WritePrompt, ModelAnswers, Grows
<1>3. CASE ModelFails(h) \/ Broadcast(h) \/ Reply(h)
  BY <1>3 DEF ModelFails, Broadcast, Reply, Grows
<1>4. CASE AddQuestion(h)
  <2>1. ~At(h, "idle")
    BY <1>4 DEF AddQuestion, At
  <2>2. messages' = messages \/ AppendLine(h, "user")
    BY <1>4 DEF AddQuestion, AddMessageFails
  <2> QED
    BY <1>4, <2>1, <2>2, AppendGrows DEF AddQuestion, Grows
<1>5. CASE AddAnswer(h)
  <2>1. ~At(h, "idle")
    BY <1>5 DEF AddAnswer, At
  <2>2. messages' = messages \/ AppendLine(h, "ai")
    BY <1>5 DEF AddAnswer, AddMessageFails
  <2> QED
    BY <1>5, <2>1, <2>2, AppendGrows DEF AddAnswer, Grows
<1>6. CASE AddPost(h)
  <2>1. ~At(h, "idle")
    BY <1>6 DEF AddPost, At
  <2>2. messages' = messages \/ AppendLine(h, "post")
    BY <1>6 DEF AddPost, AddMessageFails
  <2> QED
    BY <1>6, <2>1, <2>2, AppendGrows DEF AddPost, Grows
<1> QED
  BY <1>1, <1>2, <1>3, <1>4, <1>5, <1>6 DEF Serve

\* A line is in the conversation it was appended to, with those before it.
LEMMA ToSetMore ==
    ASSUME NEW ls \in Seq(Lines), NEW l \in Lines
    PROVE  ToSet(Append(ls, l)) = ToSet(ls) \cup {l}
<1> DEFINE n == Len(ls)
           ks == Append(ls, l)
<1>1. /\ n \in Nat /\ DOMAIN ls = 1..n /\ DOMAIN ks = 1..(n + 1)
      /\ \A i \in 1..n : ks[i] = ls[i]
      /\ ks[n + 1] = l
  OBVIOUS
<1>2. \A i : i \in 1..(n + 1) <=> i \in 1..n \/ i = n + 1
  BY <1>1
<1> HIDE DEF n, ks
<1>3. ToSet(ks) = {ks[i] : i \in 1..(n + 1)} /\ ToSet(ls) = {ls[i] : i \in 1..n}
  BY <1>1 DEF ToSet
<1>4. \A x : x \in ToSet(ks) <=> x \in ToSet(ls) \/ x = l
  BY <1>1, <1>2, <1>3
<1> QED
  BY <1>4 DEF ks

\* What is stored stays, and as many lines as before are behind any line.
LEMMA GrowsKeeps ==
    ASSUME TypeInv, Grows
    PROVE  /\ ToSet(messages) \subseteq ToSet(messages')
           /\ \A a : /\ Cardinality(Behind(messages, a)) \in Nat
                     /\ Cardinality(Behind(messages', a)) \in Nat
                     /\ Cardinality(Behind(messages', a)) >= Cardinality(Behind(messages, a))
<1>1. messages \in Seq(Lines)
  BY DEF TypeInv, TypeOK
<1>2. CASE messages' = messages
  <2>1. \A a : Cardinality(Behind(messages, a)) \in Nat
    BY <1>1, BehindFinite
  <2> QED
    BY <1>2, <2>1
<1>3. ASSUME NEW l \in Lines, messages' = Append(messages, l)
      PROVE  /\ ToSet(messages) \subseteq ToSet(messages')
             /\ \A a : /\ Cardinality(Behind(messages, a)) \in Nat
                       /\ Cardinality(Behind(messages', a)) \in Nat
                       /\ Cardinality(Behind(messages', a)) >= Cardinality(Behind(messages, a))
  <2>1. ToSet(messages) \subseteq ToSet(messages')
    BY <1>1, <1>3, ToSetMore
  <2>2. messages' \in Seq(Lines)
    BY <1>1, <1>3
  <2>3. ASSUME NEW a
        PROVE  /\ Cardinality(Behind(messages, a)) \in Nat
               /\ Cardinality(Behind(messages', a)) \in Nat
               /\ Cardinality(Behind(messages', a)) >= Cardinality(Behind(messages, a))
    <3>1. Behind(messages, a) \subseteq Behind(messages', a)
      BY <1>1, <1>3, BehindMore
    <3>2. /\ IsFiniteSet(Behind(messages', a)) /\ Cardinality(Behind(messages', a)) \in Nat
          /\ Cardinality(Behind(messages, a)) \in Nat
      BY <1>1, <2>2, BehindFinite
    <3>3. Cardinality(Behind(messages, a)) <= Cardinality(Behind(messages', a))
      BY <3>1, <3>2, FS_Subset
    <3> QED
      BY <3>2, <3>3
  <2> QED
    BY <2>1, <2>3
<1> QED
  BY <1>2, <1>3 DEF Grows

-----------------------------------------------------------------------------
(* What a client is told is known to the room and stored.                  *)

\* The result of a request is stored, or it is an answer whose insert failed.
Kept(n) == Stored("post", n) \/ Stored("ai", n) \/ n \in dropped

\* AckedIsToldAndStored, and what it takes in the steps before: a request is
\* broadcast after its insert, and answered after its broadcast.
AckInv ==
    /\ acked \subseteq told
    /\ \A n \in told : Kept(n)
    /\ \A h \in Handlers : At(h, "broadcast") => Kept(req[h].no)
    /\ \A h \in Handlers : At(h, "reply") => req[h].no \in told

\* What was kept is.
LEMMA KeptStays ==
    ASSUME TypeInv, Grows, NEW n, Kept(n)
    PROVE  Kept(n)'
<1>1. ToSet(messages) \subseteq ToSet(messages') /\ dropped \subseteq dropped'
  BY GrowsKeeps DEF Grows
<1> QED
  BY <1>1 DEF Kept, Stored

\* A line that was appended is kept.
LEMMA AppendKeeps ==
    ASSUME TypeInv, NEW h \in Handlers, ~At(h, "idle"),
           NEW from \in {"ai", "post"}, AppendLine(h, from), NEW n, n = req[h].no
    PROVE  Kept(n)'
<1> DEFINE l == [from |-> from, no |-> n]
<1>1. l \in Lines /\ messages \in Seq(Lines) /\ messages' = Append(messages, l)
  BY LineTyped DEF TypeInv, TypeOK, AppendLine
<1> HIDE DEF l
<1>2. l \in ToSet(messages')
  BY <1>1, ToSetMore
<1> QED
  BY <1>2 DEF Kept, Stored, l

\* A step that leaves the answers and a goroutine alone keeps its part.
LEMMA OthersAck ==
    ASSUME TypeInv, AckInv, Grows, NEW h \in Handlers, req'[h] = req[h]
    PROVE  /\ At(h, "broadcast")' => Kept(req[h].no)'
           /\ At(h, "reply")' => req'[h].no \in told'
<1> DEFINE n == req[h].no
<1>1. Kept(n) => (\A m : m = n => Kept(m)')
  BY KeptStays
<1>2. Kept(n) => Kept(req[h].no)'
  BY <1>1 DEF Kept, Stored
<1> QED
  BY <1>2 DEF AckInv, Grows, At

\* A request at a step keeps its number on the way to the next one.
LEMMA GotoStep ==
    ASSUME TypeInv, NEW h \in Handlers, NEW step, Goto(h, step)
    PROVE  /\ req'[h].pc = step /\ req'[h].no = req[h].no /\ req'[h].known = req[h].known
           /\ req'[h].prompt = req[h].prompt /\ req'[h].blind = req[h].blind
           /\ \A g \in Handlers : g # h => req'[g] = req[g]
<1>1. req \in [Handlers -> Requests]
  BY DEF TypeInv, TypeOK
<1>2. req' = [req EXCEPT ![h] = [req[h] EXCEPT !.pc = step]]
  BY DEF Goto
<1>3. req'[h] = [req[h] EXCEPT !.pc = step] /\ req[h] \in Requests
  BY <1>1, <1>2
<1>4. \A g \in Handlers : g # h => req'[g] = req[g]
  BY <1>1, <1>2
<1> QED
  BY <1>3, <1>4 DEF Requests

\* One that ends is idle, and leaves the others alone.
LEMMA FinishStep ==
    ASSUME TypeInv, NEW h \in Handlers, Finish(h)
    PROVE  /\ req'[h].pc = "idle" /\ req'[h].known = {}
           /\ \A g \in Handlers : g # h => req'[g] = req[g]
<1>1. req \in [Handlers -> Requests]
  BY DEF TypeInv, TypeOK
<1> QED
  BY <1>1 DEF Finish, Idle

\* One that starts has the numbers the room has shown to be answered.
LEMMA StartStep ==
    ASSUME TypeInv, NEW h \in Handlers, Ask(h) \/ Post(h)
    PROVE  /\ \/ req'[h].pc = "question" /\ req'[h].known = {n \in acked : Stored("ai", n)}
              \/ req'[h].pc = "post" /\ req'[h].known = {}
           /\ \A g \in Handlers : g # h => req'[g] = req[g]
           /\ told' = told /\ acked' = acked /\ messages' = messages
<1>1. req \in [Handlers -> Requests]
  BY DEF TypeInv, TypeOK
<1>2. CASE Ask(h)
  <2>1. req'[h] = [Idle EXCEPT !.pc = "question", !.no = asked + 1,
                               !.known = {n \in acked : Stored("ai", n)}]
    BY <1>1, <1>2 DEF Ask
  <2>2. req'[h].pc = "question" /\ req'[h].known = {n \in acked : Stored("ai", n)}
    BY <2>1 DEF Idle
  <2> QED
    BY <1>1, <1>2, <2>2 DEF Ask, history
<1>3. CASE Post(h)
  <2>1. req'[h] = [Idle EXCEPT !.pc = "post", !.no = asked + 1]
    BY <1>1, <1>3 DEF Post
  <2>2. req'[h].pc = "post" /\ req'[h].known = {}
    BY <2>1 DEF Idle
  <2> QED
    BY <1>1, <1>3, <2>2 DEF Post, history
<1> QED
  BY <1>2, <1>3

\* The prompt is written from what is stored, or without it.
LEMMA PromptStep ==
    ASSUME TypeInv, NEW h \in Handlers, WritePrompt(h)
    PROVE  /\ req'[h].pc = "model" /\ req'[h].known = req[h].known
           /\ req'[h].prompt = Conversation(messages) \/ req'[h].blind
           /\ \A g \in Handlers : g # h => req'[g] = req[g]
           /\ told' = told /\ acked' = acked /\ messages' = messages
<1>1. req \in [Handlers -> Requests]
  BY DEF TypeInv, TypeOK
<1>2. PICK r \in {[req[h] EXCEPT !.pc = "model", !.prompt = Conversation(messages)],
                  [req[h] EXCEPT !.pc = "model", !.blind = TRUE]} :
         req' = [req EXCEPT ![h] = r]
  BY <1>1 DEF WritePrompt
<1>3. req'[h] = r /\ req[h] \in Requests
  BY <1>1, <1>2
<1>4. req'[h].pc = "model" /\ req'[h].known = req[h].known
  BY <1>2, <1>3 DEF Requests
<1>5. req'[h].prompt = Conversation(messages) \/ req'[h].blind
  <2>1. CASE r = [req[h] EXCEPT !.pc = "model", !.prompt = Conversation(messages)]
    BY <1>3, <2>1 DEF Requests
  <2>2. CASE r = [req[h] EXCEPT !.pc = "model", !.blind = TRUE]
    BY <1>3, <2>2 DEF Requests
  <2> QED
    BY <1>2, <2>1, <2>2
<1>6. \A g \in Handlers : g # h => req'[g] = req[g]
  BY <1>1, <1>2
<1> QED
  BY <1>4, <1>5, <1>6 DEF WritePrompt, history

\* The part of AckInv about one goroutine.
AckOf(g) ==
    /\ At(g, "broadcast") => Kept(req[g].no)
    /\ At(g, "reply") => req[g].no \in told

\* What the room had been told stays stored.
LEMMA ToldStays ==
    ASSUME TypeInv, AckInv, Grows
    PROVE  \A n \in told : Kept(n)'
<1> SUFFICES ASSUME NEW n \in told
             PROVE  Kept(n)'
  OBVIOUS
<1>1. Kept(n)
  BY DEF AckInv
<1> QED
  BY <1>1, KeptStays

\* A step of one goroutine that neither tells the room nor answers.
LEMMA OneAck ==
    ASSUME TypeInv, AckInv, Grows, told' = told, acked' = acked,
           NEW h \in Handlers, AckOf(h)',
           \A g \in Handlers : g # h => req'[g] = req[g]
    PROVE  AckInv'
<1>1. \A g \in Handlers : g # h => AckOf(g)'
  BY OthersAck DEF AckOf
<1> QED
  BY <1>1, ToldStays DEF AckInv, AckOf

\* Every step keeps it.
LEMMA StepAck == TypeInv /\ AckInv /\ [Next]_vars => AckInv'
<1> SUFFICES ASSUME TypeInv, AckInv, [Next]_vars
             PROVE  AckInv'
  OBVIOUS
<1>1. ASSUME NEW h \in Handlers, Ask(h) \/ Post(h)
      PROVE  AckInv'
  <2>1. Grows
    BY <1>1, RequestGrows
  <2>2. AckOf(h)' /\ told' = told /\ acked' = acked /\ \A g \in Handlers : g # h => req'[g] = req[g]
    BY <1>1, StartStep DEF AckOf, At
  <2> QED
    BY <2>1, <2>2, OneAck
<1>2. ASSUME NEW h \in Handlers, WritePrompt(h)
      PROVE  AckInv'
  <2>1. Grows
    BY <1>2, RequestGrows DEF Serve
  <2>2. AckOf(h)' /\ told' = told /\ acked' = acked /\ \A g \in Handlers : g # h => req'[g] = req[g]
    BY <1>2, PromptStep DEF AckOf, At
  <2> QED
    BY <2>1, <2>2, OneAck
<1>3. ASSUME NEW h \in Handlers, AddQuestion(h) \/ ModelAnswers(h)
      PROVE  AckInv'
  <2>1. Grows
    BY <1>3, RequestGrows DEF Serve
  <2>2. ModelAnswers(h) \/ Goto(h, "prompt")
    BY <1>3 DEF AddQuestion
  <2>3. AckOf(h)' /\ \A g \in Handlers : g # h => req'[g] = req[g]
    BY <2>2, GotoStep, AnswerTyped DEF AckOf, At
  <2>4. told' = told /\ acked' = acked
    BY <1>3 DEF AddQuestion, ModelAnswers, history
  <2> QED
    BY <2>1, <2>3, <2>4, OneAck
<1>4. ASSUME NEW h \in Handlers, ModelFails(h)
      PROVE  AckInv'
  <2>1. Grows
    BY <1>4, RequestGrows DEF Serve
  <2>2. Finish(h) /\ told' = told /\ acked' = acked
    BY <1>4 DEF ModelFails
  <2>3. AckOf(h)' /\ \A g \in Handlers : g # h => req'[g] = req[g]
    BY <2>2, FinishStep DEF AckOf, At
  <2> QED
    BY <2>1, <2>2, <2>3, OneAck
<1>5. ASSUME NEW h \in Handlers, AddAnswer(h) \/ AddPost(h)
      PROVE  AckInv'
  <2>1. Grows
    BY <1>5, RequestGrows DEF Serve
  <2>2. told' = told /\ acked' = acked /\ ~At(h, "idle")
    BY <1>5 DEF AddAnswer, AddPost, At
  <2>3. CASE Goto(h, "broadcast")
    <3>1. /\ req'[h].pc = "broadcast" /\ req'[h].no = req[h].no
          /\ \A g \in Handlers : g # h => req'[g] = req[g]
      BY <2>3, GotoStep
    <3>2. Kept(req[h].no)'
      <4>1. CASE \E from \in {"ai", "post"} : AppendLine(h, from)
        <5>1. \A n : n = req[h].no => Kept(n)'
          BY <2>2, <4>1, AppendKeeps
        <5> QED
          BY <3>1, <5>1 DEF Kept, Stored
      <4>2. CASE dropped' = dropped \cup {req[h].no}
        BY <3>1, <4>2 DEF Kept
      <4>3. \/ \E from \in {"ai", "post"} : AppendLine(h, from)
            \/ dropped' = dropped \cup {req[h].no}
            \/ Finish(h)
        BY <1>5 DEF AddAnswer, AddPost
      <4>4. CASE Finish(h)
        BY <3>1, <4>4, FinishStep
      <4> QED
        BY <4>1, <4>2, <4>3, <4>4
    <3>3. AckOf(h)'
      BY <3>1, <3>2 DEF AckOf, At
    <3> QED
      BY <2>1, <2>2, <3>1, <3>3, OneAck
  <2>4. CASE Finish(h)
    <3>1. AckOf(h)' /\ \A g \in Handlers : g # h => req'[g] = req[g]
      BY <2>4, FinishStep DEF AckOf, At
    <3> QED
      BY <2>1, <2>2, <3>1, OneAck
  <2> QED
    BY <1>5, <2>3, <2>4 DEF AddAnswer, AddPost
<1>6. ASSUME NEW h \in Handlers, Broadcast(h)
      PROVE  AckInv'
  <2>1. Grows
    BY <1>6, RequestGrows DEF Serve
  <2>2. /\ At(h, "broadcast") /\ Goto(h, "reply")
        /\ told' = told \cup {req[h].no} /\ acked' = acked
    BY <1>6 DEF Broadcast
  <2>3. /\ req'[h].pc = "reply" /\ req'[h].no = req[h].no
        /\ \A g \in Handlers : g # h => req'[g] = req[g]
    BY <2>2, GotoStep
  <2>4. \A n \in told' : Kept(n)'
    <3>1. \A n : n = req[h].no => Kept(n)'
      BY <2>1, <2>2, KeptStays DEF AckInv
    <3>2. \A n \in told : Kept(n)'
      BY <2>1, ToldStays
    <3> QED
      BY <2>2, <3>1, <3>2
  <2>5. AckOf(h)'
    BY <2>2, <2>3 DEF AckOf, At
  <2>6. \A g \in Handlers : g # h => AckOf(g)'
    BY <2>1, <2>3, OthersAck DEF AckOf
  <2> QED
    BY <2>2, <2>4, <2>5, <2>6 DEF AckInv, AckOf
<1>7. ASSUME NEW h \in Handlers, Reply(h)
      PROVE  AckInv'
  <2>1. Grows
    BY <1>7, RequestGrows DEF Serve
  <2>2. At(h, "reply") /\ told' = told /\ acked' = acked \cup {req[h].no} /\ Finish(h)
    BY <1>7 DEF Reply
  <2>3. AckOf(h)' /\ \A g \in Handlers : g # h => req'[g] = req[g]
    BY <2>2, FinishStep DEF AckOf, At
  <2>4. \A g \in Handlers : g # h => AckOf(g)'
    BY <2>1, <2>3, OthersAck DEF AckOf
  <2>5. acked' \subseteq told' /\ \A n \in told' : Kept(n)'
    BY <2>1, <2>2, ToldStays DEF AckInv
  <2> QED
    BY <2>3, <2>4, <2>5 DEF AckInv, AckOf
<1>8. CASE Restart
  <2>1. \A h \in Handlers : req'[h].pc = "idle"
    BY <1>8 DEF Restart, Idle
  <2>2. \/ told' = {} /\ acked' = {}
        \/ UNCHANGED <<told, acked, messages>>
    BY <1>8 DEF Restart
  <2>3. dropped' = dropped
    BY <1>8 DEF Restart
  <2>4. acked' \subseteq told' /\ \A n \in told' : Kept(n)'
    BY <2>2, <2>3 DEF AckInv, Kept, Stored
  <2> QED
    BY <2>1, <2>4 DEF AckInv, At
<1>9. CASE UNCHANGED vars
  BY <1>9 DEF vars, history, AckInv, Kept, Stored, At
<1> QED
  BY <1>1, <1>2, <1>3, <1>4, <1>5, <1>6, <1>7, <1>8, <1>9 DEF Next, Serve

\* A request answered 200 has been broadcast to the room, and what is broadcast
\* is stored unless it is an answer whose own insert returned an error: for any
\* number of goroutines, and across restarts.
THEOREM Acknowledged == Spec => []AckedIsToldAndStored
<1>1. Init => AckInv
  BY DEF Init, AckInv, At, Idle
<1>2. AckInv => AckedIsToldAndStored
  BY DEF AckInv, AckedIsToldAndStored, Kept
<1> QED
  BY <1>1, <1>2, StepAck, Typing, PTL DEF Spec

-----------------------------------------------------------------------------
(* The model is sent the answers that were given.                          *)

\* What a goroutine that asks knows to be answered is stored when the prompt
\* is written, and in the prompt or far behind when it is sent.
KnowsOf(h) ==
    \A n \in req[h].known :
        LET answer == [from |-> "ai", no |-> n]
        IN  /\ At(h, "question") \/ At(h, "prompt") => answer \in ToSet(messages)
            /\ At(h, "model") /\ ~req[h].blind =>
                  \/ answer \in ToSet(req[h].prompt)
                  \/ Cardinality(Behind(messages, answer)) >= HistoryLimit

\* PromptKnowsAnswers, and what it takes in the steps before.
KnowsInv == \A h \in Handlers : KnowsOf(h)

\* A step that leaves a goroutine alone keeps its part.
LEMMA OthersKnow ==
    ASSUME TypeInv, Grows, NEW h \in Handlers, KnowsOf(h), req'[h] = req[h]
    PROVE  KnowsOf(h)'
<1> SUFFICES ASSUME NEW n \in req[h].known
             PROVE  LET answer == [from |-> "ai", no |-> n]
                    IN  /\ At(h, "question")' \/ At(h, "prompt")' => answer \in ToSet(messages')
                        /\ At(h, "model")' /\ ~req'[h].blind =>
                              \/ answer \in ToSet(req'[h].prompt)
                              \/ Cardinality(Behind(messages', answer)) >= HistoryLimit
  BY DEF KnowsOf
<1> DEFINE a == [from |-> "ai", no |-> n]
<1>1. /\ At(h, "question") \/ At(h, "prompt") => a \in ToSet(messages)
      /\ At(h, "model") /\ ~req[h].blind =>
            \/ a \in ToSet(req[h].prompt)
            \/ Cardinality(Behind(messages, a)) >= HistoryLimit
  BY DEF KnowsOf
<1> HIDE DEF a
<1>2. /\ ToSet(messages) \subseteq ToSet(messages')
      /\ Cardinality(Behind(messages, a)) \in Nat /\ Cardinality(Behind(messages', a)) \in Nat
      /\ Cardinality(Behind(messages', a)) >= Cardinality(Behind(messages, a))
  BY GrowsKeeps
<1>3. HistoryLimit \in Nat
  BY BoundsAssumption
<1>4. Cardinality(Behind(messages, a)) >= HistoryLimit =>
         Cardinality(Behind(messages', a)) >= HistoryLimit
  BY <1>2, <1>3
<1> QED
  BY <1>1, <1>2, <1>4 DEF At, a

\* A step of one goroutine.
LEMMA OneKnows ==
    ASSUME TypeInv, KnowsInv, Grows, NEW h \in Handlers, KnowsOf(h)',
           \A g \in Handlers : g # h => req'[g] = req[g]
    PROVE  KnowsInv'
<1>1. \A g \in Handlers : g # h => KnowsOf(g)'
  BY OthersKnow DEF KnowsInv
<1> QED
  BY <1>1 DEF KnowsInv

\* Every step keeps it.
LEMMA StepKnows == TypeInv /\ KnowsInv /\ [Next]_vars => KnowsInv'
<1> SUFFICES ASSUME TypeInv, KnowsInv, [Next]_vars
             PROVE  KnowsInv'
  OBVIOUS
<1>1. ASSUME NEW h \in Handlers, Ask(h) \/ Post(h)
      PROVE  KnowsInv'
  <2>1. Grows
    BY <1>1, RequestGrows
  <2>2. /\ req'[h].pc # "model" /\ req'[h].known \subseteq {n \in acked : Stored("ai", n)}
        /\ \A g \in Handlers : g # h => req'[g] = req[g]
        /\ messages' = messages
    BY <1>1, StartStep
  <2>3. KnowsOf(h)'
    BY <2>2 DEF KnowsOf, At, Stored
  <2> QED
    BY <2>1, <2>2, <2>3, OneKnows
<1>2. ASSUME NEW h \in Handlers, AddQuestion(h)
      PROVE  KnowsInv'
  <2>1. Grows
    BY <1>2, RequestGrows DEF Serve
  <2>2. At(h, "question") /\ Goto(h, "prompt")
    BY <1>2 DEF AddQuestion
  <2>3. /\ req'[h].pc = "prompt" /\ req'[h].known = req[h].known
        /\ \A g \in Handlers : g # h => req'[g] = req[g]
    BY <2>2, GotoStep
  <2>4. \A n \in req[h].known : [from |-> "ai", no |-> n] \in ToSet(messages)
    BY <2>2 DEF KnowsInv, KnowsOf
  <2>5. ToSet(messages) \subseteq ToSet(messages')
    BY <2>1, GrowsKeeps
  <2>6. KnowsOf(h)'
    BY <2>3, <2>4, <2>5 DEF KnowsOf, At
  <2> QED
    BY <2>1, <2>3, <2>6, OneKnows
<1>3. ASSUME NEW h \in Handlers, WritePrompt(h)
      PROVE  KnowsInv'
  <2>1. Grows
    BY <1>3, RequestGrows DEF Serve
  <2>2. At(h, "prompt")
    BY <1>3 DEF WritePrompt
  <2>3. /\ req'[h].pc = "model" /\ req'[h].known = req[h].known
        /\ req'[h].prompt = Conversation(messages) \/ req'[h].blind
        /\ \A g \in Handlers : g # h => req'[g] = req[g]
        /\ messages' = messages
    BY <1>3, PromptStep
  <2>4. ASSUME NEW n \in req[h].known
        PROVE  \/ [from |-> "ai", no |-> n] \in ToSet(Conversation(messages))
               \/ Cardinality(Behind(messages, [from |-> "ai", no |-> n])) >= HistoryLimit
    <3> DEFINE a == [from |-> "ai", no |-> n]
    <3>1. a \in ToSet(messages) /\ messages \in Seq(Lines)
      BY <2>2 DEF KnowsInv, KnowsOf, TypeInv, TypeOK
    <3>2. n \in Numbers
      <4>1. req[h] \in Requests
        BY DEF TypeInv, TypeOK
      <4> QED
        BY <4>1 DEF Requests
    <3>3. a \in Lines /\ a.from # "post"
      BY <3>2 DEF Lines
    <3> HIDE DEF a
    <3>4. a \in ToSet(Conversation(messages)) \/ Cardinality(Behind(messages, a)) >= HistoryLimit
      BY <3>1, <3>3, ConversationKnows
    <3> QED
      BY <3>4 DEF a
  <2>5. KnowsOf(h)'
    BY <2>3, <2>4 DEF KnowsOf, At
  <2> QED
    BY <2>1, <2>3, <2>5, OneKnows
<1>4. ASSUME NEW h \in Handlers,
             ModelAnswers(h) \/ AddAnswer(h) \/ AddPost(h) \/ Broadcast(h)
             \/ ModelFails(h) \/ Reply(h)
      PROVE  KnowsInv'
  <2>1. Grows
    BY <1>4, RequestGrows DEF Serve
  <2>2. CASE \E step \in {"broadcast", "reply"} : Goto(h, step)
    <3>1. req'[h].pc \in {"broadcast", "reply"}
          /\ \A g \in Handlers : g # h => req'[g] = req[g]
      BY <2>2, GotoStep
    <3>2. KnowsOf(h)'
      BY <3>1 DEF KnowsOf, At
    <3> QED
      BY <2>1, <3>1, <3>2, OneKnows
  <2>3. CASE Finish(h)
    <3>1. req'[h].known = {} /\ \A g \in Handlers : g # h => req'[g] = req[g]
      BY <2>3, FinishStep
    <3>2. KnowsOf(h)'
      BY <3>1 DEF KnowsOf
    <3> QED
      BY <2>1, <3>1, <3>2, OneKnows
  <2>4. CASE ModelAnswers(h)
    <3>1. KnowsOf(h)' /\ \A g \in Handlers : g # h => req'[g] = req[g]
      BY <2>4, AnswerTyped DEF KnowsOf
    <3> QED
      BY <2>1, <3>1, OneKnows
  <2> QED
    BY <1>4, <2>2, <2>3, <2>4
    DEF AddAnswer, AddPost, Broadcast, ModelFails, Reply
<1>5. CASE Restart
  <2>1. \A h \in Handlers : req'[h].known = {}
    BY <1>5 DEF Restart, Idle
  <2> QED
    BY <2>1 DEF KnowsInv, KnowsOf
<1>6. CASE UNCHANGED vars
  BY <1>6 DEF vars, KnowsInv, KnowsOf, At
<1> QED
  BY <1>1, <1>2, <1>3, <1>4, <1>5, <1>6 DEF Next, Serve

\* The model is sent every answer its engineer could have read, unless as
\* many lines as a prompt takes came after it or the conversation could not
\* be read: for any number of engineers asking at once, any limit, and with
\* the limit counted in the lines of the chat, posts left out.
THEOREM Remembered == Spec => []PromptKnowsAnswers
<1>1. Init => KnowsInv
  BY DEF Init, KnowsInv, KnowsOf, Idle
<1>2. KnowsInv => PromptKnowsAnswers
  BY DEF KnowsInv, KnowsOf, PromptKnowsAnswers, Behind
<1> QED
  BY <1>1, <1>2, StepKnows, Typing, PTL DEF Spec
====
