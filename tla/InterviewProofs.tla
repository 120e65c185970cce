-------------------------- MODULE InterviewProofs --------------------------
(***************************************************************************)
(* Proofs that the conversation is what the user typed, and that what is   *)
(* written is whole, for inputs of any length, any number of rounds and    *)
(* any drafts, interrupted anywhere.                                       *)
(***************************************************************************)
EXTENDS Interview, FiniteSetTheorems, SequenceTheorems, WellFoundedInduction, TLAPS

Early == {"open", "read", "answer"}
Late == {"write", "scenarios", "store", "done"}
Places == Early \cup {"final"} \cup Late \cup {"failed"}

Utterances == [role : {"user", "assistant"}, lines : SUBSET Nat]

TypeOK ==
  /\ script \in Scripts /\ scenarios \in BOOLEAN
  /\ pc \in Places /\ flying \in BOOLEAN /\ interruptedAt \in Places \cup {"none"}
  /\ reader \in {"none", "scan", "offer", "closed", "quit"}
  /\ scanned \in 0..Len(script.lines) /\ collected \subseteq Nat /\ prevBlank \in BOOLEAN
  /\ ended \in BOOLEAN /\ round \in 0..MaxRounds
  /\ messages \in Seq(Utterances)
  /\ spec \in BOOLEAN

\* A call on its way was begun before any interrupt; what is late was not interrupted early.
Called ==
  /\ flying => pc \in Calling /\ interruptedAt \in {"none", pc}
  /\ spec \/ pc \in Late => interruptedAt \notin Early

\* The end of the conversation: by the user, the input or the last round.
Concluded ==
  /\ ended => script.end = "eof" \/ scanned >= Last
  /\ pc \in {"open", "read"} => ~ended
  /\ pc \in Early => round < MaxRounds
  /\ spec \/ pc \in Late \cup {"final"} => ended \/ round = MaxRounds

\* What is on disk, by place.
Stored ==
  /\ spec => pc \in (Late \ {"write"}) \cup {"failed"}
  /\ pc \in {"scenarios", "store", "done"} => spec
  /\ pc \in {"scenarios", "store"} => scenarios
  /\ pc = "scenarios" => disk = {}
  /\ pc = "store" => DOMAIN kept # {}
  /\ disk # {} => spec
  /\ disk \subseteq {kept[n] : n \in DOMAIN kept}
  /\ \A n \in DOMAIN kept : kept[n].name = n /\ kept[n].loads /\ n \notin UnsafeNames
  /\ pc = "done" /\ scenarios => disk # {} /\ disk = {kept[n] : n \in DOMAIN kept}

-----------------------------------------------------------------------------
(* The conversation.                                                       *)

\* The lines the loop has received, and the pairs of blank ones among them.
ReadSoFar == IF reader \in {"offer", "quit"} THEN scanned - 1 ELSE scanned
Passed(q) == {p \in SubmitPoints : p <= q}
Count(q) == Cardinality(Passed(q))

\* The lines up to q from the first text of group k on.
Begun(q, k) == {i \in 1..q : \E j \in Texts(k) : j <= i}

\* What is collected of the answer under way.
Reading ==
  /\ pc = "open" => reader = "none"
  /\ pc \in Places \ {"open", "failed"} => reader # "none"
  /\ reader = "none" => scanned = 0
  /\ reader \in {"offer", "quit"} => scanned > 0
  /\ reader = "closed" => scanned = Len(script.lines) /\ script.end # "silent"
  /\ ~ended /\ pc \in Early =>
       LET r == ReadSoFar
       IN  /\ r < Last
           /\ collected = Begun(r, Count(r) + 1)
           /\ prevBlank <=> collected # {} /\ script.lines[r] = "blank"
           /\ collected # {} /\ script.lines[r] = "blank" => r >= 2 /\ script.lines[r - 1] = "text"

\* The messages so far, and how many of them are the user's.
Spoken ==
  /\ \A k \in DOMAIN messages : messages[k].role = IF k % 2 = 1 THEN "user" ELSE "assistant"
  /\ \A k \in Given \ {1} : messages[k].lines = Answer((k - 1) \div 2)
  /\ IsFiniteSet(Given) /\ Cardinality(Given) = (Len(messages) + 1) \div 2

\* How many there are, by place.
Talked ==
  /\ pc = "open" => Len(messages) = 1 /\ round = 0
  /\ pc \in {"read", "final"} \cup Late => Len(messages) = 2 * round + 2
  /\ pc = "answer" => Len(messages) = 2 * round + 3

\* How many of the answers typed have been taken.
Counted ==
  /\ ~ended /\ pc \in Early =>
       /\ Count(ReadSoFar) = IF pc = "answer" THEN round + 1 ELSE round
       /\ \A k \in 1..Count(ReadSoFar) : Texts(k) # {}
  /\ ended /\ pc = "answer" => AnswersTyped = round + 1
  /\ pc \in {"final"} \cup Late =>
       IF ended THEN AnswersTyped = round ELSE AnswersTyped >= MaxRounds

\* The inductive invariant.
IInv == TypeOK /\ Called /\ Concluded /\ Stored /\ Reading /\ Spoken /\ Talked /\ Counted

-----------------------------------------------------------------------------
(* What was typed.                                                         *)

\* A set of naturals has a least one.
LEMMA LeastOf == ASSUME NEW T \in SUBSET Nat, T # {} PROVE \E x \in T : \A y \in T : x <= y
<1> DEFINE upTo(x) == {y \in T : y <= x}
           U == {upTo(x) : x \in T}
           R == StrictSubsetOrdering(Nat)
<1>1. U \subseteq FiniteSubsetsOf(Nat) /\ U # {}
  <2>1. \A x \in T : IsFiniteSet(upTo(x))
    BY FS_BoundedSetOfNaturals
  <2> QED BY <2>1 DEF FiniteSubsetsOf
<1> HIDE DEF U
<1>2. PICK s \in U : \A t \in U : <<t, s>> \notin R
  BY <1>1, FS_StrictSubsetOrderingWellFounded, WFMin
<1>3. PICK x \in T : s = upTo(x)
  BY DEF U
<1>4. ASSUME NEW y \in T, y < x PROVE FALSE
  <2>1. upTo(y) \subseteq upTo(x) /\ x \in upTo(x) /\ x \notin upTo(y)
    <3>1. \A z \in T : z \in Nat /\ (z <= y => z <= x)
      BY <1>4
    <3>2. x <= x /\ ~(x <= y)
      BY <1>4
    <3> QED BY <3>1, <3>2, Zenon
  <2>2. upTo(y) \in U
    BY DEF U
  <2>3. <<upTo(y), upTo(x)>> \in R
    BY <2>1 DEF StrictSubsetOrdering
  <2> QED BY <1>2, <1>3, <2>2, <2>3
<1> QED BY <1>4

LEMMA Typed ==
  ASSUME script \in Scripts
  PROVE  /\ Len(script.lines) \in Nat /\ Positions = 1..Len(script.lines)
         /\ \A i \in Positions : script.lines[i] \in Kinds
         /\ script.end \in Endings
BY InterviewAssumption DEF Positions

\* Last is the first "done", or past the lines.
LEMMA LastFirst ==
  ASSUME script \in Scripts
  PROVE  /\ Last \in 1..(Len(script.lines) + 1)
         /\ \A j \in 1..(Last - 1) : script.lines[j] # "done"
         /\ Last <= Len(script.lines) => script.lines[Last] = "done"
<1> DEFINE n == Len(script.lines)
           Done == {i \in Positions : script.lines[i] = "done"}
           First(i) == script.lines[i] = "done" /\ \A j \in 1..(i - 1) : script.lines[j] # "done"
<1>0. n \in Nat /\ Positions = 1..n
  BY Typed
<1> HIDE DEF n
<1>1. CASE Done = {}
  <2>1. Last = n + 1
    BY <1>1 DEF Last, n
  <2> QED BY <1>0, <1>1, <2>1 DEF n
<1>2. CASE Done # {}
  <2>0. Done \in SUBSET Nat
    BY <1>0
  <2>1. PICK i \in Done : \A j \in Done : i <= j
    BY <2>0, <1>2, LeastOf, Zenon
  <2>2. i \in Positions /\ First(i)
    BY <1>0, <2>1
  <2>3. Last = CHOOSE k \in Positions : First(k)
    BY <1>2 DEF Last
  <2> HIDE DEF First
  <2>4. Last \in Positions /\ First(Last)
    BY <2>2, <2>3
  <2> QED BY <1>0, <2>4 DEF First, n
<1> QED BY <1>1, <1>2

\* A line that is "done" after none is the last.
LEMMA LastIs ==
  ASSUME script \in Scripts, NEW q \in 1..(Len(script.lines) + 1),
         \A j \in 1..(q - 1) : script.lines[j] # "done",
         q <= Len(script.lines) => script.lines[q] = "done"
  PROVE  Last = q
<1>1. Last \in Nat /\ Len(script.lines) \in Nat
  BY Typed, LastFirst
<1>2. ~(Last < q)
  <2>1. ASSUME Last < q PROVE FALSE
    <3>1. Last \in 1..(q - 1) /\ Last <= Len(script.lines)
      BY <1>1, <2>1, LastFirst
    <3> QED BY <3>1, LastFirst
  <2> QED BY <2>1
<1>3. ~(q < Last)
  <2>1. ASSUME q < Last PROVE FALSE
    <3>1. q \in 1..(Last - 1) /\ q <= Len(script.lines)
      BY <1>1, <2>1, LastFirst
    <3> QED BY <3>1, LastFirst
  <2> QED BY <2>1
<1> QED BY <1>1, <1>2, <1>3

\* The pairs of blank lines are finitely many, and counted in order.
LEMMA Counting ==
  ASSUME script \in Scripts
  PROVE  /\ SubmitPoints \subseteq Nat /\ IsFiniteSet(SubmitPoints) /\ Cardinality(SubmitPoints) \in Nat
         /\ \A q : IsFiniteSet(Passed(q)) /\ Count(q) \in Nat /\ Count(q) <= Cardinality(SubmitPoints)
         /\ \A q, r : Passed(q) \subseteq Passed(r) => Count(q) <= Count(r)
<1>1. SubmitPoints \subseteq 3..(Last - 1) /\ Last \in Nat
  BY LastFirst, Typed DEF SubmitPoints
<1>2. IsFiniteSet(3..(Last - 1))
  BY <1>1, FS_Interval
<1>3. IsFiniteSet(SubmitPoints)
  BY <1>1, <1>2, FS_Subset
<1>4. \A q : Passed(q) \subseteq SubmitPoints
  BY DEF Passed
<1>5. \A q : IsFiniteSet(Passed(q)) /\ Count(q) <= Cardinality(SubmitPoints)
  BY <1>3, <1>4, FS_Subset DEF Count
<1>6. \A q, r : Passed(q) \subseteq Passed(r) => Count(q) <= Count(r)
  BY <1>5, FS_Subset DEF Count
<1> QED BY <1>1, <1>3, <1>5, <1>6, FS_CardinalityType DEF Count

LEMMA CountMonotone ==
  ASSUME script \in Scripts, NEW q \in Int, NEW r \in Int, q <= r
  PROVE  Passed(q) \subseteq Passed(r) /\ Count(q) <= Count(r)
<1>1. Passed(q) \subseteq Passed(r)
  BY Counting DEF Passed
<1> QED BY <1>1, Counting

\* One line on.
LEMMA CountOn ==
  ASSUME script \in Scripts, NEW q \in Nat
  PROVE  /\ q + 1 \in SubmitPoints => Count(q + 1) = Count(q) + 1
         /\ q + 1 \notin SubmitPoints => Count(q + 1) = Count(q)
<1>0. SubmitPoints \subseteq Nat /\ IsFiniteSet(Passed(q))
  BY Counting
<1>1. \A p \in SubmitPoints : p <= q + 1 <=> p <= q \/ p = q + 1
  BY <1>0
<1>2. q + 1 \notin Passed(q)
  BY DEF Passed
<1>3. CASE q + 1 \in SubmitPoints
  <2>1. Passed(q + 1) = Passed(q) \cup {q + 1}
    BY <1>1, <1>3, Zenon DEF Passed
  <2> QED BY <1>0, <1>2, <1>3, <2>1, FS_AddElement DEF Count
<1>4. CASE q + 1 \notin SubmitPoints
  <2>1. Passed(q + 1) = Passed(q)
    BY <1>1, <1>4, Zenon DEF Passed
  <2> QED BY <1>4, <2>1 DEF Count
<1> QED BY <1>3, <1>4

\* A text belongs to the group of the pairs before it.
LEMMA TextGroup ==
  ASSUME script \in Scripts
  PROVE  \A k \in Int : Texts(k) =
           {i \in 1..(Last - 1) : script.lines[i] = "text" /\ Count(i - 1) = k - 1}
<1>1. Last \in Nat /\ SubmitPoints \subseteq Nat
  BY LastFirst, Typed, Counting
<1>2. \A i \in 1..(Last - 1) : {p \in SubmitPoints : p < i} = Passed(i - 1)
  <2> SUFFICES ASSUME NEW i \in 1..(Last - 1)
               PROVE  {p \in SubmitPoints : p < i} = Passed(i - 1)
    OBVIOUS
  <2>1. \A p \in SubmitPoints : p < i <=> p <= i - 1
    BY <1>1
  <2> QED BY <2>1, Zenon DEF Passed
<1> QED BY <1>2 DEF Texts, Count

\* What is collected of a group whose texts have all been read is the answer.
LEMMA TrimIsAnswer ==
  ASSUME script \in Scripts, NEW r \in Nat, r < Last, Texts(Count(r) + 1) \subseteq 1..r
  PROVE  /\ Trimmed(Begun(r, Count(r) + 1)) = Answer(Count(r) + 1)
         /\ Answer(Count(r) + 1) = {} <=> Texts(Count(r) + 1) = {}
<1> DEFINE k == Count(r) + 1
           c == Begun(r, k)
           text(j) == script.lines[j] = "text"
<1>1. /\ Last \in Nat /\ k \in Nat /\ 1..r \subseteq Positions /\ Texts(k) \subseteq 1..r
      /\ Positions \subseteq Int
      /\ Texts(k) = {i \in 1..(Last - 1) : text(i) /\ Count(i - 1) = k - 1}
  <2>1. Last \in 1..(Len(script.lines) + 1) /\ Len(script.lines) \in Nat /\ Positions = 1..Len(script.lines)
    BY LastFirst, Typed
  <2>2. Count(r) \in Nat
    BY Counting
  <2> QED BY <2>1, <2>2, TextGroup
<1>2. Count(r) = k - 1
  BY Counting
<1> HIDE DEF k
<1>3. \A j \in c : text(j) => j \in Texts(k)
  <2> SUFFICES ASSUME NEW j \in c, text(j) PROVE j \in Texts(k)
    OBVIOUS
  <2>1. j \in 1..r
    BY DEF Begun
  <2>2. PICK t \in Texts(k) : t <= j
    BY DEF Begun
  <2>3. t \in Nat /\ Count(t - 1) = k - 1
    BY <1>1
  <2>4. Count(t - 1) <= Count(j - 1) /\ Count(j - 1) <= Count(r)
    BY <2>1, <2>2, <2>3, CountMonotone
  <2>5. Count(j - 1) = k - 1
    BY <1>1, <1>2, <2>3, <2>4, Counting
  <2> QED BY <1>1, <2>1, <2>5
<1>4. \A j \in Texts(k) : j \in c /\ text(j) /\ j \in Positions /\ j <= j
  <2>1. \A j \in Texts(k) : j \in 1..r /\ text(j) /\ j <= j
    BY <1>1
  <2> QED BY <1>1, <2>1, Zenon DEF Begun
<1>5. Trimmed(c) = Answer(k)
  <2>1. ASSUME NEW i \in Trimmed(c) PROVE i \in Answer(k)
    <3>1. i \in 1..r /\ (\E j \in Texts(k) : j <= i)
      BY <2>1 DEF Trimmed, Begun
    <3>2. PICK j \in c : j >= i /\ text(j)
      BY <2>1 DEF Trimmed
    <3>3. j \in Texts(k) /\ i <= j
      BY <1>3, <3>2
    <3> QED BY <1>1, <3>1, <3>3, Zenon DEF Answer
  <2>2. ASSUME NEW i \in Answer(k) PROVE i \in Trimmed(c)
    <3>1. i \in Positions /\ (\E j \in Texts(k) : j <= i)
      BY <2>2 DEF Answer
    <3>2. PICK j \in Texts(k) : i <= j
      BY <2>2 DEF Answer
    <3>3. j \in 1..r /\ i \in Int
      BY <1>1, <3>1
    <3>3a. PICK j0 \in Texts(k) : j0 <= i
      BY <3>1
    <3>4. j0 \in 1..r
      BY <1>1
    <3>5. i \in 1..r /\ j >= i
      BY <3>2, <3>3, <3>3a, <3>4
    <3>6. i \in c
      BY <3>1, <3>5, Zenon DEF Begun
    <3> QED BY <1>4, <3>5, <3>6, Zenon DEF Trimmed
  <2> QED BY <2>1, <2>2, Zenon DEF Trimmed, Answer
<1>6. Answer(k) = {} <=> Texts(k) = {}
  <2>1. \A j \in Texts(k) : j \in Answer(k)
    BY <1>4, Zenon DEF Answer
  <2>2. \A i \in Answer(k) : Texts(k) # {}
    BY Zenon DEF Answer
  <2> QED BY <2>1, <2>2
<1> QED BY <1>5, <1>6 DEF k

\* One more line of a group: whether it submits, and what is collected then.
LEMMA LineOn ==
  ASSUME script \in Scripts, NEW r \in Nat, r + 1 < Last,
         NEW c, c = Begun(r, Count(r) + 1),
         c # {} /\ script.lines[r] = "blank" => r >= 2 /\ script.lines[r - 1] = "text"
  PROVE  /\ r + 1 \in SubmitPoints
              <=> script.lines[r + 1] = "blank" /\ c # {} /\ script.lines[r] = "blank"
         /\ r + 1 \in SubmitPoints =>
              /\ Count(r + 1) = Count(r) + 1 /\ Begun(r + 1, Count(r + 1) + 1) = {}
              /\ Texts(Count(r) + 1) \subseteq 1..r /\ Texts(Count(r) + 1) # {}
         /\ r + 1 \notin SubmitPoints =>
              /\ Count(r + 1) = Count(r)
              /\ Begun(r + 1, Count(r + 1) + 1) =
                   IF script.lines[r + 1] = "text" \/ c # {} THEN c \cup {r + 1} ELSE c
<1> DEFINE k == Count(r) + 1
           lines == script.lines
<1>1. /\ Last \in Nat /\ Count(r) \in Nat /\ SubmitPoints \subseteq Nat
      /\ \A j \in Int : Texts(j) = {i \in 1..(Last - 1) : lines[i] = "text" /\ Count(i - 1) = j - 1}
      /\ \A p \in SubmitPoints :
           p >= 3 /\ lines[p] = "blank" /\ lines[p - 1] = "blank" /\ lines[p - 2] = "text"
  BY LastFirst, Typed, Counting, TextGroup DEF SubmitPoints
<1> HIDE DEF lines
<1>2. ASSUME r + 1 \in SubmitPoints PROVE lines[r + 1] = "blank" /\ c # {} /\ lines[r] = "blank"
  <2>1. r >= 2 /\ lines[r + 1] = "blank" /\ lines[r] = "blank" /\ lines[r - 1] = "text"
    BY <1>1, <1>2
  <2>2. r - 1 \notin SubmitPoints /\ r \notin SubmitPoints
    BY <1>1, <2>1
  <2>3. Count(r - 1) = Count(r - 2) /\ Count(r) = Count(r - 1)
    <3>1. r - 2 \in Nat /\ r - 1 \in Nat /\ (r - 2) + 1 = r - 1 /\ (r - 1) + 1 = r
      BY <2>1
    <3> QED BY <2>2, <3>1, CountOn
  <2>4. r - 1 \in Texts(k)
    BY <1>1, <2>1, <2>3
  <2>5. r - 1 \in c
    BY <2>1, <2>4 DEF Begun
  <2> QED BY <2>1, <2>5
<1>3. ASSUME lines[r + 1] = "blank", c # {}, lines[r] = "blank" PROVE r + 1 \in SubmitPoints
  BY <1>1, <1>3 DEF SubmitPoints, lines
<1>4. ASSUME r + 1 \in SubmitPoints
      PROVE  /\ Count(r + 1) = k /\ Begun(r + 1, k + 1) = {}
             /\ Texts(k) \subseteq 1..r /\ Texts(k) # {}
  <2>1. Count(r + 1) = k
    BY <1>4, CountOn
  <2>2. \A j \in Texts(k + 1) : j > r + 1
    <3> SUFFICES ASSUME NEW j \in Texts(k + 1), j <= r + 1 PROVE FALSE
      BY <1>1
    <3>1. j \in Nat /\ lines[j] = "text" /\ Count(j - 1) = k
      BY <1>1
    <3>2. j - 1 <= r
      BY <3>1
    <3>3. Count(j - 1) <= Count(r)
      BY <3>1, <3>2, CountMonotone
    <3> QED BY <1>1, <3>1, <3>3
  <2>3. Begun(r + 1, k + 1) = {}
    BY <1>1, <2>2 DEF Begun
  <2>4. \A j \in Texts(k) : j <= r
    <3> SUFFICES ASSUME NEW j \in Texts(k), j > r PROVE FALSE
      BY <1>1
    <3>1. j \in Nat /\ lines[j] = "text" /\ Count(j - 1) = k - 1
      BY <1>1
    <3>2. j # r + 1
      BY <1>2, <1>4, <3>1
    <3>3. Count(r + 1) <= Count(j - 1)
      BY <3>1, <3>2, CountMonotone
    <3> QED BY <1>1, <2>1, <3>1, <3>3
  <2>5. Texts(k) # {}
    BY <1>2, <1>4 DEF Begun
  <2> QED BY <1>1, <2>1, <2>3, <2>4, <2>5
<1>5. ASSUME r + 1 \notin SubmitPoints
      PROVE  /\ Count(r + 1) = Count(r)
             /\ Begun(r + 1, k) = IF lines[r + 1] = "text" \/ c # {} THEN c \cup {r + 1} ELSE c
  <2>1. Count(r + 1) = Count(r)
    BY <1>5, CountOn
  <2>2. r + 1 \in Texts(k) <=> lines[r + 1] = "text"
    BY <1>1
  <2>3. \A i \in 1..r : i \in Begun(r + 1, k) <=> i \in c
    BY DEF Begun
  <2>4. r + 1 \in Begun(r + 1, k) <=> lines[r + 1] = "text" \/ c # {}
    <3>1. ASSUME r + 1 \in Begun(r + 1, k), lines[r + 1] # "text" PROVE c # {}
      <4>1. PICK j \in Texts(k) : j <= r + 1
        BY <3>1 DEF Begun
      <4>2. j \in 1..r
        BY <1>1, <2>2, <3>1, <4>1
      <4>3. j \in c
        BY <4>2 DEF Begun
      <4> QED BY <4>3
    <3>2. ASSUME lines[r + 1] = "text" PROVE r + 1 \in Begun(r + 1, k)
      BY <2>2, <3>2 DEF Begun
    <3>3. ASSUME c # {} PROVE r + 1 \in Begun(r + 1, k)
      <4>1. PICK i \in 1..r : \E j \in Texts(k) : j <= i
        BY <3>3 DEF Begun
      <4>2. PICK j \in Texts(k) : j <= i
        BY <4>1
      <4>3. j <= r + 1
        BY <1>1, <4>2
      <4> QED BY <4>2, <4>3 DEF Begun
    <3> QED BY <3>1, <3>2, <3>3
  <2>5. Begun(r + 1, k) \subseteq 1..(r + 1) /\ c \subseteq 1..r
    BY DEF Begun
  <2>6. 1..(r + 1) = 1..r \cup {r + 1}
    OBVIOUS
  <2> QED BY <2>1, <2>3, <2>4, <2>5, <2>6
<1> QED BY <1>1, <1>2, <1>3, <1>4, <1>5 DEF lines

\* Every group below one that is begun holds a text: at least so many answers.
LEMMA AnswersSoFar ==
  ASSUME script \in Scripts, NEW q \in Nat, \A k \in 1..Count(q) : Texts(k) # {}
  PROVE  /\ AnswersTyped \in Nat /\ AnswersTyped >= Count(q)
         /\ q = Last - 1 =>
              AnswersTyped = Count(q) + IF Texts(Count(q) + 1) = {} THEN 0 ELSE 1
<1> DEFINE n == Cardinality(SubmitPoints)
           c == Count(q)
           A == {k \in 1..(n + 1) : Texts(k) # {}}
<1>1. n \in Nat /\ c \in Nat /\ c <= n
  BY Counting
<1>2. IsFiniteSet(A) /\ \A m \in Nat : IsFiniteSet(1..m) /\ Cardinality(1..m) = m
  <2>1. \A m \in Nat : IsFiniteSet(1..m) /\ Cardinality(1..m) = m
    BY FS_Interval
  <2>2. A \subseteq 1..(n + 1) /\ n + 1 \in Nat
    BY <1>1
  <2> QED BY <2>1, <2>2, FS_Subset
<1>3. AnswersTyped = Cardinality(A) /\ Cardinality(A) \in Nat
  BY <1>2, FS_CardinalityType DEF AnswersTyped
<1>4. 1..c \subseteq A
  <2>1. \A k \in 1..c : k \in 1..(n + 1)
    BY <1>1
  <2> QED BY <2>1
<1>5. AnswersTyped >= c
  <2>1. Cardinality(1..c) <= Cardinality(A)
    BY <1>2, <1>4, FS_Subset
  <2> QED BY <1>1, <1>2, <1>3, <2>1
<1>6. ASSUME q = Last - 1
      PROVE  AnswersTyped = c + IF Texts(c + 1) = {} THEN 0 ELSE 1
  <2>1. Passed(q) = SubmitPoints
    <3>1. Last \in Nat
      BY LastFirst, Typed
    <3>2. \A p \in SubmitPoints : p <= q
      BY <1>6, <3>1 DEF SubmitPoints
    <3> QED BY <3>2, Zenon DEF Passed
  <2>2. n = c
    BY <2>1 DEF Count
  <2>3. c + 1 \in Nat /\ \A k \in 1..(c + 1) : k \in 1..c \/ k = c + 1
    BY <1>1
  <2>3a. \A k \in 1..c : k \in 1..(c + 1)
    BY <1>1
  <2>4. CASE Texts(c + 1) = {}
    <3>1. \A k \in A : k \in 1..c
      BY <2>2, <2>3, <2>4
    <3>2. A = 1..c
      BY <1>4, <3>1, Zenon
    <3>3. AnswersTyped = c
      BY <1>1, <1>2, <1>3, <3>2
    <3> QED BY <1>1, <2>4, <3>3
  <2>5. CASE Texts(c + 1) # {}
    <3>1. \A k \in 1..(c + 1) : k \in A
      BY <1>4, <2>2, <2>3, <2>5
    <3>2. A = 1..(c + 1)
      BY <2>2, <3>1, Zenon
    <3> QED BY <1>1, <1>2, <1>3, <2>3, <2>5, <3>2
  <2> QED BY <2>4, <2>5
<1> QED BY <1>3, <1>5, <1>6

-----------------------------------------------------------------------------
(* What is said.                                                           *)

\* What was typed does not change.
LEMMA Unchanging ==
  ASSUME script' = script
  PROVE  /\ Last' = Last /\ SubmitPoints' = SubmitPoints /\ AnswersTyped' = AnswersTyped
         /\ \A k : Texts(k)' = Texts(k) /\ Answer(k)' = Answer(k)
         /\ \A q : Count(q)' = Count(q)
         /\ \A q, k : Begun(q, k)' = Begun(q, k)
BY DEF Last, SubmitPoints, AnswersTyped, Texts, Answer, Count, Passed, Begun, Positions

\* The LLM's answer after the user's message.
LEMMA ReplySpoken ==
  ASSUME TypeOK, Spoken, script' = script, messages' = Append(messages, Reply),
         NEW j \in Nat, Len(messages) = 2 * j + 1
  PROVE  Spoken' /\ Len(messages') = 2 * j + 2
<1>1. /\ Len(messages) \in Nat /\ Len(messages') = Len(messages) + 1
      /\ DOMAIN messages = 1..Len(messages) /\ DOMAIN messages' = 1..Len(messages')
      /\ messages'[Len(messages')] = Reply
      /\ \A k \in 1..Len(messages) : messages'[k] = messages[k]
  <2>1. Reply \in Utterances
    BY DEF Reply, Message, Utterances
  <2> QED BY <2>1 DEF TypeOK
<1>2. /\ (2 * j + 2) % 2 = 0 /\ (2 * j + 2) \div 2 = j + 1 /\ (2 * j + 3) \div 2 = j + 1
  OBVIOUS
<1>3. DOMAIN messages' = DOMAIN messages \cup {Len(messages')} /\ Len(messages') = 2 * j + 2
  BY <1>1
<1>4. Given' = Given
  BY <1>1, <1>3 DEF Given, Reply, Message
<1>5. \A k \in Given : k \in 1..Len(messages)
  BY <1>1 DEF Given
<1> QED BY <1>1, <1>2, <1>3, <1>4, <1>5, Unchanging DEF Spoken, Reply, Message

\* The user's answer after the LLM's.
LEMMA AnswerSpoken ==
  ASSUME TypeOK, Spoken, script' = script, NEW j \in Nat, Len(messages) = 2 * j + 2,
         messages' = Append(messages, Message("user", Answer(j + 1)))
  PROVE  Spoken' /\ Len(messages') = 2 * j + 3
<1> DEFINE m == Message("user", Answer(j + 1))
           last == 2 * j + 3
<1>1. /\ Len(messages) \in Nat /\ Len(messages') = last
      /\ DOMAIN messages = 1..Len(messages) /\ DOMAIN messages' = 1..last
      /\ messages'[last] = m
      /\ \A k \in 1..Len(messages) : messages'[k] = messages[k]
  <2>1. Answer(j + 1) \subseteq Nat
    BY Typed DEF TypeOK, Answer
  <2>2. m \in Utterances
    BY <2>1 DEF Message, Utterances
  <2> HIDE DEF m
  <2> QED BY <2>2 DEF TypeOK, m
<1>2. /\ last % 2 = 1 /\ (last - 1) \div 2 = j + 1 /\ last # 1
      /\ (2 * j + 3) \div 2 = j + 1 /\ (last + 1) \div 2 = j + 2
  OBVIOUS
<1>3. DOMAIN messages' = DOMAIN messages \cup {last} /\ last \notin DOMAIN messages
  BY <1>1
<1>4. m.role = "user" /\ m.lines = Answer(j + 1)
  BY DEF Message
<1> HIDE DEF m, last
<1>5. Given' = Given \cup {last} /\ last \notin Given
  BY <1>1, <1>3, <1>4 DEF Given
<1>6. IsFiniteSet(Given') /\ Cardinality(Given') = Cardinality(Given) + 1
  BY <1>5, FS_AddElement DEF Spoken
<1>7. \A k \in DOMAIN messages' : messages'[k].role = IF k % 2 = 1 THEN "user" ELSE "assistant"
  BY <1>1, <1>2, <1>3, <1>4 DEF Spoken
<1>8. \A k \in Given' \ {1} : messages'[k].lines = Answer((k - 1) \div 2)'
  <2>1. \A k \in Given : k \in 1..Len(messages)
    BY <1>1 DEF Given
  <2> QED BY <1>1, <1>2, <1>4, <1>5, <2>1, Unchanging DEF Spoken
<1>9. Cardinality(Given') = (Len(messages') + 1) \div 2
  <2>1. Cardinality(Given) = j + 1
    BY <1>2 DEF Spoken
  <2> QED BY <1>1, <1>2, <1>6, <2>1
<1> QED BY <1>1, <1>6, <1>7, <1>8, <1>9 DEF Spoken, last

-----------------------------------------------------------------------------
(* The steps.                                                              *)

\* A step that neither reads nor speaks.
LEMMA Quiet ==
  ASSUME IInv, UNCHANGED <<script, inputVars, talkVars>>,
         pc' \in {pc, "failed"} \/ (pc \in Late \cup {"final"} /\ pc' \in Late)
  PROVE  Reading' /\ Spoken' /\ Talked' /\ Counted'
<1>1. ReadSoFar' = ReadSoFar /\ reader' = reader /\ scanned' = scanned /\ script' = script
  BY DEF ReadSoFar, inputVars
<1>2. Reading'
  BY <1>1, Unchanging DEF IInv, TypeOK, Reading, inputVars, talkVars, Early, Late, Places
<1>3. Spoken'
  BY <1>1, Unchanging DEF IInv, Spoken, Given, talkVars
<1>4. Talked'
  BY DEF IInv, Talked, talkVars, Late
<1>5. Counted'
  BY <1>1, Unchanging DEF IInv, Counted, talkVars, Early, Late
<1> QED BY <1>2, <1>3, <1>4, <1>5

\* The line in hand, and what has been read of the group.
LEMMA InHand ==
  ASSUME IInv, pc = "read", reader \in {"offer", "closed"}
  PROVE  /\ ReadSoFar \in Nat /\ ReadSoFar < Last /\ round \in Nat /\ round < MaxRounds
         /\ Count(ReadSoFar) = round /\ ~ended /\ Len(messages) = 2 * round + 2
         /\ collected = Begun(ReadSoFar, round + 1)
         /\ reader = "offer" => scanned = ReadSoFar + 1 /\ scanned \in Positions
         /\ reader = "closed" => ReadSoFar = Len(script.lines) /\ Last = ReadSoFar + 1
<1>1. /\ Len(script.lines) \in Nat /\ Last \in 1..(Len(script.lines) + 1)
      /\ Positions = 1..Len(script.lines)
  BY Typed, LastFirst DEF IInv, TypeOK
<1>2. ~ended /\ round < MaxRounds /\ pc \in Early
  BY DEF IInv, Concluded, Early
<1>3. /\ scanned \in 0..Len(script.lines) /\ round \in Nat
      /\ (reader = "offer" => scanned > 0) /\ (reader = "closed" => scanned = Len(script.lines))
  BY InterviewAssumption DEF IInv, TypeOK, Reading
<1>4. /\ ReadSoFar < Last /\ collected = Begun(ReadSoFar, Count(ReadSoFar) + 1)
      /\ Count(ReadSoFar) = round
  BY <1>2 DEF IInv, Reading, Counted
<1>5. Len(messages) = 2 * round + 2
  BY DEF IInv, Talked
<1> QED BY <1>1, <1>2, <1>3, <1>4, <1>5 DEF ReadSoFar

\* The user is done: everything typed has been read.
LEMMA TakesLast ==
  ASSUME IInv, pc = "read", reader \in {"offer", "closed"}, ReadSoFar = Last - 1,
         Take(TRUE), UNCHANGED <<script, round>>
  PROVE  /\ Spoken' /\ Talked' /\ Counted'
         /\ pc' \in {"answer", "final"}
<1> DEFINE r == ReadSoFar
           text == Trimmed(collected)
<1>1. /\ r \in Nat /\ r < Last /\ round \in Nat /\ round < MaxRounds /\ Count(r) = round
      /\ Len(messages) = 2 * round + 2 /\ collected = Begun(r, round + 1)
      /\ script \in Scripts
  BY InHand DEF IInv, TypeOK
<1>2. Texts(round + 1) \subseteq 1..r
  BY <1>1, TextGroup
<1>3. text = Answer(round + 1) /\ (text = {} <=> Texts(round + 1) = {})
  BY <1>1, <1>2, TrimIsAnswer
<1>4. AnswersTyped = round + IF text = {} THEN 0 ELSE 1
  <2>1. \A k \in 1..Count(r) : Texts(k) # {}
    BY InHand DEF IInv, Counted, Early
  <2>2. AnswersTyped = Count(r) + IF Texts(Count(r) + 1) = {} THEN 0 ELSE 1
    BY <1>1, <2>1, AnswersSoFar
  <2> QED BY <1>1, <1>3, <2>2
<1>5. ended' /\ round' = round /\ AnswersTyped' = AnswersTyped
  BY Unchanging DEF Take
<1>6. CASE text # {}
  <2>1. pc' = "answer" /\ messages' = Append(messages, Message("user", Answer(round + 1)))
    BY <1>1, <1>3, <1>6 DEF Take
  <2>2. Spoken' /\ Len(messages') = 2 * round + 3
    BY <1>1, <2>1, AnswerSpoken DEF IInv
  <2>3. Talked' /\ Counted'
    BY <1>4, <1>5, <1>6, <2>1, <2>2 DEF Talked, Counted, Late
  <2> QED BY <2>1, <2>2, <2>3
<1>7. CASE text = {}
  <2>1. pc' = "final" /\ messages' = messages
    BY <1>7 DEF Take
  <2>2. Spoken'
    BY <2>1, Unchanging DEF IInv, Spoken, Given
  <2>3. Talked' /\ Counted'
    BY <1>1, <1>4, <1>5, <1>7, <2>1 DEF Talked, Counted, Late
  <2> QED BY <2>1, <2>2, <2>3
<1> QED BY <1>6, <1>7

\* What a step of readMessage leaves alone.
LEMMA TakeTyped ==
  ASSUME TypeOK, NEW done \in BOOLEAN, Take(done), script' = script
  PROVE  messages' \in Seq(Utterances)
<1>1. Trimmed(collected) \subseteq Nat
  BY DEF TypeOK, Trimmed
<1>2. Message("user", Trimmed(collected)) \in Utterances
  BY <1>1 DEF Message, Utterances
<1>3. \/ messages' = messages
      \/ messages' = Append(messages, Message("user", Trimmed(collected)))
  BY Zenon DEF Take
<1>4. messages \in Seq(Utterances)
  BY DEF TypeOK
<1> QED BY <1>2, <1>3, <1>4, AppendProperties

LEMMA InitInv == Init => IInv
<1> SUFFICES ASSUME Init PROVE IInv
  OBVIOUS
<1>1. script \in Scripts /\ Len(script.lines) \in Nat /\ Last \in 1..(Len(script.lines) + 1)
  BY Typed, LastFirst DEF Init
<1>2. MaxRounds \in Nat /\ MaxRounds > 0
  BY InterviewAssumption
<1>3. messages = <<Message("user", {})>> /\ Message("user", {}) \in Utterances
  BY DEF Init, Message, Utterances
<1>4. TypeOK
  <2>1. messages \in Seq(Utterances)
    BY <1>3
  <2>2. 0 \in 0..Len(script.lines) /\ 0 \in 0..MaxRounds
    BY <1>1, <1>2
  <2> QED BY <2>1, <2>2 DEF Init, TypeOK, Places, Early
<1>5. Called /\ Concluded /\ Stored
  BY <1>2 DEF Init, Called, Concluded, Stored, Calling, Early, Late
<1>6. ReadSoFar = 0 /\ Count(0) = 0 /\ Texts(1) \subseteq Positions
  <2>1. Passed(0) = {}
    BY DEF Passed, SubmitPoints
  <2>2. Texts(1) \subseteq Positions
    BY <1>1, TextGroup, Typed
  <2> QED BY <2>1, <2>2, FS_EmptySet DEF Count, Init, ReadSoFar
<1>7. Reading
  <2>1. Begun(0, 1) = {}
    BY DEF Begun
  <2> QED BY <1>1, <1>6, <2>1 DEF Init, Reading, Early, Late, Places
<1>8. Spoken
  <2>1. DOMAIN messages = {1} /\ Len(messages) = 1 /\ messages[1].role = "user"
    BY <1>3 DEF Message
  <2>2. Given = {1}
    BY <2>1 DEF Given
  <2>3. IsFiniteSet(Given) /\ Cardinality(Given) = 1
    BY <2>2, FS_Singleton
  <2>4. 1 % 2 = 1 /\ (1 + 1) \div 2 = 1
    OBVIOUS
  <2> QED BY <2>1, <2>2, <2>3, <2>4 DEF Spoken
<1>9. Talked /\ Counted
  BY <1>2, <1>3, <1>6 DEF Init, Talked, Counted, Early, Late
<1> QED BY <1>4, <1>5, <1>7, <1>8, <1>9 DEF IInv

\* The LLM's calls.
LEMMA AskStep == IInv /\ Ask => IInv'
<1> SUFFICES ASSUME IInv, Ask PROVE IInv'
  OBVIOUS
<1>1. Reading' /\ Spoken' /\ Talked' /\ Counted'
  BY Quiet DEF Ask, Fail
<1>2. TypeOK'
  BY DEF IInv, TypeOK, Ask, Fail, Places, inputVars, talkVars, outVars
<1>3. Called' /\ Concluded' /\ Stored'
  BY Unchanging DEF IInv, Called, Concluded, Stored, Ask, Fail, Cancelled, Calling, Early, Late,
       inputVars, talkVars, outVars
<1> QED BY <1>1, <1>2, <1>3 DEF IInv

LEMMA FailureStep == IInv /\ (CallFails \/ WriteFails \/ ReadInterrupted) => IInv'
<1> SUFFICES ASSUME IInv, CallFails \/ WriteFails \/ ReadInterrupted PROVE IInv'
  OBVIOUS
<1>1. /\ pc' = "failed" /\ ~flying'
      /\ UNCHANGED <<script, scenarios, interruptedAt, inputVars, talkVars, outVars>>
  BY DEF CallFails, WriteFails, ReadInterrupted, Fail
<1>2. Reading' /\ Spoken' /\ Talked' /\ Counted'
  BY <1>1, Quiet
<1>3. TypeOK' /\ flying' = FALSE
  BY <1>1 DEF IInv, TypeOK, Places, inputVars, talkVars, outVars, CallFails, WriteFails,
       ReadInterrupted, Fail
<1>4. Called' /\ Concluded' /\ Stored'
  BY <1>1, Unchanging DEF IInv, Called, Concluded, Stored, Calling, Early, Late, inputVars,
       talkVars, outVars
<1> QED BY <1>2, <1>3, <1>4 DEF IInv

LEMMA OpenedStep == IInv /\ Opened => IInv'
<1> SUFFICES ASSUME IInv, Opened PROVE IInv'
  OBVIOUS
<1>1. script' = script /\ messages' = Append(messages, Reply) /\ pc = "open" /\ pc' = "read"
  BY DEF Opened
<1>2. Len(messages) = 1 /\ round = 0 /\ scanned = 0 /\ reader = "none" /\ ~ended
  BY <1>1 DEF IInv, Talked, Reading, Concluded
<1>3. Spoken' /\ Len(messages') = 2 * round' + 2
  <2>1. Len(messages) = 2 * 0 + 1
    BY <1>2
  <2> QED BY <1>1, <1>2, <2>1, ReplySpoken DEF IInv, Opened
<1>4. ReadSoFar = 0 /\ ReadSoFar' = 0
  BY <1>2 DEF ReadSoFar, Opened
<1>5. TypeOK'
  <2>1. messages' \in Seq(Utterances)
    BY <1>1, AppendProperties DEF IInv, TypeOK, Reply, Message, Utterances
  <2> QED BY <2>1 DEF IInv, TypeOK, Opened, Places, Early, outVars
<1>6. Called' /\ Concluded' /\ Stored'
  BY <1>1, Unchanging DEF IInv, Called, Concluded, Stored, Opened, Calling, Early, Late, outVars
<1>7. Reading' /\ Counted'
  BY <1>1, <1>2, <1>4, Unchanging DEF IInv, Reading, Counted, Opened, Early, Late, Places
<1>8. Talked'
  BY <1>1, <1>3 DEF Talked
<1> QED BY <1>3, <1>5, <1>6, <1>7, <1>8 DEF IInv

LEMMA AnsweredStep == IInv /\ Answered => IInv'
<1> SUFFICES ASSUME IInv, Answered PROVE IInv'
  OBVIOUS
<1>1. /\ script' = script /\ messages' = Append(messages, Reply) /\ pc = "answer"
      /\ round' = round + 1 /\ ended' = ended
      /\ pc' = IF ended \/ round' >= MaxRounds THEN "final" ELSE "read"
      /\ reader' = reader /\ scanned' = scanned
  BY DEF Answered, inputVars
<1>2. /\ round \in Nat /\ round < MaxRounds /\ MaxRounds \in Nat /\ script \in Scripts
      /\ Len(messages) = 2 * (round + 1) + 1
  BY <1>1, InterviewAssumption DEF IInv, TypeOK, Concluded, Early, Talked
<1>3. Spoken' /\ Len(messages') = 2 * (round + 1) + 2
  BY <1>1, <1>2, ReplySpoken DEF IInv
<1>4. ReadSoFar' = ReadSoFar
  BY <1>1 DEF ReadSoFar
<1>5. TypeOK'
  <2>1. messages' \in Seq(Utterances)
    BY <1>1, AppendProperties DEF IInv, TypeOK, Reply, Message, Utterances
  <2>2. round' \in 0..MaxRounds /\ pc' \in Places
    BY <1>1, <1>2 DEF Places, Early
  <2> QED BY <1>1, <2>1, <2>2 DEF IInv, TypeOK, Answered, inputVars, outVars
<1>6. Called' /\ Concluded' /\ Stored'
  BY <1>1, <1>2, Unchanging DEF IInv, Called, Concluded, Stored, Answered, Calling, Early, Late,
       outVars
<1>7. Reading'
  BY <1>1, <1>4, Unchanging DEF IInv, Reading, Answered, inputVars, Early, Late, Places
<1>8. Counted'
  <2>1. CASE ended
    BY <1>1, <2>1, Unchanging DEF IInv, Counted, Early, Late
  <2>2. CASE ~ended
    <3>1. Count(ReadSoFar) = round + 1 /\ (\A k \in 1..Count(ReadSoFar) : Texts(k) # {})
      BY <1>1, <2>2 DEF IInv, Counted, Early
    <3>2. ReadSoFar \in Nat
      <4>1. /\ scanned \in 0..Len(script.lines) /\ (reader \in {"offer", "quit"} => scanned > 0)
            /\ Len(script.lines) \in Nat
        BY <1>2, Typed DEF IInv, TypeOK, Reading
      <4> QED BY <4>1 DEF ReadSoFar
    <3>3. AnswersTyped \in Nat /\ AnswersTyped >= round + 1
      BY <1>2, <3>1, <3>2, AnswersSoFar
    <3> QED BY <1>1, <1>2, <1>4, <2>2, <3>1, <3>3, Unchanging DEF Counted, Early, Late
  <2> QED BY <2>1, <2>2
<1>9. Talked'
  BY <1>1, <1>2, <1>3 DEF Talked, Late
<1> QED BY <1>3, <1>5, <1>6, <1>7, <1>8, <1>9 DEF IInv

LEMMA SpecGeneratedStep == IInv /\ SpecGenerated => IInv'
<1> SUFFICES ASSUME IInv, SpecGenerated PROVE IInv'
  OBVIOUS
<1>1. Reading' /\ Spoken' /\ Talked' /\ Counted'
  BY Quiet DEF SpecGenerated, Late
<1>2. TypeOK'
  BY DEF IInv, TypeOK, SpecGenerated, Places, Late, inputVars, talkVars, outVars
<1>3. Called' /\ Concluded' /\ Stored'
  BY Unchanging DEF IInv, Called, Concluded, Stored, SpecGenerated, Calling, Early, Late,
       inputVars, talkVars, outVars
<1> QED BY <1>1, <1>2, <1>3 DEF IInv

\* The user's interrupt.
LEMMA InterruptStep == IInv /\ Interrupt => IInv'
<1> SUFFICES ASSUME IInv, Interrupt PROVE IInv'
  OBVIOUS
<1>1. Reading' /\ Spoken' /\ Talked' /\ Counted'
  BY Quiet DEF Interrupt
<1>2. TypeOK'
  BY DEF IInv, TypeOK, Interrupt, inputVars, talkVars, outVars
<1>3. Called' /\ Concluded' /\ Stored'
  BY Unchanging DEF IInv, Called, Concluded, Stored, Interrupt, Over, Cancelled, Calling, Early,
       Late, inputVars, talkVars, outVars
<1> QED BY <1>1, <1>2, <1>3 DEF IInv

\* The scanner's steps: the loop has received what it had.
LEMMA ReaderStep == IInv /\ Reader => IInv'
<1> SUFFICES ASSUME IInv, Reader PROVE IInv'
  OBVIOUS
<1>1. /\ UNCHANGED <<script, scenarios, pc, flying, interruptedAt, collected, prevBlank, talkVars,
                     outVars>>
      /\ reader # "none" /\ reader' # "none"
  BY DEF Reader, ReaderScans, ReaderCloses, ReaderQuits
<1>2. scanned \in 0..Len(script.lines) /\ Len(script.lines) \in Nat
  BY Typed DEF IInv, TypeOK
<1>3. /\ ReadSoFar' = ReadSoFar /\ scanned' \in 0..Len(script.lines) /\ scanned' >= scanned
      /\ reader' \in {"offer", "quit"} => scanned' > 0
      /\ reader' = "closed" => scanned' = Len(script.lines) /\ script.end # "silent"
      /\ reader' \in {"offer", "closed", "quit"}
  BY <1>2 DEF Reader, ReaderScans, ReaderCloses, ReaderQuits, ReadSoFar, IInv, Reading
<1>4. TypeOK'
  BY <1>1, <1>3 DEF IInv, TypeOK, talkVars, outVars
<1>5. Called' /\ Stored' /\ Talked'
  BY <1>1 DEF IInv, Called, Stored, Talked, talkVars, outVars
<1>6. Concluded'
  <2>1. Last \in Nat /\ Last' = Last /\ scanned' \in Nat
    BY <1>1, <1>2, <1>3, LastFirst, Unchanging DEF IInv, TypeOK
  <2> QED BY <1>1, <1>2, <1>3, <2>1 DEF IInv, Concluded, talkVars, outVars
<1>7. Reading'
  BY <1>1, <1>3, Unchanging DEF IInv, Reading, talkVars, Early, Places
<1>8. Spoken'
  BY <1>1, Unchanging DEF IInv, Spoken, Given, talkVars
<1>9. Counted'
  BY <1>1, <1>3, Unchanging DEF IInv, Counted, talkVars
<1> QED BY <1>4, <1>5, <1>6, <1>7, <1>8, <1>9 DEF IInv

\* The user is done, by "done" or by the end of the input.
LEMMA DoneStep ==
  ASSUME IInv, pc = "read", reader \in {"offer", "closed"}, ReadSoFar = Last - 1,
         script.end = "eof" \/ scanned >= Last, Take(TRUE), reader' \in {"scan", reader},
         UNCHANGED <<script, scenarios, flying, interruptedAt, scanned, round, outVars>>
  PROVE  IInv'
<1>1. Spoken' /\ Talked' /\ Counted' /\ pc' \in {"answer", "final"}
  BY TakesLast
<1>2. collected' = {} /\ prevBlank' = FALSE /\ ended' = TRUE
  BY DEF Take
<1>3. TypeOK'
  <2>1. messages' \in Seq(Utterances)
    BY TakeTyped DEF IInv
  <2> QED BY <1>1, <1>2, <2>1 DEF IInv, TypeOK, Places, Early, outVars
<1>4. Called' /\ Stored'
  BY <1>1 DEF IInv, Called, Stored, Calling, Early, Late, outVars
<1>5. Concluded'
  BY <1>1, <1>2, Unchanging DEF IInv, Concluded, Stored, Early, Late, outVars
<1>6. Reading'
  BY <1>1, <1>2 DEF IInv, Reading, Early, Late, Places
<1> QED BY <1>1, <1>3, <1>4, <1>5, <1>6 DEF IInv

LEMMA ReceiveDoneStep == IInv /\ ReceiveDone => IInv'
<1> SUFFICES ASSUME IInv, ReceiveDone PROVE IInv'
  OBVIOUS
<1>1. /\ pc = "read" /\ reader = "offer" /\ reader' = "scan" /\ script.lines[scanned] = "done"
      /\ Take(TRUE)
      /\ UNCHANGED <<script, scenarios, flying, interruptedAt, scanned, round, outVars>>
  BY DEF ReceiveDone, Received, Line
<1>2. /\ ReadSoFar \in Nat /\ ReadSoFar < Last /\ scanned = ReadSoFar + 1
      /\ scanned \in 1..Len(script.lines) /\ Len(script.lines) \in Nat /\ script \in Scripts
      /\ Last \in Nat
  BY <1>1, InHand, Typed, LastFirst DEF IInv, TypeOK
<1>3. \A j \in 1..(scanned - 1) : script.lines[j] # "done"
  <2>1. \A j \in 1..(scanned - 1) : j \in 1..(Last - 1)
    BY <1>2
  <2> QED BY <1>2, <2>1, LastFirst
<1>4. scanned \in 1..(Len(script.lines) + 1)
  BY <1>2
<1>5. Last = scanned
  BY <1>1, <1>2, <1>3, <1>4, LastIs
<1>6. scanned >= Last /\ ReadSoFar = Last - 1
  BY <1>2, <1>5
<1> QED BY <1>1, <1>6, DoneStep

LEMMA ReceiveEOFStep == IInv /\ ReceiveEOF => IInv'
<1> SUFFICES ASSUME IInv, ReceiveEOF PROVE IInv'
  OBVIOUS
<1>1. /\ pc = "read" /\ reader = "closed" /\ reader' = reader
      /\ UNCHANGED <<script, scenarios, interruptedAt, reader, scanned, round, outVars>>
  BY DEF ReceiveEOF
<1>2. CASE script.end = "error"
  <2>1. pc' = "failed" /\ flying' = FALSE /\ UNCHANGED <<collected, prevBlank, ended, messages>>
    BY <1>2 DEF ReceiveEOF, Fail
  <2>2. Reading' /\ Spoken' /\ Talked' /\ Counted'
    BY <1>1, <2>1, Quiet DEF inputVars, talkVars
  <2>3. TypeOK'
    BY <1>1, <2>1 DEF IInv, TypeOK, Places, outVars
  <2>4. Called' /\ Concluded' /\ Stored'
    BY <1>1, <2>1, Unchanging DEF IInv, Called, Concluded, Stored, Calling, Early, Late, outVars
  <2> QED BY <2>2, <2>3, <2>4 DEF IInv
<1>3. CASE script.end # "error"
  <2>1. Take(TRUE) /\ UNCHANGED flying
    BY <1>3 DEF ReceiveEOF
  <2>2. ReadSoFar \in Nat /\ Last = ReadSoFar + 1
    BY <1>1, InHand
  <2>3. script.end = "eof"
    <3>1. script.end # "silent"
      BY <1>1 DEF IInv, Reading
    <3> QED BY <1>3, <3>1, Typed DEF IInv, TypeOK, Endings
  <2> QED BY <1>1, <2>1, <2>2, <2>3, DoneStep
<1> QED BY <1>2, <1>3

\* A line that is not "done": what is known of it and of those before it.
LEMMA OnePlain ==
  ASSUME IInv, Received, Line # "done"
  PROVE  /\ ReadSoFar \in Nat /\ scanned = ReadSoFar + 1 /\ scanned < Last
         /\ Count(ReadSoFar) = round /\ round \in Nat /\ round < MaxRounds /\ ~ended
         /\ collected = Begun(ReadSoFar, Count(ReadSoFar) + 1)
         /\ prevBlank <=> collected # {} /\ script.lines[ReadSoFar] = "blank"
         /\ collected # {} /\ script.lines[ReadSoFar] = "blank" =>
              ReadSoFar >= 2 /\ script.lines[ReadSoFar - 1] = "text"
         /\ collected # {} => ReadSoFar \in Positions /\ script.lines[ReadSoFar] # "done"
         /\ script \in Scripts /\ scanned \in Positions /\ Positions = 1..Len(script.lines)
         /\ Len(script.lines) \in Nat /\ Len(messages) = 2 * round + 2
<1>1. /\ pc = "read" /\ reader = "offer" /\ script.lines[scanned] # "done" /\ script \in Scripts
  BY DEF Received, Line, IInv, TypeOK
<1>2. /\ ReadSoFar \in Nat /\ ReadSoFar < Last /\ scanned = ReadSoFar + 1
      /\ scanned \in Positions /\ Positions = 1..Len(script.lines) /\ Len(script.lines) \in Nat
      /\ Last \in 1..(Len(script.lines) + 1) /\ ~ended /\ Count(ReadSoFar) = round
      /\ round \in Nat /\ round < MaxRounds /\ collected = Begun(ReadSoFar, round + 1)
      /\ Len(messages) = 2 * round + 2
  BY <1>1, InHand, Typed, LastFirst
<1>3. scanned < Last
  <2>1. ASSUME scanned = Last PROVE FALSE
    BY <1>1, <1>2, <2>1, LastFirst
  <2> QED BY <1>2, <2>1
<1>4. /\ prevBlank <=> collected # {} /\ script.lines[ReadSoFar] = "blank"
      /\ collected # {} /\ script.lines[ReadSoFar] = "blank" =>
           ReadSoFar >= 2 /\ script.lines[ReadSoFar - 1] = "text"
  BY <1>1, <1>2 DEF IInv, Reading, Early
<1>5. ASSUME collected # {} PROVE ReadSoFar \in Positions /\ script.lines[ReadSoFar] # "done"
  <2>1. PICK i \in 1..ReadSoFar : TRUE
    BY <1>2, <1>5 DEF Begun
  <2>2. ReadSoFar \in 1..(Last - 1) /\ ReadSoFar \in Positions
    BY <1>2, <2>1
  <2> QED BY <1>1, <2>2, LastFirst
<1> QED BY <1>1, <1>2, <1>3, <1>4, <1>5

\* A blank line after one, with an answer collected: the answer is given.
LEMMA ReceiveSubmitStep == IInv /\ ReceiveSubmit => IInv'
<1> SUFFICES ASSUME IInv, ReceiveSubmit PROVE IInv'
  OBVIOUS
<1> DEFINE r == ReadSoFar
           text == Trimmed(collected)
<1>1. /\ Received /\ Line # "done" /\ Submits /\ Take(FALSE)
      /\ pc = "read" /\ reader = "offer" /\ reader' = "scan"
      /\ UNCHANGED <<script, scenarios, flying, interruptedAt, scanned, round, outVars>>
  BY DEF ReceiveSubmit, Received, Submits
<1>2. /\ r \in Nat /\ scanned = r + 1 /\ r + 1 < Last /\ Count(r) = round /\ round \in Nat
      /\ round < MaxRounds /\ collected = Begun(r, Count(r) + 1)
      /\ collected # {} /\ script.lines[r] = "blank" => r >= 2 /\ script.lines[r - 1] = "text"
      /\ script \in Scripts /\ Len(messages) = 2 * round + 2
  BY <1>1, OnePlain
<1>3. script.lines[r + 1] = "blank" /\ collected # {} /\ script.lines[r] = "blank"
  BY <1>1, <1>2, OnePlain DEF Submits, Line
<1>4. /\ Count(r + 1) = round + 1 /\ Begun(r + 1, Count(r + 1) + 1) = {}
      /\ Texts(round + 1) \subseteq 1..r /\ Texts(round + 1) # {}
  BY <1>2, <1>3, LineOn
<1>5. text = Answer(round + 1) /\ text # {}
  <2>1. r < Last
    BY <1>2, LastFirst, Typed
  <2> QED BY <1>2, <1>4, <2>1, TrimIsAnswer
<1>6. /\ pc' = "answer" /\ messages' = Append(messages, Message("user", Answer(round + 1)))
      /\ collected' = {} /\ prevBlank' = FALSE /\ ended' = FALSE
  BY <1>1, <1>2, <1>5 DEF Take
<1>7. ReadSoFar' = r + 1
  BY <1>1, <1>2 DEF ReadSoFar
<1>8. TypeOK'
  <2>1. messages' \in Seq(Utterances)
    BY <1>1, TakeTyped DEF IInv
  <2> QED BY <1>1, <1>6, <2>1 DEF IInv, TypeOK, Places, Early, outVars
<1>9. Called' /\ Concluded' /\ Stored'
  BY <1>1, <1>2, <1>6, Unchanging DEF IInv, Called, Concluded, Stored, Calling, Early, Late, outVars
<1>10. Reading'
  BY <1>1, <1>2, <1>4, <1>6, <1>7, Unchanging DEF IInv, Reading, Early, Late, Places
<1>11. Spoken' /\ Talked'
  <2>1. Spoken' /\ Len(messages') = 2 * round + 3
    BY <1>1, <1>2, <1>6, AnswerSpoken DEF IInv
  <2> QED BY <1>1, <1>6, <2>1 DEF Talked, Late
<1>12. Counted'
  <2>1. \A k \in 1..round : Texts(k) # {}
    BY <1>1, <1>2, OnePlain DEF IInv, Counted, Early
  <2>2. \A k \in 1..(round + 1) : Texts(k) # {}
    BY <1>2, <1>4, <2>1
  <2> QED BY <1>1, <1>4, <1>6, <1>7, <2>2, Unchanging DEF Counted, Early, Late
<1> QED BY <1>8, <1>9, <1>10, <1>11, <1>12 DEF IInv

\* Another line of the answer.
LEMMA ReceiveLineStep == IInv /\ ReceiveLine => IInv'
<1> SUFFICES ASSUME IInv, ReceiveLine PROVE IInv'
  OBVIOUS
<1> DEFINE r == ReadSoFar
<1>1. /\ Received /\ Line # "done" /\ ~Submits /\ Line = script.lines[scanned]
      /\ pc = "read" /\ reader = "offer" /\ reader' = "scan"
      /\ collected' = IF Line = "text" \/ collected # {} THEN collected \cup {scanned} ELSE collected
      /\ prevBlank' = (Line = "blank" /\ collected # {})
      /\ UNCHANGED <<script, scenarios, pc, flying, interruptedAt, scanned, talkVars, outVars>>
  BY DEF ReceiveLine, Received, Line
<1>2. /\ r \in Nat /\ scanned = r + 1 /\ r + 1 < Last /\ Count(r) = round /\ ~ended
      /\ collected = Begun(r, Count(r) + 1)
      /\ prevBlank <=> collected # {} /\ script.lines[r] = "blank"
      /\ collected # {} /\ script.lines[r] = "blank" => r >= 2 /\ script.lines[r - 1] = "text"
      /\ collected # {} => r \in Positions /\ script.lines[r] # "done"
      /\ script \in Scripts /\ r + 1 \in Positions
  BY <1>1, OnePlain
<1>3. r + 1 \notin SubmitPoints
  BY <1>1, <1>2, LineOn DEF Submits
<1>4. Count(r + 1) = Count(r) /\ collected' = Begun(r + 1, Count(r + 1) + 1)
  BY <1>1, <1>2, <1>3, LineOn
<1>5. ReadSoFar' = r + 1
  BY <1>1, <1>2 DEF ReadSoFar
<1>6. ASSUME Line = "blank", collected' # {}
      PROVE  collected # {} /\ r + 1 >= 2 /\ script.lines[r] = "text"
  <2>1. collected # {} /\ ~prevBlank
    BY <1>1, <1>6 DEF Submits
  <2>2. r \in Positions /\ script.lines[r] \in Kinds /\ r >= 1
    BY <1>2, <2>1, Typed
  <2> QED BY <1>2, <2>1, <2>2 DEF Kinds
<1>7. TypeOK'
  <2>1. collected' \subseteq Nat /\ prevBlank' \in BOOLEAN
    BY <1>1, <1>2 DEF IInv, TypeOK
  <2> QED BY <1>1, <2>1 DEF IInv, TypeOK, talkVars, outVars
<1>8. Called' /\ Concluded' /\ Stored' /\ Talked'
  BY <1>1, Unchanging DEF IInv, Called, Concluded, Stored, Talked, talkVars, outVars
<1>9. Reading'
  <2>1. prevBlank' <=> collected' # {} /\ script.lines[r + 1] = "blank"
    BY <1>1, <1>2, <1>6
  <2>2. collected' # {} /\ script.lines[r + 1] = "blank" =>
          r + 1 >= 2 /\ script.lines[r + 1 - 1] = "text"
    BY <1>1, <1>2, <1>6
  <2> QED BY <1>1, <1>2, <1>4, <1>5, <2>1, <2>2, Unchanging
        DEF IInv, Reading, talkVars, Early, Late, Places
<1>10. Spoken'
  BY <1>1, Unchanging DEF IInv, Spoken, Given, talkVars
<1>11. Counted'
  BY <1>1, <1>4, <1>5, Unchanging DEF IInv, Counted, talkVars, Early, Late
<1> QED BY <1>7, <1>8, <1>9, <1>10, <1>11 DEF IInv

LEMMA WriteSpecStep == IInv /\ WriteSpec => IInv'
<1> SUFFICES ASSUME IInv, WriteSpec PROVE IInv'
  OBVIOUS
<1>1. pc = "write" /\ pc' \in {"scenarios", "done"}
  BY DEF WriteSpec
<1>2. Reading' /\ Spoken' /\ Talked' /\ Counted'
  BY <1>1, Quiet DEF WriteSpec, Late
<1>3. TypeOK'
  BY DEF IInv, TypeOK, WriteSpec, Places, Late, inputVars, talkVars
<1>4. disk = {} /\ ~spec /\ ~flying
  BY <1>1 DEF IInv, Stored, Called, Late, Calling
<1>5. Called' /\ Concluded' /\ Stored'
  BY <1>4, Unchanging DEF IInv, TypeOK, Called, Concluded, Stored, WriteSpec, Early, Late,
       inputVars, talkVars
<1> QED BY <1>2, <1>3, <1>5 DEF IInv

\* The files of an answer are kept by name, those that load and may be written.
LEMMA ScenariosGeneratedStep == IInv /\ ScenariosGenerated => IInv'
<1> SUFFICES ASSUME IInv, ScenariosGenerated PROVE IInv'
  OBVIOUS
<1>1. /\ pc = "scenarios" /\ flying' = FALSE
      /\ pc' = IF DOMAIN kept' = {} THEN "failed" ELSE "store"
      /\ UNCHANGED <<script, scenarios, interruptedAt, inputVars, talkVars, spec, disk>>
  BY DEF ScenariosGenerated
<1>2. \A n \in DOMAIN kept' : kept'[n].name = n /\ kept'[n].loads /\ n \notin UnsafeNames
  <2>1. PICK draft \in Drafts : \E files \in [{f.name : f \in Usable(draft)} -> Usable(draft)] :
               (\A n \in DOMAIN files : files[n].name = n) /\ kept' = files
    BY DEF ScenariosGenerated
  <2>2. \A n \in DOMAIN kept' : kept'[n] \in Usable(draft) /\ kept'[n].name = n
    BY <2>1
  <2> QED BY <2>2 DEF Usable
<1>3. Reading' /\ Spoken' /\ Talked' /\ Counted'
  BY <1>1, Quiet DEF Late
<1>4. TypeOK'
  BY <1>1 DEF IInv, TypeOK, Places, Late, inputVars, talkVars
<1>5. Called' /\ Concluded'
  BY <1>1, Unchanging DEF IInv, Called, Concluded, Calling, Early, Late, inputVars,
       talkVars
<1>6. Stored'
  BY <1>1, <1>2 DEF IInv, Stored, Late
<1> QED BY <1>3, <1>4, <1>5, <1>6 DEF IInv

LEMMA StoreScenarioStep == IInv /\ StoreScenario => IInv'
<1> SUFFICES ASSUME IInv, StoreScenario PROVE IInv'
  OBVIOUS
<1>1. /\ pc = "store" /\ spec
      /\ UNCHANGED <<script, scenarios, flying, interruptedAt, inputVars, talkVars, spec, kept>>
  BY DEF StoreScenario, IInv, Stored
<1>2. PICK n \in DOMAIN kept :
        /\ disk' = disk \cup {kept[n]}
        /\ pc' = IF \A m \in DOMAIN kept : kept[m] \in disk' THEN "done" ELSE "store"
  BY DEF StoreScenario
<1>3. Reading' /\ Spoken' /\ Talked' /\ Counted'
  BY <1>1, <1>2, Quiet DEF Late
<1>4. TypeOK' /\ ~flying
  BY <1>1, <1>2 DEF IInv, TypeOK, Called, Calling, Places, Late, inputVars, talkVars
<1>5. Called' /\ Concluded'
  BY <1>1, <1>2, <1>4, Unchanging DEF IInv, Called, Concluded, Calling, Early, Late, inputVars,
       talkVars
<1>6. Stored'
  <2>1. disk' \subseteq {kept[m] : m \in DOMAIN kept} /\ disk' # {}
    BY <1>2 DEF IInv, Stored
  <2>2. pc' = "done" => disk' = {kept[m] : m \in DOMAIN kept}
    BY <1>2, <2>1
  <2>3. pc' \in {"store", "done"} /\ (pc' = "done" => disk' = {kept[m] : m \in DOMAIN kept}')
    BY <1>1, <1>2, <2>2
  <2> QED BY <1>1, <2>1, <2>3 DEF IInv, Stored, Late
<1> QED BY <1>3, <1>4, <1>5, <1>6 DEF IInv

LEMMA StutterStep == IInv /\ UNCHANGED vars => IInv'
<1> SUFFICES ASSUME IInv, UNCHANGED vars PROVE IInv'
  OBVIOUS
<1>1. Reading' /\ Spoken' /\ Talked' /\ Counted'
  BY Quiet DEF vars
<1>2. TypeOK' /\ Called' /\ Concluded' /\ Stored'
  BY Unchanging DEF IInv, TypeOK, Called, Concluded, Stored, vars, inputVars, talkVars, outVars
<1> QED BY <1>1, <1>2 DEF IInv

LEMMA StepInv == IInv /\ [Next]_vars => IInv'
BY AskStep, FailureStep, OpenedStep, AnsweredStep, SpecGeneratedStep, ReceiveDoneStep,
   ReceiveSubmitStep, ReceiveLineStep, ReceiveEOFStep, WriteSpecStep, ScenariosGeneratedStep,
   StoreScenarioStep, ReaderStep, InterruptStep, StutterStep
   DEF Next, Converse, Terminating

LEMMA Invariant == Spec => []IInv
BY InitInv, StepInv, PTL DEF Spec

-----------------------------------------------------------------------------

\* Whatever is typed, however the scanner, the loop and the interrupt take turns:
\* the messages alternate, the k-th answer is the k-th group of lines between
\* pairs of blank ones, trimmed but whole, and none is missing when the spec is
\* asked for but those after the last round (readMessage, processAnswer and run).
THEOREM Transcribes == Spec => []TranscriptIsTyped
<1>1. IInv => TranscriptIsTyped
  <2> SUFFICES ASSUME IInv PROVE TranscriptIsTyped
    OBVIOUS
  <2>1. round \in Nat /\ MaxRounds \in Nat /\ round <= MaxRounds
    BY InterviewAssumption DEF IInv, TypeOK
  <2>2. ASSUME pc \in Calling
        PROVE  Len(messages) % 2 = IF pc \in {"open", "answer"} THEN 1 ELSE 0
    <3>1. /\ 1 % 2 = 1 /\ (2 * round + 2) % 2 = 0 /\ (2 * round + 3) % 2 = 1
      BY <2>1
    <3> QED BY <2>2, <3>1 DEF IInv, Talked, Calling, Late
  <2>3. ASSUME pc \in {"final", "write", "scenarios", "store", "done"}
        PROVE  Cardinality(Given) = 1 + (IF AnswersTyped < MaxRounds THEN AnswersTyped ELSE MaxRounds)
    <3>1. Cardinality(Given) = round + 1
      <4>1. (2 * round + 3) \div 2 = round + 1
        BY <2>1
      <4> QED BY <2>1, <2>3, <4>1 DEF IInv, Spoken, Talked, Late
    <3>2. IF ended THEN AnswersTyped = round ELSE AnswersTyped >= MaxRounds /\ round = MaxRounds
      BY <2>3 DEF IInv, Counted, Concluded, Late
    <3>3. AnswersTyped \in Nat
      <4>1. IsFiniteSet(1..(Cardinality(SubmitPoints) + 1))
        BY Counting, FS_Interval DEF IInv, TypeOK
      <4>2. {k \in 1..(Cardinality(SubmitPoints) + 1) : Texts(k) # {}}
              \subseteq 1..(Cardinality(SubmitPoints) + 1)
        OBVIOUS
      <4> QED BY <4>1, <4>2, FS_Subset, FS_CardinalityType DEF AnswersTyped
    <3> QED BY <2>1, <3>1, <3>2, <3>3
  <2> QED BY <2>2, <2>3 DEF IInv, Spoken, TranscriptIsTyped
<1> QED BY <1>1, Invariant, PTL

\* A spec is written only for a finished interview, scenarios only beside it, each
\* loadable and under a name of its own, and success means that all are there
\* (interviewRun and Generate), whatever the LLM drafts and whenever it is interrupted.
THEOREM WritesWhole == Spec => []WrittenIsWhole
<1>1. IInv => WrittenIsWhole
  <2> SUFFICES ASSUME IInv PROVE WrittenIsWhole
    OBVIOUS
  <2>1. spec => /\ interruptedAt \notin {"open", "read", "answer"}
                /\ ended \/ round = MaxRounds
                /\ reader = "closed" => script.end = "eof" \/ round = MaxRounds \/ scanned >= Last
    BY DEF IInv, Called, Concluded, Early
  <2>2. \A f \in disk : \E n \in DOMAIN kept : f = kept[n]
    BY DEF IInv, Stored
  <2>3. /\ \A f \in disk : f.loads /\ f.name \notin UnsafeNames
        /\ \A f, g \in disk : f.name = g.name => f = g
    BY <2>2 DEF IInv, Stored
  <2>4. disk # {} => spec
    BY DEF IInv, Stored
  <2>5. pc = "done" => spec /\ (scenarios => disk # {} /\ disk = {kept[n] : n \in DOMAIN kept})
    BY DEF IInv, Stored
  <2> QED BY <2>1, <2>3, <2>4, <2>5 DEF WrittenIsWhole
<1> QED BY <1>1, Invariant, PTL
=============================================================================
