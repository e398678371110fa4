---------------------------- MODULE RecordingProofs ----------------------------
(***************************************************************************)
(* Proofs of what a recording promises.                                    *)
(***************************************************************************)
EXTENDS RecordingProps, FiniteSetTheorems, SequenceTheorems, TLAPS

\* A handler that is called after its channel was closed is excused (SafeEnd).
LateCalls ==
    \A r \in Range(todo) : Closed(r) /\ Takes(r, frame) => r \in aborted \/ Shares(r)

Excused == panicked # None => panicked \in aborted \/ Shares(panicked)

\* The inductive invariant.
IInv == Inv /\ LateCalls /\ Excused

\* What is on its way to the read loop.
Stream == Seq(Frame \cup Answer)

-----------------------------------------------------------------------------
(* Sequences                                                                 *)

\* b is what is left of q when some elements are taken out.
Part(b, q) ==
    \E at \in [DOMAIN b -> DOMAIN q] :
        /\ \A i \in DOMAIN b : b[i] = q[at[i]]
        /\ \A i, j \in DOMAIN b : i < j => at[i] < at[j]

\* What is left of a sequence when one element is taken out: the others, in order.
LEMMA RemoveAtFacts ==
    ASSUME NEW S, NEW s \in Seq(S), NEW i \in DOMAIN s
    PROVE  /\ RemoveAt(s, i) \in Seq(S)
           /\ Len(RemoveAt(s, i)) = Len(s) - 1
           /\ \A j \in 1..(Len(s) - 1) :
                RemoveAt(s, i)[j] = IF j < i THEN s[j] ELSE s[j + 1]
<1>1. i \in 1..Len(s) /\ Len(s) \in Nat
  OBVIOUS
<1> DEFINE a == SubSeq(s, 1, i - 1)
           b == SubSeq(s, i + 1, Len(s))
<1>2. a \in Seq(S) /\ Len(a) = i - 1 /\ \A j \in 1..(i - 1) : a[j] = s[j]
  BY <1>1
<1>3. b \in Seq(S) /\ Len(b) = Len(s) - i /\ \A j \in 1..(Len(s) - i) : b[j] = s[i + j]
  BY <1>1
<1>4. RemoveAt(s, i) = a \o b
  BY DEF RemoveAt
<1> HIDE DEF a, b
<1>5. /\ a \o b \in Seq(S) /\ Len(a \o b) = Len(s) - 1
      /\ \A j \in 1..(Len(s) - 1) : (a \o b)[j] = IF j < i THEN s[j] ELSE s[j + 1]
  <2>1. /\ a \o b \in Seq(S) /\ Len(a \o b) = Len(a) + Len(b)
        /\ \A j \in 1..(Len(a) + Len(b)) :
             (a \o b)[j] = IF j <= Len(a) THEN a[j] ELSE b[j - Len(a)]
    BY <1>2, <1>3, ConcatProperties
  <2>2. Len(a) = i - 1 /\ Len(b) = Len(s) - i /\ Len(a) + Len(b) = Len(s) - 1
    BY <1>1, <1>2, <1>3
  <2>3. ASSUME NEW j \in 1..(Len(s) - 1)
        PROVE  (a \o b)[j] = IF j < i THEN s[j] ELSE s[j + 1]
    <3>1. CASE j < i
      <4>1. j \in 1..(i - 1) /\ j <= Len(a)
        BY <1>1, <2>2, <3>1
      <4>. QED BY <1>2, <2>1, <2>2, <3>1, <4>1
    <3>2. CASE ~(j < i)
      <4>1. /\ ~(j <= Len(a)) /\ j - Len(a) \in 1..(Len(s) - i)
            /\ i + (j - Len(a)) = j + 1
        <5>1. i \in Nat /\ Len(s) \in Nat /\ j \in Nat /\ i <= j /\ j <= Len(s) - 1
          BY <1>1, <3>2
        <5>2. /\ ~(j <= i - 1) /\ j - (i - 1) \in 1..(Len(s) - i)
              /\ i + (j - (i - 1)) = j + 1
          BY <5>1
        <5>3. Len(a) = i - 1
          BY <2>2
        <5> HIDE DEF a
        <5>. QED BY <5>2, <5>3
      <4>2. (a \o b)[j] = b[j - Len(a)]
        BY <2>1, <2>2, <4>1
      <4>3. b[j - Len(a)] = s[i + (j - Len(a))]
        BY <1>3, <4>1
      <4>. QED BY <3>2, <4>1, <4>2, <4>3
    <3>. QED BY <3>1, <3>2
  <2>. QED BY <2>1, <2>2, <2>3
<1>. QED BY <1>4, <1>5

\* So it is a part, and lacks that element only.
LEMMA RemoveAtPart ==
    ASSUME NEW S, NEW q \in Seq(S), NEW i \in DOMAIN q
    PROVE  /\ Part(RemoveAt(q, i), q)
           /\ Range(q) = Range(RemoveAt(q, i)) \cup {q[i]}
           /\ \A j \in DOMAIN RemoveAt(q, i) : \E k \in DOMAIN q :
                k # i /\ RemoveAt(q, i)[j] = q[k]
<1> DEFINE b == RemoveAt(q, i)
           n == Len(q)
<1>1. /\ n \in Nat \ {0} /\ i \in 1..n /\ DOMAIN q = 1..n
      /\ b \in Seq(S) /\ Len(b) = n - 1
      /\ \A j \in 1..(n - 1) : b[j] = IF j < i THEN q[j] ELSE q[j + 1]
  <2>1. /\ b \in Seq(S) /\ Len(b) = n - 1
        /\ \A j \in 1..(n - 1) : b[j] = IF j < i THEN q[j] ELSE q[j + 1]
    BY RemoveAtFacts
  <2>2. n \in Nat \ {0} /\ i \in 1..n /\ DOMAIN q = 1..n
    OBVIOUS
  <2>. QED BY <2>1, <2>2
<1> HIDE DEF b, n
<1>2. DOMAIN b = 1..(n - 1)
  <2>1. DOMAIN b = 1..Len(b)
    BY <1>1
  <2>. QED BY <1>1, <2>1
<1> DEFINE at == [j \in 1..(n - 1) |-> IF j < i THEN j ELSE j + 1]
<1>3. \A j \in 1..(n - 1) : at[j] \in 1..n /\ at[j] # i /\ b[j] = q[at[j]]
  BY <1>1
<1>4. \A j, k \in 1..(n - 1) : j < k => at[j] < at[k]
  BY <1>1
<1>5. at \in [DOMAIN b -> DOMAIN q]
  BY <1>1, <1>2
<1> HIDE DEF at
<1>6. Part(b, q)
  BY <1>2, <1>3, <1>4, <1>5 DEF Part
<1>7. \A j \in DOMAIN b : \E k \in DOMAIN q : k # i /\ b[j] = q[k]
  BY <1>1, <1>2, <1>3
<1>8. Range(b) \cup {q[i]} \subseteq Range(q)
  BY <1>1, <1>7 DEF Range
<1>9. ASSUME NEW k \in 1..n, k # i
      PROVE  q[k] \in Range(b)
  <2>1. CASE k < i
    <3>1. k \in DOMAIN b /\ b[k] = q[k]
      BY <1>1, <1>2, <2>1
    <3>. QED BY <3>1 DEF Range
  <2>2. CASE k > i
    <3>1. k - 1 \in DOMAIN b /\ b[k - 1] = q[(k - 1) + 1]
      BY <1>1, <1>2, <2>2
    <3>2. (k - 1) + 1 = k
      OBVIOUS
    <3>. QED BY <3>1, <3>2 DEF Range
  <2>. QED BY <1>1, <1>9, <2>1, <2>2
<1>10. Range(q) \subseteq Range(b) \cup {q[i]}
  BY <1>1, <1>9 DEF Range
<1>. QED BY <1>6, <1>7, <1>8, <1>10 DEF b

\* An element that occurs once is gone.
LEMMA WithoutFacts ==
    ASSUME NEW S, NEW q \in Seq(S), IsInjective(q), NEW i \in DOMAIN q
    PROVE  /\ RemoveAt(q, i) \in Seq(S) /\ IsInjective(RemoveAt(q, i))
           /\ Range(RemoveAt(q, i)) = Range(q) \ {q[i]}
<1> DEFINE b == RemoveAt(q, i)
<1>1. /\ b \in Seq(S) /\ Part(b, q) /\ Range(q) = Range(b) \cup {q[i]}
      /\ \A j \in DOMAIN b : \E k \in DOMAIN q : k # i /\ b[j] = q[k]
  BY RemoveAtFacts, RemoveAtPart
<1> HIDE DEF b
<1>2. q[i] \notin Range(b)
  BY <1>1 DEF Range, IsInjective
<1>3. IsInjective(b)
  <2>1. PICK at \in [DOMAIN b -> DOMAIN q] :
          /\ \A j \in DOMAIN b : b[j] = q[at[j]]
          /\ \A j, k \in DOMAIN b : j < k => at[j] < at[k]
    BY <1>1 DEF Part
  <2> SUFFICES ASSUME NEW j \in DOMAIN b, NEW k \in DOMAIN b, b[j] = b[k]
               PROVE  j = k
    BY DEF IsInjective
  <2>2. at[j] = at[k] /\ at[j] \in Nat
    BY <2>1 DEF IsInjective
  <2>3. j \in Nat /\ k \in Nat
    BY <1>1
  <2>4. ~(j < k) /\ ~(k < j)
    BY <2>1, <2>2
  <2>. QED BY <2>3, <2>4
<1>. QED BY <1>1, <1>2, <1>3 DEF b

\* A new element comes last.
LEMMA AppendFacts ==
    ASSUME NEW S, NEW q \in Seq(S), NEW s \in S
    PROVE  /\ Append(q, s) \in Seq(S) /\ Range(Append(q, s)) = Range(q) \cup {s}
           /\ Len(q) \in Nat /\ DOMAIN q = 1..Len(q)
           /\ DOMAIN Append(q, s) = 1..(Len(q) + 1)
           /\ Append(q, s)[Len(q) + 1] = s /\ \A i \in 1..Len(q) : Append(q, s)[i] = q[i]
           /\ IsInjective(q) /\ s \notin Range(q) => IsInjective(Append(q, s))
<1> DEFINE r == Append(q, s)
<1>1. /\ r \in Seq(S) /\ Len(r) = Len(q) + 1 /\ Len(q) \in Nat /\ r[Len(q) + 1] = s
      /\ \A i \in 1..Len(q) : r[i] = q[i]
  BY AppendProperties
<1>2. DOMAIN q = 1..Len(q) /\ DOMAIN r = 1..(Len(q) + 1)
  OBVIOUS
<1> HIDE DEF r
<1>3. Range(r) = Range(q) \cup {s}
  <2>1. ASSUME NEW x \in Range(r) PROVE x \in Range(q) \cup {s}
    BY <1>1, <1>2 DEF Range
  <2>2. ASSUME NEW x \in Range(q) \cup {s} PROVE x \in Range(r)
    <3>1. CASE x = s
      BY <1>1, <1>2, <3>1 DEF Range
    <3>2. CASE x \in Range(q)
      BY <1>1, <1>2, <3>2 DEF Range
    <3>. QED BY <3>1, <3>2
  <2>. QED BY <2>1, <2>2
<1>4. IsInjective(q) /\ s \notin Range(q) => IsInjective(r)
  BY <1>1, <1>2 DEF IsInjective, Range
<1>. QED BY <1>1, <1>2, <1>3, <1>4 DEF r

\* The first element, and what is left.
LEMMA TailFacts ==
    ASSUME NEW S, NEW q \in Seq(S), q # <<>>
    PROVE  /\ Head(q) = q[1] /\ Head(q) \in S /\ Tail(q) \in Seq(S)
           /\ Len(q) \in Nat \ {0} /\ Len(Tail(q)) = Len(q) - 1
           /\ DOMAIN q = 1..Len(q) /\ DOMAIN Tail(q) = 1..(Len(q) - 1)
           /\ \A i \in 1..(Len(q) - 1) : Tail(q)[i] = q[i + 1]
           /\ Part(Tail(q), q) /\ Range(q) = Range(Tail(q)) \cup {Head(q)}
           /\ IsInjective(q) => IsInjective(Tail(q)) /\ Range(Tail(q)) = Range(q) \ {Head(q)}
<1> DEFINE t == Tail(q)
           n == Len(q)
<1>1. /\ Head(q) = q[1] /\ Head(q) \in S /\ t \in Seq(S) /\ n \in Nat \ {0}
      /\ Len(t) = n - 1 /\ \A i \in 1..(n - 1) : t[i] = q[i + 1]
  BY HeadTailProperties
<1>2. DOMAIN q = 1..n /\ DOMAIN t = 1..(n - 1)
  BY <1>1
<1> HIDE DEF t, n
<1> DEFINE at == [i \in 1..(n - 1) |-> i + 1]
<1>3. /\ at \in [DOMAIN t -> DOMAIN q] /\ \A i \in DOMAIN t : t[i] = q[at[i]]
      /\ \A i, j \in DOMAIN t : i < j => at[i] < at[j]
  BY <1>1, <1>2
<1> HIDE DEF at
<1>4. Part(t, q)
  BY <1>3 DEF Part
<1>5. Range(q) = Range(t) \cup {Head(q)}
  <2>1. ASSUME NEW x \in Range(t) \cup {Head(q)} PROVE x \in Range(q)
    <3>1. CASE x = Head(q)
      BY <1>1, <1>2, <3>1 DEF Range
    <3>2. CASE x \in Range(t)
      BY <1>1, <1>2, <1>3, <3>2 DEF Range
    <3>. QED BY <3>1, <3>2
  <2>2. ASSUME NEW x \in Range(q) PROVE x \in Range(t) \cup {Head(q)}
    <3>1. PICK i \in 1..n : x = q[i]
      BY <1>2, <2>2 DEF Range
    <3>2. CASE i = 1
      BY <1>1, <3>1, <3>2
    <3>3. CASE i # 1
      <4>1. i - 1 \in 1..(n - 1) /\ t[i - 1] = q[(i - 1) + 1]
        BY <1>1, <3>1, <3>3
      <4>. QED BY <1>2, <3>1, <4>1 DEF Range
    <3>. QED BY <3>2, <3>3
  <2>. QED BY <2>1, <2>2
<1>6. ASSUME IsInjective(q)
      PROVE  IsInjective(t) /\ Range(t) = Range(q) \ {Head(q)}
  <2>1. ASSUME NEW j \in DOMAIN t, NEW k \in DOMAIN t, t[j] = t[k]
        PROVE  j = k
    <3>1. j + 1 \in DOMAIN q /\ k + 1 \in DOMAIN q /\ q[j + 1] = t[j] /\ q[k + 1] = t[k]
      BY <1>1, <1>2
    <3>2. j + 1 = k + 1
      BY <1>6, <2>1, <3>1 DEF IsInjective
    <3>. QED BY <1>2, <3>2
  <2>2. Head(q) \notin Range(t)
    <3> SUFFICES ASSUME NEW i \in DOMAIN t, t[i] = q[1]
                 PROVE  FALSE
      BY <1>1 DEF Range
    <3>1. i + 1 \in DOMAIN q /\ i + 1 # 1 /\ 1 \in DOMAIN q /\ q[i + 1] = q[1]
      BY <1>1, <1>2
    <3>. QED BY <1>6, <3>1 DEF IsInjective
  <2>. QED BY <1>5, <2>1, <2>2 DEF IsInjective
<1>. QED BY <1>1, <1>2, <1>4, <1>5, <1>6 DEF t, n

-----------------------------------------------------------------------------
(* The messages on their way                                                 *)

\* There is an answer to r among the messages q.
Answering(q, r) == \E a \in AnswersIn(q) : a.by = r

\* A message is a frame or an answer.
LEMMA MessageFacts ==
    /\ \A m \in Frame \cup Answer : (m.is = "frame" <=> m \in Frame) /\ (m.is = "answer" <=> m \in Answer)
    /\ \A f \in Frame : f.n \in Nat /\ f.cast \in Recordings /\ f.session \in Sessions
    /\ \A a \in Answer : a.by \in Recordings /\ a.op \in Waits /\ a.ok \in BOOLEAN
    /\ \A r \in Recordings, op \in Waits, ok \in BOOLEAN :
          /\ AnswerTo(r, op, ok) \in Answer /\ AnswerTo(r, op, ok).by = r
          /\ AnswerTo(r, op, ok).op = op /\ AnswerTo(r, op, ok).ok = ok
    /\ MaxFrames \in Nat
<1>1. MaxFrames \in Nat
  BY RecordingAssumption
<1>2. /\ \A m \in Frame \cup Answer : (m.is = "frame" <=> m \in Frame) /\ (m.is = "answer" <=> m \in Answer)
      /\ \A f \in Frame : f.n \in Nat /\ f.cast \in Recordings /\ f.session \in Sessions
      /\ \A a \in Answer : a.by \in Recordings /\ a.op \in Waits /\ a.ok \in BOOLEAN
  BY <1>1 DEF Frame, Answer
<1>3. \A r \in Recordings, op \in Waits, ok \in BOOLEAN :
        /\ AnswerTo(r, op, ok) \in Answer /\ AnswerTo(r, op, ok).by = r
        /\ AnswerTo(r, op, ok).op = op /\ AnswerTo(r, op, ok).ok = ok
  BY DEF AnswerTo, Answer
<1>. QED BY <1>1, <1>2, <1>3

\* The frames and the answers of a stream are what its name says.
LEMMA StreamFacts ==
    ASSUME NEW q \in Stream
    PROVE  /\ Range(q) \subseteq Frame \cup Answer
           /\ FramesIn(q) \subseteq Frame /\ AnswersIn(q) \subseteq Answer
           /\ \A i \in DOMAIN q : /\ q[i] \in Frame \cup Answer
                                  /\ q[i].is = "frame" <=> q[i] \in FramesIn(q)
                                  /\ q[i].is = "answer" <=> q[i] \in AnswersIn(q)
<1>1. \A i \in DOMAIN q : q[i] \in Frame \cup Answer
  BY DEF Stream
<1>2. Range(q) \subseteq Frame \cup Answer
  BY <1>1 DEF Range
<1>3. FramesIn(q) \subseteq Frame /\ AnswersIn(q) \subseteq Answer
  BY <1>2, MessageFacts DEF FramesIn, AnswersIn
<1>4. \A i \in DOMAIN q : /\ q[i].is = "frame" <=> q[i] \in FramesIn(q)
                          /\ q[i].is = "answer" <=> q[i] \in AnswersIn(q)
  BY DEF Range, FramesIn, AnswersIn
<1>. QED BY <1>1, <1>2, <1>3, <1>4

\* A stream is a part of itself.
LEMMA PartOfItself ==
    ASSUME NEW q \in Stream PROVE Part(q, q)
<1> DEFINE at == [i \in DOMAIN q |-> i]
<1>1. /\ at \in [DOMAIN q -> DOMAIN q] /\ \A i \in DOMAIN q : q[i] = q[at[i]]
      /\ \A i, j \in DOMAIN q : i < j => at[i] < at[j]
  OBVIOUS
<1> HIDE DEF at
<1>. QED BY <1>1 DEF Part

\* What holds of the order of the messages holds of a part of them.
LEMMA PartKeeps ==
    ASSUME NEW q \in Stream, NEW b \in Stream, Part(b, q),
           InOrder(q), OneAnswerEach(q), EndsLast(q)
    PROVE  /\ InOrder(b) /\ OneAnswerEach(b) /\ EndsLast(b)
           /\ FramesIn(b) \subseteq FramesIn(q) /\ AnswersIn(b) \subseteq AnswersIn(q)
<1>1. PICK at \in [DOMAIN b -> DOMAIN q] :
        /\ \A i \in DOMAIN b : b[i] = q[at[i]]
        /\ \A i, j \in DOMAIN b : i < j => at[i] < at[j]
  BY DEF Part
<1>2. /\ \A i \in DOMAIN b : at[i] \in DOMAIN q /\ at[i] \in Nat /\ i \in Nat
  BY DEF Stream
<1>3. \A i, j \in DOMAIN b : (at[i] = at[j] => i = j) /\ (at[i] < at[j] => i < j)
  <2> SUFFICES ASSUME NEW i \in DOMAIN b, NEW j \in DOMAIN b
               PROVE  (at[i] = at[j] => i = j) /\ (at[i] < at[j] => i < j)
    OBVIOUS
  <2>1. /\ i < j => at[i] < at[j]
        /\ j < i => at[j] < at[i]
    BY <1>1
  <2>. QED BY <1>2, <2>1
<1>4. InOrder(b)
  BY <1>1, <1>2 DEF InOrder
<1>5. OneAnswerEach(b)
  BY <1>1, <1>2, <1>3 DEF OneAnswerEach
<1>6. EndsLast(b)
  BY <1>1, <1>2, <1>3 DEF EndsLast
<1>7. Range(b) \subseteq Range(q)
  BY <1>1, <1>2 DEF Range
<1>. QED BY <1>4, <1>5, <1>6, <1>7 DEF FramesIn, AnswersIn

\* An answer may come last: of a recording that has none among them; when it ends a
\* screencast it is that of a stop, or there are no frames of the recording.
LEMMA AppendAnswerKeeps ==
    ASSUME NEW b \in Stream, InOrder(b), OneAnswerEach(b), EndsLast(b),
           NEW a \in Answer, ~Answering(b, a.by),
           Ended(a) /\ a.op = "start" => \A f \in FramesIn(b) : f.cast # a.by
    PROVE  LET q == Append(b, a) IN
           /\ q \in Stream /\ InOrder(q) /\ OneAnswerEach(q) /\ EndsLast(q)
           /\ FramesIn(q) = FramesIn(b) /\ AnswersIn(q) = AnswersIn(b) \cup {a}
<1> DEFINE q == Append(b, a)
<1> SUFFICES /\ q \in Stream /\ InOrder(q) /\ OneAnswerEach(q) /\ EndsLast(q)
             /\ FramesIn(q) = FramesIn(b) /\ AnswersIn(q) = AnswersIn(b) \cup {a}
  OBVIOUS
<1>1. /\ q \in Stream /\ Range(q) = Range(b) \cup {a} /\ Len(b) \in Nat /\ DOMAIN b = 1..Len(b)
      /\ DOMAIN q = 1..(Len(b) + 1) /\ q[Len(b) + 1] = a /\ \A i \in 1..Len(b) : q[i] = b[i]
  BY AppendFacts DEF Stream
<1> DEFINE n == Len(b)
<1> HIDE DEF q, n
<1>2. /\ DOMAIN q = 1..(n + 1) /\ DOMAIN b = 1..n /\ n \in Nat
      /\ q[n + 1] = a /\ \A i \in 1..n : q[i] = b[i]
  BY <1>1 DEF n
<1>3. a.is = "answer" /\ a.is # "frame"
  BY MessageFacts
<1>4. FramesIn(q) = FramesIn(b) /\ AnswersIn(q) = AnswersIn(b) \cup {a}
  BY <1>1, <1>3 DEF FramesIn, AnswersIn
<1>5. \A i \in 1..(n + 1) : i \in 1..n \/ i = n + 1
  BY <1>2
<1>6. InOrder(q)
  <2> SUFFICES ASSUME NEW i \in 1..(n + 1), NEW j \in 1..(n + 1), i < j,
                      q[i].is = "frame", q[j].is = "frame"
               PROVE  q[i].n < q[j].n
    BY <1>2 DEF InOrder
  <2>1. i \in 1..n /\ j \in 1..n
    BY <1>2, <1>3, <1>5
  <2>. QED BY <1>2, <2>1 DEF InOrder
<1>7. \A j \in 1..n : q[j].is = "answer" => q[j].by # a.by
  BY <1>2, StreamFacts DEF Answering
<1>8. OneAnswerEach(q)
  <2> SUFFICES ASSUME NEW i \in 1..(n + 1), NEW j \in 1..(n + 1),
                      q[i].is = "answer", q[j].is = "answer", q[i].by = q[j].by
               PROVE  i = j
    BY <1>2 DEF OneAnswerEach
  <2>1. CASE i \in 1..n /\ j \in 1..n
    BY <1>2, <2>1 DEF OneAnswerEach
  <2>2. CASE i = n + 1 \/ j = n + 1
    BY <1>2, <1>5, <1>7, <2>2
  <2>. QED BY <1>5, <2>1, <2>2
<1>9. EndsLast(q)
  <2> SUFFICES ASSUME NEW i \in 1..(n + 1), NEW j \in 1..(n + 1), q[i].is = "frame",
                      q[j].is = "answer", q[j].by = q[i].cast, Ended(q[j])
               PROVE  q[j].op = "stop" /\ i < j
    BY <1>2 DEF EndsLast
  <2>1. i \in 1..n
    BY <1>2, <1>3, <1>5
  <2>2. CASE j \in 1..n
    BY <1>2, <2>1, <2>2 DEF EndsLast
  <2>3. CASE j = n + 1
    <3>1. q[i] \in FramesIn(b)
      BY <1>2, <2>1, StreamFacts
    <3>2. a.op # "start"
      BY <1>2, <2>3, <3>1
    <3>. QED BY <1>2, <2>1, <2>3, <3>2 DEF Ended
  <2>. QED BY <1>5, <2>2, <2>3
<1>. QED BY <1>1, <1>4, <1>6, <1>8, <1>9

\* A frame may come last: if it is the newest and its screencast has not ended.
LEMMA AppendFrameKeeps ==
    ASSUME NEW b \in Stream, InOrder(b), OneAnswerEach(b), EndsLast(b),
           NEW f \in Frame, \A g \in FramesIn(b) : g.n < f.n,
           \A a \in AnswersIn(b) : a.by = f.cast => ~Ended(a)
    PROVE  LET q == Append(b, f) IN
           /\ q \in Stream /\ InOrder(q) /\ OneAnswerEach(q) /\ EndsLast(q)
           /\ FramesIn(q) = FramesIn(b) \cup {f} /\ AnswersIn(q) = AnswersIn(b)
<1> DEFINE q == Append(b, f)
<1> SUFFICES /\ q \in Stream /\ InOrder(q) /\ OneAnswerEach(q) /\ EndsLast(q)
             /\ FramesIn(q) = FramesIn(b) \cup {f} /\ AnswersIn(q) = AnswersIn(b)
  OBVIOUS
<1>1. /\ q \in Stream /\ Range(q) = Range(b) \cup {f} /\ Len(b) \in Nat /\ DOMAIN b = 1..Len(b)
      /\ DOMAIN q = 1..(Len(b) + 1) /\ q[Len(b) + 1] = f /\ \A i \in 1..Len(b) : q[i] = b[i]
  BY AppendFacts DEF Stream
<1> DEFINE n == Len(b)
<1> HIDE DEF q, n
<1>2. /\ DOMAIN q = 1..(n + 1) /\ DOMAIN b = 1..n /\ n \in Nat
      /\ q[n + 1] = f /\ \A i \in 1..n : q[i] = b[i]
  BY <1>1 DEF n
<1>3. f.is = "frame" /\ f.is # "answer"
  BY MessageFacts
<1>4. FramesIn(q) = FramesIn(b) \cup {f} /\ AnswersIn(q) = AnswersIn(b)
  BY <1>1, <1>3 DEF FramesIn, AnswersIn
<1>5. \A i \in 1..(n + 1) : i \in 1..n \/ i = n + 1
  BY <1>2
<1>6. InOrder(q)
  <2> SUFFICES ASSUME NEW i \in 1..(n + 1), NEW j \in 1..(n + 1), i < j,
                      q[i].is = "frame", q[j].is = "frame"
               PROVE  q[i].n < q[j].n
    BY <1>2 DEF InOrder
  <2>1. i \in 1..n
    BY <1>2, <1>5
  <2>2. CASE j \in 1..n
    BY <1>2, <2>1, <2>2 DEF InOrder
  <2>3. CASE j = n + 1
    BY <1>2, <2>1, <2>3, StreamFacts
  <2>. QED BY <1>5, <2>2, <2>3
<1>7. OneAnswerEach(q)
  <2> SUFFICES ASSUME NEW i \in 1..(n + 1), NEW j \in 1..(n + 1),
                      q[i].is = "answer", q[j].is = "answer", q[i].by = q[j].by
               PROVE  i = j
    BY <1>2 DEF OneAnswerEach
  <2>1. i \in 1..n /\ j \in 1..n
    BY <1>2, <1>3, <1>5
  <2>. QED BY <1>2, <2>1 DEF OneAnswerEach
<1>8. EndsLast(q)
  <2> SUFFICES ASSUME NEW i \in 1..(n + 1), NEW j \in 1..(n + 1), q[i].is = "frame",
                      q[j].is = "answer", q[j].by = q[i].cast, Ended(q[j])
               PROVE  q[j].op = "stop" /\ i < j
    BY <1>2 DEF EndsLast
  <2>1. j \in 1..n
    BY <1>2, <1>3, <1>5
  <2>2. CASE i \in 1..n
    BY <1>2, <2>1, <2>2 DEF EndsLast
  <2>3. CASE i = n + 1
    <3>1. q[j] \in AnswersIn(b)
      BY <1>2, <2>1, StreamFacts
    <3>. QED BY <1>2, <2>3, <3>1
  <2>. QED BY <1>5, <2>2, <2>3
<1>. QED BY <1>1, <1>4, <1>6, <1>7, <1>8

\* b is what is on its way when r waits for nothing any more.
Dropped(b, r) ==
    b \in Stream /\ Part(b, inbox) /\ FramesIn(b) = Frames /\ ~Answering(b, r)

\* Nothing has to go if there is no answer to r.
LEMMA NothingDropped ==
    ASSUME NEW r \in Recordings, TypeOK, Awaited, pc[r] \notin Waits
    PROVE  Dropped(inbox, r)
<1>1. inbox \in Stream
  BY DEF TypeOK, Stream
<1>2. ~Answering(inbox, r)
  <2> SUFFICES ASSUME NEW a \in Answers, a.by = r
               PROVE  FALSE
    BY DEF Answering, Answers
  <2>1. a \in Answer
    BY <1>1, StreamFacts DEF Answers
  <2>. QED BY <2>1, MessageFacts DEF Awaited
<1>. QED BY <1>1, <1>2, PartOfItself DEF Dropped, Frames

\* The answer is read.
LEMMA AnswerDropped ==
    ASSUME NEW r \in Recordings, NEW ok \in BOOLEAN, TypeOK, Awaited, pc[r] \in Waits,
           Answered(r, ok)
    PROVE  Dropped(Tail(inbox), r) /\ AnswerTo(r, pc[r], ok) \in Answers
<1>1. inbox \in Stream /\ inbox # <<>> /\ Head(inbox) = AnswerTo(r, pc[r], ok)
  BY DEF TypeOK, Stream, Answered
<1> DEFINE q == inbox
           t == Tail(inbox)
           a == AnswerTo(r, pc[r], ok)
<1>2. /\ a = q[1] /\ t \in Stream /\ Len(q) \in Nat \ {0} /\ DOMAIN q = 1..Len(q)
      /\ DOMAIN t = 1..(Len(q) - 1) /\ \A i \in 1..(Len(q) - 1) : t[i] = q[i + 1]
      /\ Part(t, q) /\ Range(q) = Range(t) \cup {a}
  BY <1>1, TailFacts DEF Stream
<1>3. a \in Answer /\ a.by = r /\ a.is = "answer" /\ a.is # "frame"
  BY MessageFacts
<1>4. OneAnswerEach(q)
  BY DEF Awaited
<1> HIDE DEF a, q, t
<1>5. FramesIn(t) = FramesIn(q) /\ a \in AnswersIn(q)
  BY <1>2, <1>3 DEF FramesIn, AnswersIn
<1>6. ~Answering(t, r)
  <2> SUFFICES ASSUME NEW i \in 1..(Len(q) - 1), t[i].is = "answer", t[i].by = r
               PROVE  FALSE
    BY <1>2 DEF Answering, AnswersIn, Range
  <2>1. i + 1 \in DOMAIN q /\ 1 \in DOMAIN q /\ i + 1 # 1 /\ q[i + 1] = t[i]
    BY <1>2
  <2>. QED BY <1>2, <1>3, <1>4, <2>1 DEF OneAnswerEach
<1>. QED BY <1>2, <1>5, <1>6 DEF Dropped, Frames, Answers, a, q, t

\* Or forgotten.
LEMMA ForgottenDropped ==
    ASSUME NEW r \in Recordings, TypeOK, Awaited, Forgets(r)
    PROVE  Dropped(inbox', r)
<1> DEFINE late == {i \in DOMAIN inbox : inbox[i].is = "answer" /\ inbox[i].by = r}
<1>1. inbox \in Stream /\ OneAnswerEach(inbox)
  BY DEF TypeOK, Stream, Awaited
<1>2. inbox' = IF late = {} THEN inbox ELSE RemoveAt(inbox, CHOOSE i \in late : TRUE)
  BY DEF Forgets
<1>3. CASE late = {}
  <2>1. ~Answering(inbox, r)
    BY <1>3 DEF Answering, AnswersIn, Range
  <2>. QED BY <1>1, <1>2, <1>3, <2>1, PartOfItself DEF Dropped, Frames
<1>4. CASE late # {}
  <2>1. PICK k : k = CHOOSE i \in late : TRUE
    OBVIOUS
  <2>2. k \in late
    BY <1>4, <2>1
  <2> DEFINE b == RemoveAt(inbox, k)
  <2>3. /\ b \in Stream /\ Part(b, inbox) /\ Range(inbox) = Range(b) \cup {inbox[k]}
        /\ \A j \in DOMAIN b : \E i \in DOMAIN inbox : i # k /\ b[j] = inbox[i]
    <3>1. k \in DOMAIN inbox
      BY <2>2
    <3>. QED BY <1>1, <3>1, RemoveAtFacts, RemoveAtPart DEF Stream
  <2>4. inbox' = b
    BY <1>2, <1>4, <2>1
  <2> HIDE DEF b
  <2>5. inbox[k].is = "answer" /\ inbox[k].is # "frame" /\ inbox[k].by = r /\ k \in DOMAIN inbox
    BY <2>2
  <2>6. FramesIn(b) = FramesIn(inbox)
    BY <2>3, <2>5 DEF FramesIn
  <2>7. ~Answering(b, r)
    <3> SUFFICES ASSUME NEW j \in DOMAIN b, b[j].is = "answer", b[j].by = r
                 PROVE  FALSE
      BY DEF Answering, AnswersIn, Range
    <3>. QED BY <1>1, <2>3, <2>5 DEF OneAnswerEach
  <2>. QED BY <2>3, <2>4, <2>6, <2>7 DEF Dropped, Frames
<1>. QED BY <1>3, <1>4

-----------------------------------------------------------------------------
(* The steps of a recording                                                  *)

\* The order of a recording's steps.
Goes == {<<"idle", "start">>, <<"start", "close">>, <<"start", "script">>, <<"start", "record">>,
         <<"script", "record">>, <<"record", "poll">>, <<"poll", "record">>, <<"record", "stop">>,
         <<"poll", "stop">>, <<"stop", "settle">>, <<"close", "drain">>, <<"settle", "drain">>,
         <<"drain", "done">>}

\* Nothing is left of r's screencast, and nothing will come.
Over(r) == cast[sid[r]] # r /\ \A f \in Frames : f.cast # r

\* What the steps of r have in common: it goes on to `next', and has no answer to
\* expect but to what it sends, if it sends something, after the messages b.
Turn(r, next, b) ==
    /\ <<pc[r], next>> \in Goes /\ pc' = [pc EXCEPT ![r] = next]
    /\ Dropped(b, r)
    /\ UNCHANGED <<sid, cancelled, todo, frame, ackCh, pump, panicked>>
    /\ frames' = IF next = "done" THEN [frames EXCEPT ![r] = <<>>] ELSE frames
    /\ aborted' = IF next = "close" THEN aborted \cup {r} ELSE aborted
    /\ unsure' = unsure \/ unsure' = unsure \cup {r}
    /\ crowd' = IF next = "start" /\ Others(r) # {} THEN crowd \cup {r} \cup Others(r) ELSE crowd
    /\ handlers' = IF next = "start" THEN Append(handlers, r)
                   ELSE IF next \in {"close", "settle"} THEN Unregistered(r) ELSE handlers
    /\ next \in {"close", "settle"} /\ r \notin unsure' => Over(r)
    /\ next = "drain" => pc[r] = "close" \/ Settled(r)
    /\ next = "done" => ackCh[r] = <<>> /\ pump[r] = <<>>
    /\ IF next \in Waits THEN Sends(r, next, b) ELSE inbox' = b /\ UNCHANGED <<cast, credit, shown, refused>>


\* It is so when the answer that says it is read.
LEMMA AnswerEnds ==
    ASSUME NEW r \in Recordings, NEW ok \in BOOLEAN, TypeOK, Awaited, Casting, Underway,
           pc[r] \in Waits, Answered(r, ok), Ended(AnswerTo(r, pc[r], ok))
    PROVE  Over(r)
<1> DEFINE a == AnswerTo(r, pc[r], ok)
<1>1. a \in Answers /\ a.by = r /\ a.is = "answer"
  BY AnswerDropped, MessageFacts DEF AnswerTo
<1>2. inbox \in Stream /\ inbox # <<>> /\ a = Head(inbox)
  BY DEF TypeOK, Stream, Answered
<1>3. a = inbox[1] /\ 1 \in DOMAIN inbox /\ \A i \in DOMAIN inbox : i \in Nat /\ i >= 1
  BY <1>2, TailFacts DEF Stream
<1>4. Ended(a)
  OBVIOUS
<1> HIDE DEF a
<1>5. cast[sid[r]] # r
  BY <1>1, <1>4 DEF Casting
<1>6. ASSUME NEW i \in DOMAIN inbox, inbox[i].is = "frame", inbox[i].cast = r
      PROVE  FALSE
  <2>1. i < 1
    BY <1>1, <1>3, <1>4, <1>6 DEF Underway, EndsLast
  <2>. QED BY <1>3, <2>1
<1>7. \A f \in Frames : f.cast # r
  BY <1>6 DEF Frames, FramesIn, Range
<1>. QED BY <1>5, <1>7 DEF Over

\* The end of what r waits for, and what is over with it.
LEMMA RepliedDropped ==
    ASSUME NEW r \in Recordings, NEW ok \in BOOLEAN, TypeOK, Awaited, Casting, Underway,
           pc[r] \in Waits, Replied(r, ok)
    PROVE  Dropped(inbox', r) /\ (Ended(AnswerTo(r, pc[r], ok)) => Over(r))
<1>1. Answered(r, ok) /\ inbox' = Tail(inbox)
  BY DEF Replied
<1>2. Dropped(Tail(inbox), r)
  BY <1>1, AnswerDropped
<1>. QED BY <1>1, <1>2, AnswerEnds

\* The steps are such turns.
LEMMA TurnMade ==
    ASSUME NEW r \in Recordings, TypeOK, Awaited, Casting, Underway, Begin(r) \/ RecordStep(r)
    PROVE  \E next \in StepPc : \E b : Turn(r, next, b)
<1>1. inbox \in Stream /\ (pc[r] \notin Waits => Dropped(inbox, r))
  BY NothingDropped DEF TypeOK, Stream
<1>3. \A ok \in BOOLEAN : pc[r] \in Waits /\ Answered(r, ok) => Dropped(Tail(inbox), r)
  BY AnswerDropped
<1>4. \A ok \in BOOLEAN : pc[r] \in Waits /\ Replied(r, ok) =>
        Dropped(inbox', r) /\ (Ended(AnswerTo(r, pc[r], ok)) => Over(r))
  BY RepliedDropped
<1>5. Forgets(r) => Dropped(inbox', r)
  BY ForgottenDropped
<1>6. CASE Begin(r)
  <2>1. Turn(r, "start", inbox)
    BY <1>1, <1>6, Zenon DEF Begin, Turn, Sends, OthersStay, Waits, Goes, loop_vars
  <2>. QED BY <2>1 DEF StepPc
<1>7. CASE StartFails(r)
  <2>1. pc[r] = "start" /\ pc[r] \in Waits
    BY <1>7 DEF StartFails, Waits
  <2>2. Dropped(inbox', r)
    BY <1>4, <1>5, <1>7, <2>1 DEF StartFails, GivesUp
  <2>3. r \notin unsure' => Over(r)
    <3>1. Ended(AnswerTo(r, "start", FALSE))
      BY DEF Ended, AnswerTo
    <3>. QED BY <1>4, <1>7, <2>1, <3>1 DEF StartFails
  <2>4. Turn(r, "close", inbox')
    BY <1>7, <2>1, <2>2, <2>3 DEF StartFails, Turn, OthersStay, ChromeStays, Waits,
       Goes, loop_vars, chrome_vars
  <2>. QED BY <2>4 DEF StepPc
<1>8. CASE Started(r)
  <2>1. pc[r] = "start" /\ pc[r] \in Waits
    BY <1>8 DEF Started, Waits
  <2>2. Dropped(Tail(inbox), r)
    BY <1>3, <1>8, <2>1 DEF Started
  <2>3. CASE r \in Scripted
    <3>1. Turn(r, "script", Tail(inbox))
      BY <1>8, <2>1, <2>2, <2>3 DEF Started, Turn, Sends, OthersStay, Waits, Goes,
         loop_vars
    <3>. QED BY <3>1 DEF StepPc
  <2>4. CASE r \notin Scripted
    <3>1. Turn(r, "record", Tail(inbox))
      BY <1>8, <2>1, <2>2, <2>4 DEF Started, Turn, OthersStay, ChromeStays, Waits, Goes,
         loop_vars, chrome_vars
    <3>. QED BY <3>1 DEF StepPc
  <2>. QED BY <2>3, <2>4
<1>9. CASE ScriptDone(r) \/ NotYet(r)
  <2>1. pc[r] \in {"script", "poll"} /\ pc[r] \in Waits
    BY <1>9 DEF ScriptDone, NotYet, Waits
  <2>2. Dropped(inbox', r)
    BY <1>4, <1>5, <1>9, <2>1 DEF ScriptDone, NotYet, GivesUp
  <2>3. Turn(r, "record", inbox')
    BY <1>9, <2>1, <2>2 DEF ScriptDone, NotYet, Turn, OthersStay, ChromeStays, Waits,
       Goes, loop_vars, chrome_vars
  <2>. QED BY <2>3 DEF StepPc
<1>10. CASE Poll(r)
  <2>1. Turn(r, "poll", inbox)
    BY <1>1, <1>10 DEF Poll, Turn, Sends, OthersStay, Waits, Goes, loop_vars
  <2>. QED BY <2>1 DEF StepPc
<1>11. CASE Stop(r)
  <2>1. CASE pc[r] = "record" /\ Stops(r, inbox)
    <3>1. Turn(r, "stop", inbox)
      BY <1>1, <1>11, <2>1 DEF Stop, Stops, Sends, Turn, OthersStay, Waits, Goes,
         loop_vars
    <3>. QED BY <3>1 DEF StepPc
  <2>2. CASE pc[r] = "poll" /\ Answered(r, TRUE) /\ Stops(r, Tail(inbox))
    <3>1. pc[r] \in Waits /\ Dropped(Tail(inbox), r)
      BY <1>3, <2>2 DEF Waits
    <3>2. Turn(r, "stop", Tail(inbox))
      BY <1>11, <2>2, <3>1 DEF Stop, Stops, Sends, Turn, OthersStay, Waits, Goes,
         loop_vars
    <3>. QED BY <3>2 DEF StepPc
  <2>. QED BY <1>11, <2>1, <2>2 DEF Stop
<1>12. CASE StopDone(r)
  <2>1. pc[r] = "stop" /\ pc[r] \in Waits
    BY <1>12 DEF StopDone, Waits
  <2>2. Dropped(inbox', r)
    BY <1>4, <1>5, <1>12, <2>1 DEF StopDone
  <2>3. r \notin unsure' => Over(r)
    <3>1. Ended(AnswerTo(r, "stop", TRUE))
      BY DEF Ended, AnswerTo
    <3>. QED BY <1>4, <1>12, <2>1, <3>1 DEF StopDone
  <2>4. Turn(r, "settle", inbox')
    BY <1>12, <2>1, <2>2, <2>3 DEF StopDone, Turn, OthersStay, ChromeStays, Waits, Goes,
       loop_vars, chrome_vars
  <2>. QED BY <2>4 DEF StepPc
<1>13. CASE CloseAcks(r)
  <2>1. Turn(r, "drain", inbox)
    BY <1>1, <1>13 DEF CloseAcks, Turn, OthersStay, ChromeStays, Waits, Goes, loop_vars,
       chrome_vars
  <2>. QED BY <2>1 DEF StepPc
<1>14. CASE Finish(r)
  <2>1. Turn(r, "done", inbox)
    BY <1>1, <1>14 DEF Finish, Turn, Waits, Goes, loop_vars, chrome_vars
  <2>. QED BY <2>1 DEF StepPc
<1>. QED BY <1>6, <1>7, <1>8, <1>9, <1>10, <1>11, <1>12, <1>13, <1>14 DEF RecordStep

-----------------------------------------------------------------------------
(* What every step leaves as it is                                           *)

\* What has happened has happened.
Steady ==
    /\ UNCHANGED sid
    /\ aborted \subseteq aborted' /\ unsure \subseteq unsure' /\ crowd \subseteq crowd'
    /\ refused \subseteq refused'
    /\ \A q \in Recordings : /\ pc[q] # "idle" => pc'[q] # "idle"
                             /\ pc[q] = "done" => pc'[q] = "done"

\* So who may have got frames of another may have got them.
LEMMA SteadyKeeps ==
    ASSUME Steady
    PROVE  /\ \A q \in Recordings : Shares(q) => Shares(q)'
           /\ \A q, p \in Recordings : Gets(q, p) => Gets(q, p)'
<1>1. \A q \in Recordings : Shares(q) => Shares(q)'
  BY DEF Steady, Shares
<1>. QED BY <1>1 DEF Steady, Gets

\* What a turn does to the places of the recordings, and to the histories.
LEMMA TurnFacts ==
    ASSUME TypeOK, NEW r \in Recordings, NEW next, NEW b, Turn(r, next, b)
    PROVE  /\ pc'[r] = next /\ next \in StepPc /\ next # "idle" /\ pc[r] # "done"
           /\ pc[r] = "idle" <=> next = "start"
           /\ \A q \in Recordings : q # r => pc'[q] = pc[q]
           /\ Steady
<1>1. next \in StepPc /\ next # "idle" /\ pc[r] # "done" /\ (pc[r] = "idle" <=> next = "start")
  BY DEF Turn, Goes, StepPc
<1>2. pc'[r] = next /\ \A q \in Recordings : q # r => pc'[q] = pc[q]
  BY DEF Turn, TypeOK
<1>3. refused \subseteq refused'
  BY DEF Turn, Sends, Carried
<1>4. aborted \subseteq aborted' /\ unsure \subseteq unsure' /\ crowd \subseteq crowd' /\ UNCHANGED sid
  BY DEF Turn
<1>5. \A q \in Recordings : /\ pc[q] # "idle" => pc'[q] # "idle"
                            /\ pc[q] = "done" => pc'[q] = "done"
  BY <1>1, <1>2
<1>. QED BY <1>1, <1>2, <1>3, <1>4, <1>5 DEF Steady

\* What a turn does to Chrome: a screencast starts, or stops, or all stays.
LEMMA TurnChrome ==
    ASSUME TypeOK, Casting, Recorded, NEW r \in Recordings, NEW next, NEW b, Turn(r, next, b)
    PROVE  /\ cast' \in [Sessions -> Recordings \cup {None}] /\ credit' \in [Sessions -> Int]
           /\ shown' = shown /\ (refused' = refused \/ (next = "stop" /\ refused' = refused \cup {r}))
           /\ \A s \in Sessions :
                 \/ cast'[s] = cast[s] /\ credit'[s] = credit[s]
                 \/ next = "start" /\ s = sid[r] /\ cast'[s] = r /\ credit'[s] = 0
                 \/ next = "stop" /\ s = sid[r] /\ cast'[s] = None /\ credit'[s] = credit[s]
           /\ next = "stop" /\ cast'[sid[r]] = r => r \in refused'
           /\ \/ inbox' = b
              \/ /\ next \in Waits
                 /\ \E ok \in BOOLEAN :
                      /\ inbox' = Append(b, AnswerTo(r, next, ok))
                      /\ Ended(AnswerTo(r, next, ok)) => cast'[sid[r]] # r
<1>1. /\ cast \in [Sessions -> Recordings \cup {None}] /\ credit \in [Sessions -> Int]
      /\ sid[r] \in Sessions /\ None \notin Recordings
  BY RecordingAssumption DEF TypeOK
<1>2. CASE next \notin Waits
  <2>1. inbox' = b /\ UNCHANGED <<cast, credit, shown, refused>> /\ next # "stop"
    BY <1>2 DEF Turn, Waits
  <2>. QED BY <1>1, <2>1
<1>3. CASE next \in Waits
  <2>1. Sends(r, next, b)
    BY <1>3 DEF Turn
  <2>2. CASE /\ Carried(r, next)
             /\ inbox' \in {b, Append(b, AnswerTo(r, next, TRUE))}
    <3>1. shown' = shown /\ refused' = refused /\ Effect(r, next)
      BY <2>2 DEF Carried
    <3>2. CASE next = "start"
      <4>1. cast' = [cast EXCEPT ![sid[r]] = r] /\ credit' = [credit EXCEPT ![sid[r]] = 0]
        BY <3>1, <3>2 DEF Effect
      <4>2. ~Ended(AnswerTo(r, next, TRUE))
        BY <3>2 DEF Ended, AnswerTo
      <4>3. /\ cast' \in [Sessions -> Recordings \cup {None}] /\ credit' \in [Sessions -> Int]
            /\ \A s \in Sessions :
                 \/ cast'[s] = cast[s] /\ credit'[s] = credit[s]
                 \/ s = sid[r] /\ cast'[s] = r /\ credit'[s] = 0
        BY <1>1, <4>1
      <4>. QED BY <1>3, <2>2, <3>1, <3>2, <4>2, <4>3
    <3>3. CASE next = "stop"
      <4>1. cast' = [cast EXCEPT ![sid[r]] = None] /\ credit' = credit
        BY <3>1, <3>3 DEF Effect
      <4>2. cast'[sid[r]] # r
        BY <1>1, <4>1
      <4>. QED BY <1>1, <1>3, <2>2, <3>1, <3>3, <4>1, <4>2
    <3>4. CASE next \in {"script", "poll"}
      <4>1. cast' = cast /\ credit' = credit
        BY <3>1, <3>4 DEF Effect
      <4>2. ~Ended(AnswerTo(r, next, TRUE))
        BY <3>4 DEF Ended, AnswerTo
      <4>. QED BY <1>1, <1>3, <2>2, <3>1, <3>4, <4>1, <4>2
    <3>. QED BY <1>3, <3>2, <3>3, <3>4 DEF Waits
  <2>3. CASE /\ inbox' = Append(b, AnswerTo(r, next, FALSE))
             /\ refused' = IF next = "stop" THEN refused \cup {r} ELSE refused
             /\ UNCHANGED <<cast, credit, shown>>
    <3>1. Ended(AnswerTo(r, next, FALSE)) => next = "start"
      BY DEF Ended, AnswerTo
    <3>2. next = "start" => cast'[sid[r]] # r
      <4> SUFFICES ASSUME next = "start", cast[sid[r]] = r
                   PROVE  FALSE
        BY <2>3
      <4>1. pc[r] = "idle"
        BY TurnFacts
      <4>2. \/ pc[r] \in {"start", "script", "record", "poll"}
            \/ r \in aborted \cap unsure
            \/ r \in refused /\ (pc[r] = "stop" \/ r \in unsure)
        BY <1>1 DEF Casting
      <4>. QED BY <4>1, <4>2 DEF Recorded
    <3>. QED BY <1>1, <1>3, <2>3, <3>1, <3>2
  <2>. QED BY <2>1, <2>2, <2>3 DEF Sends
<1>. QED BY <1>2, <1>3

\* What a turn does to what is on its way: the answers to r are gone, and there may
\* be a new one.
LEMMA TurnStream ==
    ASSUME TypeOK, Casting, Recorded, Awaited, InSequence, Underway,
           NEW r \in Recordings, NEW next, NEW b, Turn(r, next, b)
    PROVE  /\ inbox' \in Stream /\ Frames' = Frames
           /\ InOrder(inbox') /\ OneAnswerEach(inbox') /\ EndsLast(inbox')
           /\ \A a \in Answers' :
                 /\ a \in Answer
                 /\ \/ a \in Answers /\ a.by # r
                    \/ a.by = r /\ a.op = next /\ (Ended(a) => cast'[sid[r]] # r)
<1>1. b \in Stream /\ Part(b, inbox) /\ FramesIn(b) = Frames /\ ~Answering(b, r)
  BY DEF Turn, Dropped
<1>2. inbox \in Stream /\ InOrder(inbox) /\ OneAnswerEach(inbox) /\ EndsLast(inbox)
  BY DEF TypeOK, Stream, InSequence, Awaited, Underway
<1>3. InOrder(b) /\ OneAnswerEach(b) /\ EndsLast(b) /\ AnswersIn(b) \subseteq Answers
  BY <1>1, <1>2, PartKeeps DEF Answers
<1>4. \A a \in AnswersIn(b) : a \in Answer /\ a \in Answers /\ a.by # r
  BY <1>1, <1>3, StreamFacts DEF Answering
<1>5. CASE inbox' = b
  <2>1. Answers' = AnswersIn(b) /\ Frames' = FramesIn(b)
    BY <1>5 DEF Answers, Frames, AnswersIn, FramesIn
  <2>. QED BY <1>1, <1>3, <1>4, <1>5, <2>1
<1>6. ASSUME next \in Waits, NEW ok \in BOOLEAN, inbox' = Append(b, AnswerTo(r, next, ok)),
             Ended(AnswerTo(r, next, ok)) => cast'[sid[r]] # r
      PROVE  /\ inbox' \in Stream /\ Frames' = Frames
             /\ InOrder(inbox') /\ OneAnswerEach(inbox') /\ EndsLast(inbox')
             /\ \A a \in Answers' :
                   /\ a \in Answer
                   /\ \/ a \in Answers /\ a.by # r
                      \/ a.by = r /\ a.op = next /\ (Ended(a) => cast'[sid[r]] # r)
  <2> DEFINE a == AnswerTo(r, next, ok)
  <2>1. a \in Answer /\ a.by = r /\ a.op = next
    BY <1>6, MessageFacts
  <2>2. inbox' = Append(b, a) /\ (Ended(a) => cast'[sid[r]] # r)
    BY <1>6
  <2> HIDE DEF a
  <2>3. a.op = "start" => \A f \in FramesIn(b) : f.cast # a.by
    <3> SUFFICES ASSUME next = "start", NEW f \in Frames, f.cast = r
                 PROVE  FALSE
      BY <1>1, <2>1
    <3>1. pc[r] = "idle"
      BY TurnFacts
    <3>. QED BY <3>1 DEF Underway
  <2>4. LET q == Append(b, a) IN
        /\ q \in Stream /\ InOrder(q) /\ OneAnswerEach(q) /\ EndsLast(q)
        /\ FramesIn(q) = FramesIn(b) /\ AnswersIn(q) = AnswersIn(b) \cup {a}
    BY <1>1, <1>3, <2>1, <2>3, AppendAnswerKeeps
  <2>5. /\ inbox' \in Stream /\ InOrder(inbox') /\ OneAnswerEach(inbox') /\ EndsLast(inbox')
        /\ FramesIn(inbox') = Frames /\ AnswersIn(inbox') = AnswersIn(b) \cup {a}
    BY <1>1, <2>2, <2>4
  <2>6. Answers' = AnswersIn(inbox') /\ Frames' = FramesIn(inbox')
    BY DEF Answers, Frames, AnswersIn, FramesIn
  <2>. QED BY <1>4, <2>1, <2>2, <2>5, <2>6
<1>. QED BY <1>5, <1>6, TurnChrome

\* Where an element is.
LEMMA PlaceFacts ==
    ASSUME NEW S, NEW q \in Seq(S), NEW s \in Range(q)
    PROVE  LET i == CHOOSE j \in DOMAIN q : q[j] = s IN i \in DOMAIN q /\ q[i] = s
<1>1. \E j \in DOMAIN q : q[j] = s
  BY DEF Range
<1>. QED BY <1>1

\* The handlers there are when r has no handler any more.
LEMMA UnregisteredFacts ==
    ASSUME NEW r \in Recordings, handlers \in Seq(Recordings), IsInjective(handlers)
    PROVE  /\ Unregistered(r) \in Seq(Recordings) /\ IsInjective(Unregistered(r))
           /\ Range(Unregistered(r)) = Range(handlers) \ {r}
<1>1. CASE r \notin Range(handlers)
  BY <1>1 DEF Unregistered
<1>2. CASE r \in Range(handlers)
  <2>1. PICK i : i = CHOOSE j \in DOMAIN handlers : handlers[j] = r
    OBVIOUS
  <2>2. i \in DOMAIN handlers /\ handlers[i] = r
    BY <1>2, <2>1, PlaceFacts
  <2>3. Unregistered(r) = RemoveAt(handlers, i)
    BY <1>2, <2>1 DEF Unregistered
  <2>4. /\ RemoveAt(handlers, i) \in Seq(Recordings) /\ IsInjective(RemoveAt(handlers, i))
        /\ Range(RemoveAt(handlers, i)) = Range(handlers) \ {handlers[i]}
    BY <2>2, WithoutFacts
  <2>. QED BY <2>2, <2>3, <2>4
<1>. QED BY <1>1, <1>2

\* A handler that waits for room is that of a recording that shares its session.
BlockedShares == Blocked => Shares(Head(todo))

\* The steps of a recording keep the invariant.
LEMMA TurnKeeps ==
    ASSUME IInv, BlockedShares, NEW r \in Recordings, NEW next, NEW b, Turn(r, next, b)
    PROVE  IInv'
<1>1. TypeOK /\ AckedOnce /\ NothingRuns /\ InSequence /\ Awaited /\ Casting /\ Underway
      /\ Recorded /\ GetsOwn /\ Counted /\ LateCalls /\ Excused
  BY DEF IInv, Inv
<1>2. /\ pc'[r] = next /\ next \in StepPc /\ next # "idle" /\ pc[r] # "done"
      /\ pc[r] = "idle" <=> next = "start"
      /\ \A q \in Recordings : q # r => pc'[q] = pc[q]
  BY <1>1, TurnFacts
<1>3. Steady /\ (\A q \in Recordings : Shares(q) => Shares(q)')
      /\ \A q, p \in Recordings : Gets(q, p) => Gets(q, p)'
  BY <1>1, TurnFacts, SteadyKeeps
<1>4. /\ cast' \in [Sessions -> Recordings \cup {None}] /\ credit' \in [Sessions -> Int]
      /\ shown' = shown /\ (refused' = refused \/ (next = "stop" /\ refused' = refused \cup {r}))
      /\ \A s \in Sessions :
            \/ cast'[s] = cast[s] /\ credit'[s] = credit[s]
            \/ next = "start" /\ s = sid[r] /\ cast'[s] = r /\ credit'[s] = 0
            \/ next = "stop" /\ s = sid[r] /\ cast'[s] = None /\ credit'[s] = credit[s]
      /\ next = "stop" /\ cast'[sid[r]] = r => r \in refused'
  BY <1>1, TurnChrome
<1>5. /\ inbox' \in Stream /\ Frames' = Frames
      /\ InOrder(inbox') /\ OneAnswerEach(inbox') /\ EndsLast(inbox')
      /\ \A a \in Answers' :
            /\ a \in Answer
            /\ \/ a \in Answers /\ a.by # r
               \/ a.by = r /\ a.op = next /\ (Ended(a) => cast'[sid[r]] # r)
  BY <1>1, TurnStream
<1>6. /\ UNCHANGED <<sid, cancelled, todo, frame, ackCh, pump, panicked>>
      /\ frames' = IF next = "done" THEN [frames EXCEPT ![r] = <<>>] ELSE frames
      /\ aborted' = IF next = "close" THEN aborted \cup {r} ELSE aborted
      /\ unsure' = unsure \/ unsure' = unsure \cup {r}
      /\ crowd' = IF next = "start" /\ Others(r) # {} THEN crowd \cup {r} \cup Others(r) ELSE crowd
      /\ next = "done" => ackCh[r] = <<>> /\ pump[r] = <<>>
      /\ next \in {"close", "settle"} /\ r \notin unsure' => Over(r)
      /\ next = "drain" => pc[r] = "close" \/ Settled(r)
      /\ pc' = [pc EXCEPT ![r] = next]
  BY DEF Turn
<1>7. /\ sid[r] \in Sessions /\ None \notin Recordings
      /\ \A q \in Recordings : sid[q] \in Sessions /\ pc[q] \in StepPc
  BY <1>1, RecordingAssumption DEF TypeOK
<1>8. /\ handlers' \in Seq(Recordings) /\ IsInjective(handlers')
      /\ Range(handlers') = {q \in Recordings : Registered(q)'}
  <2>1. handlers \in Seq(Recordings) /\ IsInjective(handlers)
        /\ Range(handlers) = {q \in Recordings : Registered(q)}
    BY <1>1 DEF TypeOK, NothingRuns
  <2>2. \A q \in Recordings : q # r => (Registered(q)' <=> Registered(q))
    BY <1>2 DEF Registered
  <2>3. CASE next = "start"
    <3>1. handlers' = Append(handlers, r) /\ r \notin Range(handlers) /\ Registered(r)'
      BY <1>2, <2>1, <2>3 DEF Turn, Registered
    <3>2. /\ handlers' \in Seq(Recordings) /\ IsInjective(handlers')
          /\ Range(handlers') = Range(handlers) \cup {r}
      BY <2>1, <3>1, AppendFacts
    <3>. QED BY <2>1, <2>2, <3>1, <3>2
  <2>4. CASE next \in {"close", "settle"}
    <3>1. handlers' = Unregistered(r) /\ ~Registered(r)'
      BY <1>2, <2>4 DEF Turn, Registered
    <3>. QED BY <2>1, <2>2, <3>1, UnregisteredFacts
  <2>5. CASE next \notin {"start", "close", "settle"}
    <3>1. handlers' = handlers
      BY <2>5 DEF Turn
    <3>2. Registered(r)' <=> Registered(r)
      BY <1>2, <2>5 DEF Turn, Goes, Registered
    <3>. QED BY <2>1, <2>2, <3>1, <3>2
  <2>. QED BY <2>3, <2>4, <2>5
<1>9. TypeOK'
  <2>1. /\ sid' \in [Recordings -> Sessions] /\ pc' \in [Recordings -> StepPc]
        /\ cancelled' \subseteq Leavers /\ panicked' \in Recordings \cup {None}
        /\ todo' \in Seq(Recordings) /\ (IF todo' = <<>> THEN frame' = None ELSE frame' \in Frame)
        /\ ackCh' \in [Recordings -> Seq(Frame)] /\ \A q \in Recordings : Len(ackCh'[q]) <= Cap
    BY <1>1, <1>2, <1>6 DEF TypeOK
  <2>2. pump' \in [Recordings -> Seq(Frame)] /\ \A q \in Recordings : Len(pump'[q]) <= 1
    BY <1>1, <1>6 DEF TypeOK
  <2>3. aborted' \subseteq Recordings /\ unsure' \subseteq Recordings /\ crowd' \subseteq Recordings
    BY <1>1, <1>6 DEF TypeOK, Others
  <2>4. frames' \in [Recordings -> Seq(Frame)]
    BY <1>1, <1>6 DEF TypeOK
  <2>5. shown' \in 0..MaxFrames /\ refused' \subseteq Recordings
    BY <1>1, <1>4 DEF TypeOK
  <2>. QED BY <1>4, <1>5, <1>8, <2>1, <2>2, <2>3, <2>4, <2>5 DEF TypeOK, Stream
<1>10. AckedOnce'
  <2> SUFFICES ASSUME NEW q \in Recordings
               PROVE  /\ \A i \in DOMAIN frames'[q] :
                           /\ frames'[q][i].session = sid[q]
                           /\ \A j \in DOMAIN frames'[q] : i < j => frames'[q][i].n < frames'[q][j].n
                      /\ Ends(frames'[q], pump[q] \o ackCh[q])
    BY <1>6 DEF AckedOnce
  <2>1. CASE next = "done" /\ q = r
    <3>1. frames'[q] = <<>> /\ pump[q] = <<>> /\ ackCh[q] = <<>>
      BY <1>1, <1>6, <2>1 DEF TypeOK
    <3>. QED BY <3>1 DEF Ends
  <2>2. CASE ~(next = "done" /\ q = r)
    <3>1. frames'[q] = frames[q]
      BY <1>1, <1>6, <2>2 DEF TypeOK
    <3>. QED BY <1>1, <3>1 DEF AckedOnce
  <2>. QED BY <2>1, <2>2
<1>11. NothingRuns'
  <2>1. ASSUME NEW q \in Recordings, ~Active(q)'
        PROVE  frames'[q] = <<>> /\ pump'[q] = <<>> /\ ackCh'[q] = <<>>
    <3>1. CASE q = r
      <4>1. next = "done"
        BY <1>2, <2>1, <3>1 DEF Active
      <4>. QED BY <1>1, <1>6, <3>1, <4>1 DEF TypeOK
    <3>2. CASE q # r
      <4>1. ~Active(q)
        BY <1>2, <2>1, <3>2 DEF Active
      <4>. QED BY <1>1, <1>6, <3>2, <4>1 DEF TypeOK, NothingRuns
    <3>. QED BY <3>1, <3>2
  <2>. QED BY <1>8, <2>1 DEF NothingRuns
<1>12. InSequence'
  <2>1. IsInjective(todo') /\ \A q \in Range(todo') : pc'[q] # "idle"
    <3>1. Range(todo) \subseteq Recordings
      BY <1>1 DEF TypeOK, Range
    <3>. QED BY <1>1, <1>3, <1>6, <3>1 DEF InSequence, Steady
  <2>2. /\ \A f \in Frames' : f.n <= shown' /\ (todo' # <<>> => frame'.n < f.n)
        /\ todo' # <<>> => frame'.n <= shown'
    BY <1>1, <1>4, <1>5, <1>6 DEF InSequence
  <2>3. ASSUME NEW q \in Recordings, NEW i \in DOMAIN frames'[q]
        PROVE  /\ frames'[q][i].n <= shown'
               /\ \A f \in Frames' : frames'[q][i].n < f.n
               /\ q \in Range(todo') => frames'[q][i].n < frame'.n
    <3>1. frames'[q] = frames[q] \/ frames'[q] = <<>>
      BY <1>1, <1>6 DEF TypeOK
    <3>2. frames'[q] = frames[q]
      BY <2>3, <3>1
    <3>3. /\ frames[q][i].n <= shown
          /\ \A f \in Frames : frames[q][i].n < f.n
          /\ q \in Range(todo) => frames[q][i].n < frame.n
      BY <1>1, <2>3, <3>2 DEF InSequence
    <3>. QED BY <1>4, <1>5, <1>6, <3>2, <3>3
  <2>. QED BY <1>5, <2>1, <2>2, <2>3 DEF InSequence
<1>13. Awaited'
  <2>1. \A a \in Answers' : a.op = pc'[a.by]
    <3> SUFFICES ASSUME NEW a \in Answers' PROVE a.op = pc'[a.by]
      OBVIOUS
    <3>1. a.by \in Recordings
      BY <1>5, MessageFacts
    <3>. QED BY <1>1, <1>2, <1>5, <3>1 DEF Awaited
  <2>. QED BY <1>5, <2>1 DEF Awaited
<1>14. Casting'
  <2>1. ASSUME NEW s \in Sessions, cast'[s] # None
        PROVE  LET q == cast'[s] IN
               /\ sid[q] = s /\ credit'[s] <= InFlight
               /\ \/ pc'[q] \in {"start", "script", "record", "poll"}
                  \/ q \in aborted' \cap unsure'
                  \/ q \in refused' /\ (pc'[q] = "stop" \/ q \in unsure')
    <3>1. CASE cast'[s] = cast[s] /\ credit'[s] = credit[s]
      <4>1. PICK q \in Recordings : q = cast[s]
        BY <1>1, <2>1, <3>1 DEF TypeOK
      <4>2. /\ sid[q] = s /\ credit[s] <= InFlight
            /\ \/ pc[q] \in {"start", "script", "record", "poll"}
               \/ q \in aborted \cap unsure
               \/ q \in refused /\ (pc[q] = "stop" \/ q \in unsure)
        BY <1>1, <2>1, <3>1, <4>1 DEF Casting
      <4>3. CASE q # r
        BY <1>2, <1>3, <3>1, <4>1, <4>2, <4>3 DEF Steady
      <4>4. CASE q = r
        <5>1. cast[sid[r]] = r /\ cast'[sid[r]] = r
          BY <3>1, <4>1, <4>2, <4>4
        <5>2. CASE next \in {"start", "script", "record", "poll"}
          BY <1>2, <3>1, <4>1, <4>2, <4>4, <5>2
        <5>3. CASE next = "stop"
          BY <1>2, <1>4, <3>1, <4>1, <4>2, <4>4, <5>1, <5>3
        <5>4. CASE next \in {"close", "settle"}
          <6>1. r \in unsure'
            BY <1>6, <5>1, <5>4 DEF Over
          <6>2. next = "close" => r \in aborted'
            BY <1>6
          <6>3. next = "settle" => pc[r] = "stop"
            BY DEF Turn, Goes
          <6>4. next = "settle" => r \in aborted' \/ r \in refused'
            BY <1>3, <4>2, <4>4, <6>3 DEF Steady
          <6>. QED BY <3>1, <4>1, <4>2, <4>4, <5>4, <6>1, <6>2, <6>4
        <5>5. CASE next \in {"drain", "done"}
          <6>1. pc[r] \in {"close", "settle", "drain"}
            BY <5>5 DEF Turn, Goes
          <6>2. r \in unsure' /\ (r \in aborted' \/ r \in refused')
            BY <1>3, <4>2, <4>4, <6>1 DEF Steady
          <6>. QED BY <3>1, <4>1, <4>2, <4>4, <6>2
        <5>. QED BY <1>2, <5>2, <5>3, <5>4, <5>5 DEF StepPc
      <4>. QED BY <4>3, <4>4
    <3>2. CASE next = "start" /\ s = sid[r] /\ cast'[s] = r /\ credit'[s] = 0
      <4>1. credit'[s] <= InFlight
        BY <3>2, RecordingAssumption
      <4>. QED BY <1>2, <3>2, <4>1
    <3>. QED BY <1>4, <2>1, <3>1, <3>2
  <2>2. ASSUME NEW a \in Answers', Ended(a)
        PROVE  cast'[sid[a.by]] # a.by
    <3>1. a.by \in Recordings
      BY <1>5, MessageFacts
    <3>2. CASE a.by = r
      BY <1>5, <2>2, <3>2
    <3>3. CASE a.by # r
      <4>1. cast[sid[a.by]] # a.by
        BY <1>1, <1>5, <2>2, <3>3 DEF Casting
      <4>. QED BY <1>4, <1>7, <3>1, <3>3, <4>1
    <3>. QED BY <3>2, <3>3
  <2>. QED BY <1>6, <2>1, <2>2 DEF Casting
<1>15. Underway'
  <2>1. ASSUME NEW f \in Frames'
        PROVE  /\ sid[f.cast] = f.session /\ pc'[f.cast] # "idle"
               /\ Registered(f.cast)' \/ f.cast \in unsure'
    <3>1. f \in Frames /\ f.cast \in Recordings
      BY <1>1, <1>5, StreamFacts, MessageFacts DEF TypeOK, Stream, Frames
    <3>2. /\ sid[f.cast] = f.session /\ pc[f.cast] # "idle"
          /\ Registered(f.cast) \/ f.cast \in unsure
      BY <1>1, <3>1 DEF Underway
    <3>3. Registered(f.cast)' \/ f.cast \in unsure'
      <4>1. CASE f.cast # r
        BY <1>2, <1>3, <3>1, <3>2, <4>1 DEF Registered, Steady
      <4>2. CASE f.cast = r
        <5>1. CASE next \in {"close", "settle"}
          BY <1>6, <3>1, <4>2, <5>1 DEF Over
        <5>2. CASE next \in {"drain", "done"}
          <6>1. ~Registered(r)
            BY <5>2 DEF Turn, Goes, Registered
          <6>. QED BY <1>3, <3>2, <4>2, <6>1 DEF Steady
        <5>3. CASE next \notin {"close", "settle", "drain", "done"}
          BY <1>2, <4>2, <5>3 DEF Registered, StepPc
        <5>. QED BY <5>1, <5>2, <5>3
      <4>. QED BY <4>1, <4>2
    <3>. QED BY <1>3, <3>1, <3>2, <3>3 DEF Steady
  <2>2. todo' # <<>> => sid[frame.cast] = frame.session /\ pc'[frame.cast] # "idle"
    <3>1. todo # <<>> => frame.cast \in Recordings
      BY <1>1, MessageFacts DEF TypeOK
    <3>. QED BY <1>1, <1>3, <1>6, <3>1 DEF Underway, Steady
  <2>. QED BY <1>5, <1>6, <2>1, <2>2 DEF Underway
<1>16. Recorded'
  <2>1. \A q \in Others(r) : q \in Recordings /\ pc'[q] # "idle"
    BY <1>3 DEF Others, Steady
  <2>2. \A q \in aborted' \cup unsure' \cup crowd' \cup refused' : pc'[q] # "idle"
    <3>1. \A q \in aborted \cup unsure \cup crowd \cup refused : q \in Recordings /\ pc'[q] # "idle"
      BY <1>1, <1>3 DEF TypeOK, Recorded, Steady
    <3>. QED BY <1>2, <1>4, <1>6, <2>1, <3>1
  <2>3. \A q \in Recordings : pc'[q] = "close" => q \in aborted'
    BY <1>1, <1>2, <1>3, <1>6 DEF Recorded, Steady
  <2>4. ASSUME NEW p \in Recordings, NEW q \in Recordings,
               Active(p)', Active(q)', sid[p] = sid[q], p # q
        PROVE  p \in crowd'
    <3>1. CASE Active(p) /\ Active(q)
      BY <1>1, <1>3, <2>4, <3>1 DEF Recorded, Steady
    <3>2. CASE ~Active(p)
      <4>1. p = r /\ next = "start"
        BY <1>2, <2>4, <3>2 DEF Active
      <4>2. q \in Others(r)
        BY <1>2, <2>4, <4>1 DEF Others, Active
      <4>. QED BY <1>6, <4>1, <4>2
    <3>3. CASE ~Active(q)
      <4>1. q = r /\ next = "start"
        BY <1>2, <2>4, <3>3 DEF Active
      <4>2. p \in Others(r)
        BY <1>2, <2>4, <4>1 DEF Others, Active
      <4>. QED BY <1>6, <4>1, <4>2
    <3>. QED BY <3>1, <3>2, <3>3
  <2>. QED BY <1>6, <2>2, <2>3, <2>4 DEF Recorded
<1>17. GetsOwn'
  <2> SUFFICES ASSUME NEW q \in Recordings
               PROVE  /\ q \in Range(todo) /\ Takes(q, frame) => Gets(q, frame.cast)'
                      /\ \A i \in DOMAIN ackCh[q] : Gets(q, ackCh[q][i].cast)'
    BY <1>6 DEF GetsOwn, Takes
  <2>1. /\ q \in Range(todo) /\ Takes(q, frame) => Gets(q, frame.cast)
        /\ \A i \in DOMAIN ackCh[q] : Gets(q, ackCh[q][i].cast)
    BY <1>1 DEF GetsOwn
  <2>2. q \in Range(todo) => frame.cast \in Recordings
    <3>1. q \in Range(todo) => todo # <<>>
      BY DEF Range
    <3>. QED BY <1>1, <3>1, MessageFacts DEF TypeOK
  <2>3. \A i \in DOMAIN ackCh[q] : ackCh[q][i].cast \in Recordings
    BY <1>1, MessageFacts DEF TypeOK
  <2>4. ASSUME q \in Range(todo), Takes(q, frame)
        PROVE  Gets(q, frame.cast)'
    <3>1. PICK p \in Recordings : p = frame.cast
      BY <2>2, <2>4
    <3>2. Gets(q, p)'
      BY <1>3, <2>1, <2>4, <3>1
    <3>. QED BY <1>6, <3>1, <3>2 DEF Gets, Shares
  <2>5. ASSUME NEW i \in DOMAIN ackCh[q]
        PROVE  Gets(q, ackCh[q][i].cast)'
    <3>1. PICK p \in Recordings : p = ackCh[q][i].cast
      BY <2>3
    <3>2. Gets(q, p)'
      BY <1>3, <2>1, <3>1
    <3>. QED BY <1>6, <3>1, <3>2 DEF Gets, Shares
  <2>. QED BY <2>4, <2>5
<1>18. Counted'
  <2> SUFFICES ASSUME NEW q \in Recordings, Active(q)', ~Shares(q)'
               PROVE  /\ Cardinality(Unacked(q)') <= InFlight
                      /\ cast'[sid[q]] = q => Cardinality(Unacked(q)') <= credit'[sid[q]]
    BY <1>6 DEF Counted
  <2>1. Unacked(q)' = Unacked(q)
    BY <1>5, <1>6 DEF Unacked, Takes
  <2>2. CASE Active(q)
    <3>1. /\ Cardinality(Unacked(q)) <= InFlight
          /\ cast[sid[q]] = q => Cardinality(Unacked(q)) <= credit[sid[q]]
      BY <1>1, <1>3, <2>2 DEF Counted
    <3>2. q = r => next # "start"
      BY <1>2, <2>2 DEF Active
    <3>3. cast'[sid[q]] = q => cast[sid[q]] = q /\ credit'[sid[q]] = credit[sid[q]]
      BY <1>4, <1>7, <3>2
    <3>. QED BY <2>1, <3>1, <3>3
  <2>3. CASE ~Active(q)
    <3>1. q = r /\ next = "start" /\ pc[r] = "idle"
      BY <1>2, <2>3 DEF Active
    <3>2. \A f \in Frames : f.cast # r
      BY <1>1, <3>1 DEF Underway
    <3>3. r \notin Range(todo)
      BY <1>1, <3>1 DEF InSequence
    <3>4. ackCh[r] = <<>>
      BY <1>1, <2>3, <3>1 DEF NothingRuns
    <3>5. Unacked(q) = {}
      BY <3>1, <3>2, <3>3, <3>4 DEF Unacked
    <3>6. Cardinality(Unacked(q)') = 0
      BY <2>1, <3>5, FS_EmptySet
    <3>7. cast'[sid[q]] = q => credit'[sid[q]] = 0
      <4>1. cast[sid[r]] # r
        <5> SUFFICES ASSUME cast[sid[r]] = r PROVE FALSE
          OBVIOUS
        <5>1. \/ pc[r] \in {"start", "script", "record", "poll"}
              \/ r \in aborted \cap unsure
              \/ r \in refused /\ (pc[r] = "stop" \/ r \in unsure)
          BY <1>1, <1>7 DEF Casting
        <5>. QED BY <1>1, <3>1, <5>1 DEF Recorded
      <4>. QED BY <1>4, <1>7, <3>1, <4>1
    <3>. QED BY <3>6, <3>7, RecordingAssumption
  <2>. QED BY <2>2, <2>3
<1>19. LateCalls'
  <2> SUFFICES ASSUME NEW q \in Range(todo), Closed(q)', Takes(q, frame)
               PROVE  q \in aborted' \/ Shares(q)'
    BY <1>6 DEF LateCalls, Takes
  <2>1. q \in Recordings /\ todo # <<>>
    BY <1>1 DEF TypeOK, Range
  <2>2. CASE Closed(q)
    BY <1>1, <1>3, <2>1, <2>2 DEF LateCalls, Steady
  <2>3. CASE ~Closed(q)
    <3>1. q = r /\ next = "drain"
      BY <1>2, <2>1, <2>3 DEF Closed, Turn, Goes
    <3>2. CASE pc[r] = "close"
      BY <1>1, <1>3, <3>1, <3>2 DEF Recorded, Steady
    <3>3. CASE pc[r] # "close"
      <4>1. Blocked /\ pc[r] = "settle"
        BY <1>6, <3>1, <3>3 DEF Settled, Turn, Goes
      <4>2. PICK h : h = Head(todo)
        OBVIOUS
      <4>3. h \in Recordings /\ h \in Range(todo)
        <5>1. todo \in Seq(Recordings)
          BY <1>1 DEF TypeOK
        <5>2. Head(todo) \in Recordings /\ Range(todo) = Range(Tail(todo)) \cup {Head(todo)}
          BY <2>1, <5>1, TailFacts
        <5>. QED BY <4>2, <5>2
      <4>4. Takes(h, frame) /\ ~Closed(h) /\ Shares(h)
        BY <4>1, <4>2 DEF Blocked, BlockedShares
      <4>5. CASE h = r
        BY <1>3, <2>1, <3>1, <4>4, <4>5
      <4>6. CASE h # r
        <5>1. sid[h] = sid[r] /\ Active(h) /\ Active(r)
          BY <1>1, <3>1, <4>1, <4>3, <4>4 DEF Takes, InSequence, Active, Closed
        <5>2. Shares(r)
          BY <1>1, <4>3, <4>6, <5>1 DEF Recorded, Shares
        <5>. QED BY <1>3, <3>1, <5>2
      <4>. QED BY <4>5, <4>6
    <3>. QED BY <3>2, <3>3
  <2>. QED BY <2>2, <2>3
<1>20. Excused'
  <2> SUFFICES ASSUME panicked # None PROVE panicked \in aborted' \/ Shares(panicked)'
    BY <1>6 DEF Excused
  <2>1. panicked \in Recordings /\ (panicked \in aborted \/ Shares(panicked))
    BY <1>1 DEF TypeOK, Excused
  <2>2. PICK p \in Recordings : p = panicked
    BY <2>1
  <2>3. p \in aborted' \/ Shares(p)'
    BY <1>3, <2>1, <2>2 DEF Steady
  <2>. QED BY <1>6, <2>2, <2>3 DEF Shares
<1>. QED BY <1>9, <1>10, <1>11, <1>12, <1>13, <1>14, <1>15, <1>16, <1>17, <1>18, <1>19,
     <1>20
   DEF IInv, Inv

-----------------------------------------------------------------------------
(* The read loop                                                             *)

\* What the read loop, the pumps and Chrome leave alone.
Aside == UNCHANGED <<sid, pc, aborted, unsure, crowd, handlers, refused>>

\* And so what it means for the recordings.
LEMMA AsideKeeps ==
    ASSUME Aside
    PROVE  /\ \A q : /\ Active(q)' = Active(q) /\ Registered(q)' = Registered(q)
                     /\ Shares(q)' = Shares(q) /\ Closed(q)' = Closed(q)
           /\ \A q, p : Gets(q, p)' = Gets(q, p)
           /\ Recorded' = Recorded
<1>1. \A q : /\ Active(q)' = Active(q) /\ Registered(q)' = Registered(q)
             /\ Shares(q)' = Shares(q) /\ Closed(q)' = Closed(q)
  BY DEF Aside, Active, Registered, Shares, Closed
<1>2. \A q, p : Gets(q, p)' = Gets(q, p)
  BY DEF Aside, Gets, Shares
<1>3. Recorded' = Recorded
  BY DEF Aside, Recorded, Active
<1>. QED BY <1>1, <1>2, <1>3

\* What is known of a frame on its way: a recording of its session that is
\* registered gets it from its own screencast, or shares the session.
LEMMA FrameGoes ==
    ASSUME TypeOK, Underway, Recorded, NEW f \in Frames, NEW r \in Recordings,
           Registered(r), Takes(r, f)
    PROVE  Gets(r, f.cast)
<1>1. f.cast \in Recordings
  BY StreamFacts, MessageFacts DEF TypeOK, Stream, Frames
<1>2. PICK p \in Recordings : p = f.cast
  BY <1>1
<1>3. /\ sid[p] = sid[r] /\ pc[p] # "idle" /\ (Registered(p) \/ p \in unsure)
      /\ Active(r) /\ (Registered(p) => Active(p))
  BY <1>2 DEF Underway, Takes, Registered, Active
<1>4. CASE p # r /\ Active(p)
  BY <1>2, <1>3, <1>4 DEF Recorded, Gets, Shares
<1>5. CASE p # r /\ ~Active(p)
  <2>1. p \in unsure /\ pc[p] = "done"
    BY <1>3, <1>5 DEF Active
  <2>. QED BY <1>2, <1>3, <1>5, <2>1 DEF Gets, Shares
<1>6. CASE p = r
  BY <1>2, <1>6 DEF Gets
<1>. QED BY <1>4, <1>5, <1>6

\* What is known of frames stays known.
LEMMA GetsStays ==
    ASSUME Aside,
           \A r \in Recordings :
              /\ r \in Range(todo') /\ frame'.session = sid[r] => Gets(r, frame'.cast)
              /\ \A i \in DOMAIN ackCh'[r] : Gets(r, ackCh'[r][i].cast)
    PROVE  GetsOwn'
BY DEF GetsOwn, Gets, Shares, Takes, Aside, Range

\* What is counted is finite.
LEMMA UnackedFinite ==
    ASSUME TypeOK, NEW r \in Recordings
    PROVE  IsFiniteSet(Unacked(r)) /\ Unacked(r) \subseteq Int /\ Cardinality(Unacked(r)) \in Nat
<1>1. inbox \in Stream /\ ackCh[r] \in Seq(Frame)
  BY DEF TypeOK, Stream
<1>2. Frames \subseteq Frame
  BY <1>1, StreamFacts DEF Frames
<1>3. \A f \in Frame : f.n \in 1..MaxFrames
  BY DEF Frame
<1>4. r \in Range(todo) => frame \in Frame
  <2>1. r \in Range(todo) => todo # <<>>
    BY DEF Range
  <2>. QED BY <2>1 DEF TypeOK
<1>5. \A i \in DOMAIN ackCh[r] : ackCh[r][i] \in Frame
  BY <1>1
<1>6. Unacked(r) \subseteq 1..MaxFrames
  BY <1>2, <1>3, <1>4, <1>5 DEF Unacked
<1>7. IsFiniteSet(1..MaxFrames) /\ MaxFrames \in Nat
  BY MessageFacts, FS_Interval
<1>8. IsFiniteSet(Unacked(r))
  BY <1>6, <1>7, FS_Subset
<1>. QED BY <1>6, <1>8, FS_CardinalityType

\* The count goes on when nothing is added and Chrome's stays.
LEMMA CountStays ==
    ASSUME TypeOK, TypeOK', Counted, Aside,
           \A r \in Recordings : Active(r) /\ ~Shares(r) => Unacked(r)' \subseteq Unacked(r),
           UNCHANGED <<cast, credit>>
    PROVE  Counted'
<1> SUFFICES ASSUME NEW r \in Recordings, Active(r)', ~Shares(r)'
             PROVE  /\ Cardinality(Unacked(r)') <= InFlight
                    /\ cast'[sid'[r]] = r => Cardinality(Unacked(r)') <= credit'[sid'[r]]
  BY DEF Counted
<1>1. Active(r) /\ ~Shares(r)
  BY AsideKeeps
<1>2. IsFiniteSet(Unacked(r)) /\ Cardinality(Unacked(r)) \in Nat
  BY UnackedFinite
<1>3. Cardinality(Unacked(r)') \in Nat /\ Cardinality(Unacked(r)') <= Cardinality(Unacked(r))
  BY <1>1, <1>2, FS_Subset, FS_CardinalityType
<1>4. /\ Cardinality(Unacked(r)) <= InFlight
      /\ cast[sid[r]] = r => Cardinality(Unacked(r)) <= credit[sid[r]]
  BY <1>1 DEF Counted
<1>5. sid[r] \in Sessions /\ sid'[r] = sid[r] /\ credit[sid[r]] \in Int /\ InFlight \in Nat
  BY RecordingAssumption DEF TypeOK, Aside
<1>. QED BY <1>2, <1>3, <1>4, <1>5

\* The handlers are called for the next frame.
LEMMA ReadKeeps ==
    ASSUME IInv, ReadFrame
    PROVE  IInv'
<1>1. TypeOK /\ AckedOnce /\ NothingRuns /\ InSequence /\ Awaited /\ Casting /\ Underway
      /\ Recorded /\ GetsOwn /\ Counted /\ LateCalls /\ Excused
  BY DEF IInv, Inv
<1> DEFINE q == inbox
           t == Tail(inbox)
           m == Head(inbox)
<1>2. /\ q \in Stream /\ q # <<>> /\ m.is = "frame" /\ todo = <<>> /\ todo' = handlers
      /\ frame' = (IF handlers = <<>> THEN None ELSE m) /\ inbox' = t
      /\ UNCHANGED <<sid, pc, cancelled, aborted, unsure, crowd, handlers, frames, ackCh, pump,
                     cast, credit, shown, refused, panicked>>
  BY <1>1 DEF ReadFrame, step_vars, chrome_vars, TypeOK, Stream
<1>3. /\ m = q[1] /\ m \in Frame \cup Answer /\ t \in Stream /\ Len(q) \in Nat \ {0}
      /\ DOMAIN q = 1..Len(q) /\ DOMAIN t = 1..(Len(q) - 1)
      /\ \A i \in 1..(Len(q) - 1) : t[i] = q[i + 1]
      /\ Part(t, q) /\ Range(q) = Range(t) \cup {m}
  BY <1>2, TailFacts DEF Stream
<1>4. m \in Frame /\ m.is # "answer"
  BY <1>2, <1>3, MessageFacts
<1>5. InOrder(q) /\ OneAnswerEach(q) /\ EndsLast(q)
  BY <1>1 DEF InSequence, Awaited, Underway
<1>6. InOrder(t) /\ OneAnswerEach(t) /\ EndsLast(t)
  BY <1>2, <1>3, <1>5, PartKeeps
<1> HIDE DEF q, t, m
<1>7. Frames' = FramesIn(t) /\ Answers' = AnswersIn(t) /\ Frames = FramesIn(q) /\ Answers = AnswersIn(q)
  BY <1>2 DEF Frames, Answers, FramesIn, AnswersIn, q
<1>8. Frames = Frames' \cup {m} /\ Answers' = Answers
  BY <1>2, <1>3, <1>4, <1>7 DEF FramesIn, AnswersIn
<1>9. \A f \in Frames' : m.n < f.n
  <2> SUFFICES ASSUME NEW i \in 1..(Len(q) - 1), t[i].is = "frame"
               PROVE  m.n < t[i].n
    BY <1>3, <1>7 DEF FramesIn, Range
  <2>1. 1 \in DOMAIN q /\ i + 1 \in DOMAIN q /\ 1 < i + 1 /\ t[i] = q[i + 1]
    BY <1>3
  <2>. QED BY <1>2, <1>3, <1>5, <2>1 DEF InOrder
<1>10. Aside
  BY <1>2 DEF Aside
<1>11. \A r \in Range(handlers) : r \in Recordings /\ Registered(r) /\ pc[r] # "idle" /\ ~Closed(r)
  BY <1>1 DEF NothingRuns, Registered, Closed
<1>12. \A r \in Range(handlers) : handlers # <<>> /\ frame' = m
  BY <1>2 DEF Range
<1>13. TypeOK'
  <2>1. handlers \in Seq(Recordings)
    BY <1>1 DEF TypeOK
  <2>2. todo' \in Seq(Recordings) /\ IF todo' = <<>> THEN frame' = None ELSE frame' \in Frame
    BY <1>2, <1>4, <2>1
  <2>. QED BY <1>1, <1>2, <1>3, <2>2 DEF TypeOK, Stream
<1>14. AckedOnce' /\ NothingRuns' /\ Recorded' /\ Excused'
  <2>1. AckedOnce'
    BY <1>1, <1>2 DEF AckedOnce
  <2>2. NothingRuns'
    BY <1>1, <1>2 DEF NothingRuns, Registered, Active
  <2>3. Excused'
    BY <1>1, <1>2 DEF Excused, Shares
  <2>. QED BY <1>1, <1>10, <2>1, <2>2, <2>3, AsideKeeps
<1>15. InSequence'
  <2>1. IsInjective(todo') /\ \A r \in Range(todo') : pc'[r] # "idle"
    BY <1>1, <1>2, <1>11 DEF NothingRuns
  <2>2. \A f \in Frames' : f.n <= shown' /\ (todo' # <<>> => frame'.n < f.n)
    BY <1>1, <1>2, <1>8, <1>9 DEF InSequence
  <2>3. todo' # <<>> => frame'.n <= shown'
    BY <1>1, <1>2, <1>8 DEF InSequence
  <2>4. ASSUME NEW r \in Recordings, NEW i \in DOMAIN frames'[r]
        PROVE  /\ frames'[r][i].n <= shown'
               /\ \A f \in Frames' : frames'[r][i].n < f.n
               /\ r \in Range(todo') => frames'[r][i].n < frame'.n
    BY <1>1, <1>2, <1>8, <1>12, <2>4 DEF InSequence
  <2>5. InOrder(inbox')
    BY <1>2, <1>6
  <2>. QED BY <2>1, <2>2, <2>3, <2>4, <2>5 DEF InSequence
<1>16. Awaited' /\ Casting'
  <2>1. OneAnswerEach(inbox') /\ \A a \in Answers' : a.op = pc'[a.by]
    BY <1>1, <1>2, <1>6, <1>8 DEF Awaited
  <2>2. Casting'
    BY <1>1, <1>2, <1>8 DEF Casting
  <2>. QED BY <2>1, <2>2 DEF Awaited
<1>17. Underway'
  <2>1. \A f \in Frames' : /\ sid'[f.cast] = f.session /\ pc'[f.cast] # "idle"
                           /\ Registered(f.cast)' \/ f.cast \in unsure'
    BY <1>1, <1>2, <1>8 DEF Underway, Registered
  <2>2. EndsLast(inbox')
    BY <1>2, <1>6
  <2>3. todo' # <<>> => sid'[frame'.cast] = frame'.session /\ pc'[frame'.cast] # "idle"
    BY <1>1, <1>2, <1>8 DEF Underway
  <2>. QED BY <2>1, <2>2, <2>3 DEF Underway
<1>18. \A r \in Range(handlers) : Takes(r, m) => Gets(r, m.cast)
  BY <1>1, <1>8, <1>11, FrameGoes
<1>19. GetsOwn'
  <2> SUFFICES ASSUME NEW r \in Recordings
               PROVE  /\ r \in Range(todo') /\ frame'.session = sid[r] => Gets(r, frame'.cast)
                      /\ \A i \in DOMAIN ackCh'[r] : Gets(r, ackCh'[r][i].cast)
    BY <1>10, GetsStays
  <2>1. ASSUME r \in Range(todo'), frame'.session = sid[r]
        PROVE  Gets(r, frame'.cast)
    <3>1. r \in Range(handlers) /\ frame' = m /\ Takes(r, m)
      BY <1>2, <1>12, <2>1 DEF Takes
    <3>. QED BY <1>18, <3>1
  <2>. QED BY <1>1, <1>2, <2>1 DEF GetsOwn
<1>20. Counted'
  <2>1. ASSUME NEW r \in Recordings, Active(r), ~Shares(r)
        PROVE  Unacked(r)' \subseteq Unacked(r)
    <3>1. r \notin Range(todo)
      BY <1>2 DEF Range
    <3>2. r \in Range(handlers) /\ Takes(r, m) => m.cast = r
      BY <1>18, <2>1 DEF Gets
    <3>3. (IF r \in Range(todo') /\ Takes(r, frame)' THEN {frame'.n} ELSE {})
            \subseteq {f.n : f \in {g \in Frames : g.cast = r}}
      BY <1>2, <1>8, <1>12, <3>2 DEF Takes
    <3>4. Unacked(r)' = {f.n : f \in {g \in Frames' : g.cast = r}}
                          \cup (IF r \in Range(todo') /\ Takes(r, frame)' THEN {frame'.n} ELSE {})
                          \cup {ackCh[r][i].n : i \in DOMAIN ackCh[r]}
      BY <1>2 DEF Unacked, Range
    <3>. QED BY <1>8, <3>3, <3>4 DEF Unacked
  <2>. QED BY <1>1, <1>2, <1>10, <1>13, <2>1, CountStays
<1>21. LateCalls'
  BY <1>2, <1>11 DEF LateCalls, Closed, Range
<1>. QED BY <1>13, <1>14, <1>15, <1>16, <1>17, <1>19, <1>20, <1>21 DEF IInv, Inv

\* A sequence ends with the rest of what it ended with, and with more when both go on.
LEMMA EndsFacts ==
    ASSUME NEW S, NEW t \in Seq(S), NEW p \in Seq(S), NEW q \in Seq(S), NEW f \in S,
           Ends(t, p \o q)
    PROVE  /\ Ends(t, q)
           /\ Ends(Append(t, f), p \o Append(q, f))
<1>1. /\ Len(t) \in Nat /\ Len(p) \in Nat /\ Len(q) \in Nat
      /\ p \o q \in Seq(S) /\ Len(p \o q) = Len(p) + Len(q)
      /\ \A i \in 1..(Len(p) + Len(q)) :
           (p \o q)[i] = IF i <= Len(p) THEN p[i] ELSE q[i - Len(p)]
  BY ConcatProperties
<1> DEFINE k == Len(p) + Len(q)
           u == p \o q
<1>2. k \in Nat /\ DOMAIN u = 1..k /\ DOMAIN q = 1..Len(q) /\ u \in Seq(S) /\ Len(u) = k
  BY <1>1
<1>3. k <= Len(t) /\ \A i \in 1..k : u[i] = t[Len(t) - k + i]
  BY <1>1, <1>2 DEF Ends
<1>4. Ends(t, q)
  <2>1. Len(q) <= Len(t)
    BY <1>1, <1>3
  <2>2. ASSUME NEW i \in 1..Len(q)
        PROVE  q[i] = t[Len(t) - Len(q) + i]
    <3>1. Len(p) + i \in 1..k /\ ~(Len(p) + i <= Len(p)) /\ (Len(p) + i) - Len(p) = i
          /\ Len(t) - k + (Len(p) + i) = Len(t) - Len(q) + i
      BY <1>1
    <3>2. u[Len(p) + i] = q[i]
      BY <1>1, <3>1
    <3>. QED BY <1>3, <3>1, <3>2
  <2>. QED BY <1>2, <2>1, <2>2 DEF Ends
<1>5. p \o Append(q, f) = Append(u, f)
  <2>1. Append(q, f) = q \o <<f>> /\ Append(u, f) = u \o <<f>> /\ <<f>> \in Seq(S)
    BY <1>2, AppendIsConcat
  <2>. QED BY <2>1, ConcatAssociative, SMTT(30)
<1> HIDE DEF k, u
<1>6. Ends(Append(t, f), Append(u, f))
  <2> DEFINE t1 == Append(t, f)
             u1 == Append(u, f)
  <2>1. /\ Len(t1) = Len(t) + 1 /\ t1[Len(t) + 1] = f /\ \A i \in 1..Len(t) : t1[i] = t[i]
        /\ Len(u1) = k + 1 /\ u1[k + 1] = f /\ \A i \in 1..k : u1[i] = u[i]
        /\ DOMAIN u1 = 1..(k + 1)
    BY <1>2, AppendFacts, AppendProperties
  <2> HIDE DEF t1, u1
  <2>2. ASSUME NEW i \in 1..(k + 1)
        PROVE  u1[i] = t1[Len(t1) - Len(u1) + i]
    <3>1. CASE i = k + 1
      <4>1. Len(t1) - Len(u1) + i = Len(t) + 1
        BY <1>1, <1>2, <2>1, <3>1
      <4>. QED BY <2>1, <3>1, <4>1
    <3>2. CASE i \in 1..k
      <4>1. Len(t1) - Len(u1) + i = Len(t) - k + i /\ Len(t) - k + i \in 1..Len(t)
        BY <1>1, <1>2, <1>3, <2>1, <3>2
      <4>. QED BY <1>3, <2>1, <3>2, <4>1
    <3>. QED BY <1>2, <3>1, <3>2
  <2>3. Len(u1) <= Len(t1)
    BY <1>1, <1>2, <1>3, <2>1
  <2>. QED BY <2>1, <2>2, <2>3 DEF Ends, t1, u1
<1>. QED BY <1>4, <1>5, <1>6 DEF u

\* A handler is called.
LEMMA CallKeeps ==
    ASSUME IInv, CallHandler
    PROVE  IInv'
<1>1. TypeOK /\ AckedOnce /\ NothingRuns /\ InSequence /\ Awaited /\ Casting /\ Underway
      /\ Recorded /\ GetsOwn /\ Counted /\ LateCalls /\ Excused
  BY DEF IInv, Inv
<1>2. PICK h : h = Head(todo)
  OBVIOUS
<1>3. /\ todo \in Seq(Recordings) /\ todo # <<>> /\ h \in Recordings /\ h \in Range(todo)
      /\ Tail(todo) \in Seq(Recordings) /\ IsInjective(Tail(todo))
      /\ Range(Tail(todo)) = Range(todo) \ {h}
  <2>1. todo \in Seq(Recordings) /\ IsInjective(todo) /\ todo # <<>>
    BY <1>1 DEF TypeOK, InSequence, CallHandler
  <2>. QED BY <1>2, <2>1, TailFacts
<1>4. /\ UNCHANGED <<sid, pc, cancelled, aborted, unsure, crowd, handlers, pump, inbox,
                     cast, credit, shown, refused>>
      /\ ~Blocked
  BY DEF CallHandler, step_vars, chrome_vars
<1>5. Aside
  BY <1>4 DEF Aside
<1>6. frame \in Frame /\ frame.cast \in Recordings
  BY <1>1, <1>3, MessageFacts DEF TypeOK
<1>7. Frames' = Frames /\ Answers' = Answers
  BY <1>4 DEF Frames, Answers, FramesIn, AnswersIn
<1>8. Recorded' /\ Awaited' /\ Casting'
  BY <1>1, <1>4, <1>5, <1>7, AsideKeeps DEF Awaited, Casting
<1>9. CASE Takes(h, frame) /\ Closed(h) /\ panicked' = h /\ UNCHANGED <<todo, frame, frames, ackCh>>
  <2>1. TypeOK'
    BY <1>1, <1>3, <1>4, <1>9 DEF TypeOK
  <2>2. AckedOnce' /\ NothingRuns' /\ InSequence' /\ Underway'
    BY <1>1, <1>4, <1>7, <1>9
    DEF AckedOnce, NothingRuns, InSequence, Underway, Registered, Active
  <2>3. GetsOwn' /\ Counted' /\ LateCalls'
    <3>1. GetsOwn'
      BY <1>1, <1>5, <1>9, GetsStays DEF GetsOwn, Takes
    <3>2. \A r \in Recordings : Unacked(r)' = Unacked(r)
      BY <1>4, <1>7, <1>9 DEF Unacked, Takes
    <3>3. Counted'
      BY <1>1, <1>4, <1>5, <2>1, <3>2, CountStays
    <3>4. LateCalls'
      BY <1>1, <1>4, <1>9 DEF LateCalls, Closed, Takes, Shares
    <3>. QED BY <3>1, <3>3, <3>4
  <2>4. Excused'
    <3>1. h \in aborted \/ Shares(h)
      BY <1>1, <1>3, <1>9 DEF LateCalls
    <3>. QED BY <1>4, <1>9, <3>1 DEF Excused, Shares
  <2>. QED BY <1>8, <2>1, <2>2, <2>3, <2>4 DEF IInv, Inv
<1>10. ASSUME HandlerDone, UNCHANGED panicked,
              \/ ~Takes(h, frame) /\ UNCHANGED <<frames, ackCh>>
              \/ /\ Takes(h, frame) /\ ~Closed(h)
                 /\ frames' = [frames EXCEPT ![h] = Append(@, frame)]
                 /\ ackCh' = [ackCh EXCEPT ![h] = Append(@, frame)]
       PROVE  IInv'
  <2>1. /\ todo' = Tail(todo) /\ frame' = (IF todo' = <<>> THEN None ELSE frame)
        /\ Range(todo') = Range(todo) \ {h} /\ panicked' = panicked
    BY <1>3, <1>10 DEF HandlerDone
  <2>2. \A r \in Range(todo') : r \in Range(todo) /\ r # h /\ frame' = frame
    <3>1. todo' = <<>> => Range(todo') = {}
      BY DEF Range
    <3>. QED BY <2>1, <3>1
  <2>3. \A r \in Recordings \ {h} : frames'[r] = frames[r] /\ ackCh'[r] = ackCh[r]
    BY <1>1, <1>10 DEF TypeOK
  <2>4. frames[h] \in Seq(Frame) /\ ackCh[h] \in Seq(Frame) /\ pump[h] \in Seq(Frame)
    BY <1>1, <1>3 DEF TypeOK
  <2>5. ~Takes(h, frame) => frames'[h] = frames[h] /\ ackCh'[h] = ackCh[h]
    BY <1>10
  <2>6. Takes(h, frame) => /\ frames'[h] = Append(frames[h], frame)
                           /\ ackCh'[h] = Append(ackCh[h], frame) /\ Active(h)
    <3>1. Takes(h, frame) => Active(h)
      BY <1>1, <1>3, <1>10 DEF InSequence, Active, Closed
    <3>. QED BY <1>1, <1>3, <1>10, <3>1 DEF TypeOK
  <2>7. Takes(h, frame) => Len(ackCh[h]) < Cap
    <3>1. Takes(h, frame) => ~Full(h)
      BY <1>2, <1>3, <1>4, <1>10 DEF Blocked
    <3>2. Len(ackCh[h]) <= Cap /\ Len(ackCh[h]) \in Nat /\ Cap \in Nat
      BY <1>1, <1>3, <2>4, RecordingAssumption DEF TypeOK
    <3>. QED BY <3>1, <3>2 DEF Full
  <2>8. TypeOK'
    <3>1. frames' \in [Recordings -> Seq(Frame)] /\ ackCh' \in [Recordings -> Seq(Frame)]
      <4>1. frames \in [Recordings -> Seq(Frame)] /\ ackCh \in [Recordings -> Seq(Frame)]
        BY <1>1 DEF TypeOK
      <4>2. Append(frames[h], frame) \in Seq(Frame) /\ Append(ackCh[h], frame) \in Seq(Frame)
        BY <1>6, <2>4
      <4>. QED BY <1>3, <1>10, <4>1, <4>2
    <3>2. \A r \in Recordings : Len(ackCh'[r]) <= Cap
      <4> SUFFICES ASSUME NEW r \in Recordings PROVE Len(ackCh'[r]) <= Cap
        OBVIOUS
      <4>1. Len(ackCh[r]) <= Cap
        BY <1>1 DEF TypeOK
      <4>2. CASE r = h /\ Takes(h, frame)
        <5>1. Len(Append(ackCh[h], frame)) = Len(ackCh[h]) + 1 /\ Len(ackCh[h]) \in Nat
          BY <1>6, <2>4
        <5>. QED BY <2>6, <2>7, <4>2, <5>1, RecordingAssumption
      <4>. QED BY <2>3, <2>5, <4>1, <4>2
    <3>3. todo' \in Seq(Recordings) /\ IF todo' = <<>> THEN frame' = None ELSE frame' \in Frame
      BY <1>3, <1>6, <2>1
    <3>. QED BY <1>1, <1>4, <2>1, <3>1, <3>2, <3>3 DEF TypeOK
  <2>9. AckedOnce'
    <3> SUFFICES ASSUME NEW r \in Recordings
                 PROVE  /\ \A i \in DOMAIN frames'[r] :
                             /\ frames'[r][i].session = sid[r]
                             /\ \A j \in DOMAIN frames'[r] : i < j => frames'[r][i].n < frames'[r][j].n
                        /\ Ends(frames'[r], pump[r] \o ackCh'[r])
      BY <1>4 DEF AckedOnce
    <3>1. /\ \A i \in DOMAIN frames[r] :
               /\ frames[r][i].session = sid[r]
               /\ \A j \in DOMAIN frames[r] : i < j => frames[r][i].n < frames[r][j].n
          /\ Ends(frames[r], pump[r] \o ackCh[r])
      BY <1>1 DEF AckedOnce
    <3>2. CASE r = h /\ Takes(h, frame)
      <4>1. Ends(frames'[r], pump[r] \o ackCh'[r])
        <5>1. Ends(frames[h], pump[h] \o ackCh[h])
          BY <3>1, <3>2
        <5>2. Ends(Append(frames[h], frame), pump[h] \o Append(ackCh[h], frame))
          BY <1>6, <2>4, <5>1, EndsFacts
        <5>. QED BY <2>6, <3>2, <5>2
      <4> DEFINE t == frames[h]
                 t1 == Append(t, frame)
      <4>2. t \in Seq(Frame) /\ frames'[r] = t1
        BY <2>4, <2>6, <3>2
      <4>3. /\ Len(t) \in Nat /\ DOMAIN t = 1..Len(t) /\ DOMAIN t1 = 1..(Len(t) + 1)
            /\ t1[Len(t) + 1] = frame /\ \A i \in 1..Len(t) : t1[i] = t[i]
        BY <1>6, <4>2, AppendFacts
      <4>4. /\ frame.session = sid[h]
            /\ \A i \in 1..Len(t) : /\ t[i].session = sid[h] /\ t[i].n < frame.n
                                    /\ \A j \in 1..Len(t) : i < j => t[i].n < t[j].n
        BY <1>1, <1>3, <3>1, <3>2, <4>3 DEF InSequence, Takes
      <4> HIDE DEF t, t1
      <4>5. \A i \in 1..(Len(t) + 1) : i \in 1..Len(t) \/ i = Len(t) + 1
        BY <4>3
      <4>6. ASSUME NEW i \in 1..(Len(t) + 1)
            PROVE  /\ t1[i].session = sid[h]
                   /\ \A j \in 1..(Len(t) + 1) : i < j => t1[i].n < t1[j].n
        <5>1. t1[i].session = sid[h]
          BY <4>3, <4>4, <4>5
        <5>2. ASSUME NEW j \in 1..(Len(t) + 1), i < j
              PROVE  t1[i].n < t1[j].n
          <6>1. i \in 1..Len(t)
            BY <4>3, <5>2
          <6>2. CASE j \in 1..Len(t)
            BY <4>3, <4>4, <5>2, <6>1, <6>2
          <6>3. CASE j = Len(t) + 1
            BY <4>3, <4>4, <6>1, <6>3
          <6>. QED BY <4>5, <6>2, <6>3
        <5>. QED BY <5>1, <5>2
      <4>. QED BY <3>2, <4>1, <4>2, <4>3, <4>6
    <3>. QED BY <2>3, <2>5, <3>1, <3>2
  <2>10. NothingRuns'
    <3>1. ASSUME NEW r \in Recordings, ~Active(r)'
          PROVE  frames'[r] = <<>> /\ pump'[r] = <<>> /\ ackCh'[r] = <<>>
      <4>1. ~Active(r)
        BY <1>5, <3>1, AsideKeeps
      <4>2. frames'[r] = frames[r] /\ ackCh'[r] = ackCh[r]
        BY <2>3, <2>5, <2>6, <4>1
      <4>. QED BY <1>1, <1>4, <4>1, <4>2 DEF NothingRuns
    <3>2. IsInjective(handlers') /\ Range(handlers') = {r \in Recordings : Registered(r)'}
      BY <1>1, <1>4 DEF NothingRuns, Registered
    <3>. QED BY <3>1, <3>2 DEF NothingRuns
  <2>11. InSequence'
    <3>1. IsInjective(todo') /\ \A r \in Range(todo') : pc'[r] # "idle"
      BY <1>1, <1>3, <1>4, <2>1, <2>2 DEF InSequence
    <3>2. todo' # <<>> => frame' = frame
      BY <2>1
    <3>3. ASSUME NEW r \in Recordings, NEW i \in DOMAIN frames'[r]
          PROVE  /\ frames'[r][i].n <= shown'
                 /\ \A f \in Frames' : frames'[r][i].n < f.n
                 /\ r \in Range(todo') => frames'[r][i].n < frame'.n
      <4>1. ASSUME i \in DOMAIN frames[r], frames'[r][i] = frames[r][i]
            PROVE  /\ frames'[r][i].n <= shown'
                   /\ \A f \in Frames' : frames'[r][i].n < f.n
                   /\ r \in Range(todo') => frames'[r][i].n < frame'.n
        BY <1>1, <1>4, <1>7, <2>2, <4>1 DEF InSequence
      <4>2. CASE r = h /\ Takes(h, frame)
        <5> DEFINE t == frames[h]
        <5>1. frames'[r] = Append(t, frame) /\ t \in Seq(Frame)
          BY <2>4, <2>6, <4>2
        <5>2. /\ Len(t) \in Nat /\ DOMAIN t = 1..Len(t) /\ DOMAIN Append(t, frame) = 1..(Len(t) + 1)
              /\ Append(t, frame)[Len(t) + 1] = frame /\ \A j \in 1..Len(t) : Append(t, frame)[j] = t[j]
          BY <1>6, <5>1, AppendFacts
        <5>3. CASE i \in 1..Len(t)
          BY <4>1, <4>2, <5>1, <5>2, <5>3
        <5>4. CASE i = Len(t) + 1
          <6>1. frames'[r][i] = frame /\ r \notin Range(todo')
            BY <2>2, <4>2, <5>1, <5>2, <5>4
          <6>. QED BY <1>1, <1>3, <1>4, <1>7, <6>1 DEF InSequence
        <5>. QED BY <3>3, <5>1, <5>2, <5>3, <5>4
      <4>3. CASE ~(r = h /\ Takes(h, frame))
        <5>1. frames'[r] = frames[r]
          BY <2>3, <2>5, <4>3
        <5>. QED BY <3>3, <4>1, <5>1
      <4>. QED BY <4>2, <4>3
    <3>. QED BY <1>1, <1>3, <1>4, <1>7, <3>1, <3>2, <3>3 DEF InSequence
  <2>12. Underway' /\ LateCalls' /\ Excused'
    <3>1. todo' # <<>> => frame' = frame
      BY <2>1
    <3>2. Underway'
      BY <1>1, <1>3, <1>4, <1>7, <3>1 DEF Underway, Registered
    <3>3. LateCalls'
      BY <1>1, <1>4, <2>2 DEF LateCalls, Closed, Takes, Shares
    <3>4. Excused'
      BY <1>1, <1>4, <2>1 DEF Excused, Shares
    <3>. QED BY <3>2, <3>3, <3>4
  <2>13. Takes(h, frame) => Gets(h, frame.cast)
    BY <1>1, <1>3 DEF GetsOwn
  <2>14. \A r \in Recordings : \A i \in DOMAIN ackCh'[r] :
            \/ i \in DOMAIN ackCh[r] /\ ackCh'[r][i] = ackCh[r][i]
            \/ r = h /\ Takes(h, frame) /\ ackCh'[r][i] = frame
    <3> SUFFICES ASSUME NEW r \in Recordings, NEW i \in DOMAIN ackCh'[r]
                 PROVE  \/ i \in DOMAIN ackCh[r] /\ ackCh'[r][i] = ackCh[r][i]
                        \/ r = h /\ Takes(h, frame) /\ ackCh'[r][i] = frame
      OBVIOUS
    <3>1. CASE r = h /\ Takes(h, frame)
      <4> DEFINE t == ackCh[h]
      <4>1. ackCh'[r] = Append(t, frame) /\ t \in Seq(Frame)
        BY <2>4, <2>6, <3>1
      <4>2. /\ Len(t) \in Nat /\ DOMAIN t = 1..Len(t) /\ DOMAIN Append(t, frame) = 1..(Len(t) + 1)
            /\ Append(t, frame)[Len(t) + 1] = frame /\ \A j \in 1..Len(t) : Append(t, frame)[j] = t[j]
        BY <1>6, <4>1, AppendFacts
      <4>3. i \in 1..Len(t) \/ i = Len(t) + 1
        BY <4>1, <4>2
      <4>. QED BY <3>1, <4>1, <4>2, <4>3
    <3>2. CASE ~(r = h /\ Takes(h, frame))
      BY <2>3, <2>5, <3>2
    <3>. QED BY <3>1, <3>2
  <2>15. GetsOwn'
    <3> SUFFICES ASSUME NEW r \in Recordings
                 PROVE  /\ r \in Range(todo') /\ frame'.session = sid[r] => Gets(r, frame'.cast)
                        /\ \A i \in DOMAIN ackCh'[r] : Gets(r, ackCh'[r][i].cast)
      BY <1>5, GetsStays
    <3>. QED BY <1>1, <2>2, <2>13, <2>14 DEF GetsOwn, Takes
  <2>16. Counted'
    <3>1. ASSUME NEW r \in Recordings, Active(r), ~Shares(r)
          PROVE  Unacked(r)' \subseteq Unacked(r)
      <4>1. Unacked(r)' = {f.n : f \in {g \in Frames : g.cast = r}}
                           \cup (IF r \in Range(todo') /\ frame'.session = sid[r] THEN {frame'.n} ELSE {})
                           \cup {ackCh'[r][i].n : i \in DOMAIN ackCh'[r]}
        BY <1>4, <1>7 DEF Unacked, Takes, Range
      <4>2. (IF r \in Range(todo') /\ frame'.session = sid[r] THEN {frame'.n} ELSE {}) \subseteq Unacked(r)
        BY <2>2 DEF Unacked, Takes
      <4>3. r = h /\ Takes(h, frame) => frame.n \in Unacked(r)
        BY <1>3 DEF Unacked
      <4>4. \A i \in DOMAIN ackCh'[r] : ackCh'[r][i].n \in Unacked(r)
        <5>1. \A i \in DOMAIN ackCh[r] : ackCh[r][i].n \in Unacked(r)
          BY DEF Unacked
        <5>. QED BY <2>14, <4>3, <5>1
      <4>5. {f.n : f \in {g \in Frames : g.cast = r}} \subseteq Unacked(r)
        BY DEF Unacked
      <4>. QED BY <4>1, <4>2, <4>4, <4>5
    <3>. QED BY <1>1, <1>4, <1>5, <2>8, <3>1, CountStays
  <2>. QED BY <1>8, <2>8, <2>9, <2>10, <2>11, <2>12, <2>15, <2>16 DEF IInv, Inv
<1>. QED BY <1>2, <1>9, <1>10 DEF CallHandler, loop_vars

-----------------------------------------------------------------------------
(* The pumps                                                                 *)

\* The frames in a channel have numbers of their own, in order, and the frame that is
\* handed out and those on their way come after them.
LEMMA AckNumbers ==
    ASSUME TypeOK, AckedOnce, InSequence, NEW r \in Recordings
    PROVE  /\ \A i, j \in DOMAIN ackCh[r] : i < j => ackCh[r][i].n < ackCh[r][j].n
           /\ \A i \in DOMAIN ackCh[r] :
                /\ \A f \in Frames : ackCh[r][i].n < f.n
                /\ r \in Range(todo) => ackCh[r][i].n < frame.n
<1> DEFINE t == frames[r]
           p == pump[r]
           q == ackCh[r]
<1>1. t \in Seq(Frame) /\ p \in Seq(Frame) /\ q \in Seq(Frame) /\ Ends(t, p \o q)
  BY DEF TypeOK, AckedOnce
<1>2. /\ \A i, j \in DOMAIN t : i < j => t[i].n < t[j].n
      /\ \A i \in DOMAIN t : /\ \A f \in Frames : t[i].n < f.n
                             /\ r \in Range(todo) => t[i].n < frame.n
  BY DEF AckedOnce, InSequence
<1> HIDE DEF t, p, q
<1>3. Ends(t, q)
  <2>1. PICK f : f \in Frame \/ q = <<>>
    BY <1>1
  <2>2. CASE f \in Frame
    BY <1>1, <2>2, EndsFacts
  <2>3. CASE q = <<>>
    BY <1>1, <2>3 DEF Ends
  <2>. QED BY <2>1, <2>2, <2>3
<1>4. /\ Len(t) \in Nat /\ Len(q) \in Nat /\ Len(q) <= Len(t)
      /\ DOMAIN t = 1..Len(t) /\ DOMAIN q = 1..Len(q)
      /\ \A i \in DOMAIN q : q[i] = t[Len(t) - Len(q) + i]
  BY <1>1, <1>3 DEF Ends
<1>5. \A i \in DOMAIN q : Len(t) - Len(q) + i \in DOMAIN t
  BY <1>4
<1>6. \A i, j \in DOMAIN q : i < j => q[i].n < q[j].n
  <2> SUFFICES ASSUME NEW i \in DOMAIN q, NEW j \in DOMAIN q, i < j
               PROVE  q[i].n < q[j].n
    OBVIOUS
  <2>1. Len(t) - Len(q) + i < Len(t) - Len(q) + j
    BY <1>4
  <2>. QED BY <1>2, <1>4, <1>5, <2>1
<1>7. \A i \in DOMAIN q : /\ \A f \in Frames : q[i].n < f.n
                          /\ r \in Range(todo) => q[i].n < frame.n
  BY <1>2, <1>4, <1>5
<1>. QED BY <1>6, <1>7 DEF q

\* The pump takes a frame, and Chrome may count its acknowledgement.
LEMMA TakeKeeps ==
    ASSUME IInv, NEW r \in Recordings, TakeAck(r)
    PROVE  IInv'
<1>1. TypeOK /\ AckedOnce /\ NothingRuns /\ InSequence /\ Awaited /\ Casting /\ Underway
      /\ Recorded /\ GetsOwn /\ Counted /\ LateCalls /\ Excused
  BY DEF IInv, Inv
<1>2. PICK q : q = ackCh[r]
  OBVIOUS
<1>3. /\ pump[r] = <<>> /\ q # <<>> /\ q \in Seq(Frame) /\ Len(q) <= Cap
      /\ pump' = [pump EXCEPT ![r] = <<Head(q)>>] /\ ackCh' = [ackCh EXCEPT ![r] = Tail(q)]
      /\ UNCHANGED <<sid, pc, cancelled, aborted, unsure, crowd, handlers, todo, frame, frames,
                     inbox, shown, refused, panicked>>
      /\ Effect(r, "ack") \/ UNCHANGED <<cast, credit>>
  BY <1>1, <1>2 DEF TakeAck, Carried, step_vars, loop_vars, chrome_vars, TypeOK
<1>4. /\ Head(q) = q[1] /\ Head(q) \in Frame /\ Tail(q) \in Seq(Frame)
      /\ Len(q) \in Nat \ {0} /\ Len(Tail(q)) = Len(q) - 1
      /\ DOMAIN q = 1..Len(q) /\ DOMAIN Tail(q) = 1..(Len(q) - 1)
      /\ \A i \in 1..(Len(q) - 1) : Tail(q)[i] = q[i + 1]
      /\ q = <<Head(q)>> \o Tail(q) /\ <<Head(q)>> \in Seq(Frame) /\ Len(<<Head(q)>>) = 1
  <2>1. q = <<Head(q)>> \o Tail(q)
    BY <1>3
  <2>. QED BY <1>3, <2>1, TailFacts
<1>5. /\ Aside /\ Frames' = Frames /\ Answers' = Answers
      /\ pump'[r] = <<Head(q)>> /\ ackCh'[r] = Tail(q)
      /\ \A p \in Recordings \ {r} : pump'[p] = pump[p] /\ ackCh'[p] = ackCh[p]
  BY <1>1, <1>3 DEF Aside, Frames, Answers, FramesIn, AnswersIn, TypeOK
<1>6. cast' = cast /\ \/ credit' = credit
                      \/ /\ Head(q).cast = cast[sid[r]]
                         /\ credit' = [credit EXCEPT ![sid[r]] = @ - 1]
  BY <1>2, <1>3 DEF Effect
<1>7. /\ credit' \in [Sessions -> Int] /\ sid[r] \in Sessions
      /\ \A s \in Sessions : credit[s] \in Int /\ (credit'[s] = credit[s] \/ credit'[s] = credit[s] - 1)
  BY <1>1, <1>6 DEF TypeOK
<1>8. TypeOK'
  <2>1. pump' \in [Recordings -> Seq(Frame)] /\ \A p \in Recordings : Len(pump'[p]) <= 1
    <3>1. /\ pump \in [Recordings -> Seq(Frame)]
          /\ \A p \in Recordings : Len(pump[p]) <= 1
      BY <1>1 DEF TypeOK
    <3>2. pump' \in [Recordings -> Seq(Frame)]
      BY <1>3, <1>4, <3>1
    <3>3. Len(pump'[r]) <= 1 /\ \A p \in Recordings \ {r} : Len(pump'[p]) <= 1
      BY <1>4, <1>5, <3>1
    <3>. QED BY <3>2, <3>3
  <2>2. ackCh' \in [Recordings -> Seq(Frame)]
    <3>1. ackCh \in [Recordings -> Seq(Frame)]
      BY <1>1 DEF TypeOK
    <3>. QED BY <1>3, <1>4, <3>1
  <2>3. \A p \in Recordings : Len(ackCh'[p]) <= Cap
    <3>1. Len(Tail(q)) <= Cap
      BY <1>3, <1>4, RecordingAssumption
    <3>. QED BY <1>1, <1>5, <3>1 DEF TypeOK
  <2>. QED BY <1>1, <1>3, <1>6, <1>7, <2>1, <2>2, <2>3 DEF TypeOK
<1>9. AckedOnce'
  <2>1. \A p \in Recordings : Ends(frames[p], pump'[p] \o ackCh'[p])
    <3> SUFFICES ASSUME NEW p \in Recordings PROVE Ends(frames[p], pump'[p] \o ackCh'[p])
      OBVIOUS
    <3>1. Ends(frames[p], pump[p] \o ackCh[p])
      BY <1>1 DEF AckedOnce
    <3>2. CASE p = r
      <4>1. pump[p] \o ackCh[p] = q
        <5>1. pump[p] = <<>> /\ ackCh[p] = q
          BY <1>2, <1>3, <3>2
        <5>2. <<>> \o q = q
          BY <1>3, ConcatEmptySeq
        <5>. QED BY <5>1, <5>2
      <4>2. pump'[p] \o ackCh'[p] = q
        BY <1>4, <1>5, <3>2
      <4>. QED BY <3>1, <4>1, <4>2
    <3>. QED BY <1>5, <3>1, <3>2
  <2>. QED BY <1>1, <1>3, <2>1 DEF AckedOnce
<1>10. Active(r)
  BY <1>1, <1>2, <1>3 DEF NothingRuns
<1>11. NothingRuns'
  <2>1. ASSUME NEW p \in Recordings, ~Active(p)'
        PROVE  frames'[p] = <<>> /\ pump'[p] = <<>> /\ ackCh'[p] = <<>>
    <3>1. ~Active(p) /\ p # r
      BY <1>5, <1>10, <2>1, AsideKeeps
    <3>. QED BY <1>1, <1>3, <1>5, <3>1 DEF NothingRuns
  <2>. QED BY <1>1, <1>3, <2>1 DEF NothingRuns, Registered
<1>12. InSequence' /\ Awaited' /\ Underway' /\ Recorded' /\ LateCalls' /\ Excused'
  <2>1. InSequence'
    BY <1>1, <1>3, <1>5 DEF InSequence
  <2>2. Awaited' /\ Underway'
    BY <1>1, <1>3, <1>5 DEF Awaited, Underway, Registered
  <2>3. LateCalls' /\ Excused'
    BY <1>1, <1>3 DEF LateCalls, Excused, Closed, Takes, Shares
  <2>. QED BY <1>1, <1>5, <2>1, <2>2, <2>3, AsideKeeps
<1>13. Casting'
  <2>1. ASSUME NEW s \in Sessions, cast[s] # None
        PROVE  LET p == cast[s] IN
               /\ sid[p] = s /\ credit'[s] <= InFlight
               /\ \/ pc[p] \in {"start", "script", "record", "poll"}
                  \/ p \in aborted \cap unsure
                  \/ p \in refused /\ (pc[p] = "stop" \/ p \in unsure)
    <3>1. credit[s] <= InFlight /\ InFlight \in Nat
      BY <1>1, <2>1, RecordingAssumption DEF Casting
    <3>2. credit'[s] <= InFlight
      BY <1>7, <3>1
    <3>. QED BY <1>1, <2>1, <3>2 DEF Casting
  <2>. QED BY <1>1, <1>3, <1>5, <1>6, <2>1 DEF Casting
<1>14. \A p \in Recordings : \A i \in DOMAIN ackCh'[p] :
         \E j \in DOMAIN ackCh[p] : ackCh'[p][i] = ackCh[p][j]
  <2>1. ASSUME NEW i \in DOMAIN ackCh'[r]
        PROVE  \E j \in DOMAIN ackCh[r] : ackCh'[r][i] = ackCh[r][j]
    <3>1. i \in 1..(Len(q) - 1) /\ ackCh'[r][i] = Tail(q)[i]
      BY <1>4, <1>5
    <3>2. i + 1 \in DOMAIN q /\ ackCh'[r][i] = q[i + 1]
      BY <1>4, <3>1
    <3>. QED BY <1>2, <3>2
  <2>2. \A p \in Recordings \ {r} : ackCh'[p] = ackCh[p]
    BY <1>5
  <2>. QED BY <2>1, <2>2
<1>15. GetsOwn'
  BY <1>1, <1>3, <1>5, <1>14, GetsStays DEF GetsOwn, Takes
<1>16. \A p \in Recordings : Unacked(p)' \subseteq Unacked(p)
  <2> SUFFICES ASSUME NEW p \in Recordings PROVE Unacked(p)' \subseteq Unacked(p)
    OBVIOUS
  <2>1. {ackCh'[p][i].n : i \in DOMAIN ackCh'[p]} \subseteq {ackCh[p][i].n : i \in DOMAIN ackCh[p]}
    BY <1>14
  <2>. QED BY <1>3, <1>5, <2>1 DEF Unacked, Takes
<1>17. Head(q).n \in Unacked(r) /\ Head(q).n \notin Unacked(r)'
  <2>1. 1 \in DOMAIN q /\ \A i \in 1..(Len(q) - 1) : i + 1 \in DOMAIN q /\ 1 < i + 1
    BY <1>4
  <2>2. /\ \A i \in DOMAIN q : 1 < i => q[1].n < q[i].n
        /\ \A f \in Frames : q[1].n < f.n
        /\ r \in Range(todo) => q[1].n < frame.n
    BY <1>1, <1>2, <2>1, AckNumbers
  <2>3. q[1].n \in Nat
    BY <1>4, MessageFacts
  <2>4. \A i \in DOMAIN ackCh'[r] : ackCh'[r][i].n # q[1].n
    <3> SUFFICES ASSUME NEW i \in 1..(Len(q) - 1) PROVE Tail(q)[i].n # q[1].n
      BY <1>4, <1>5
    <3>1. q[1].n < q[i + 1].n
      BY <2>1, <2>2
    <3>. QED BY <1>4, <2>3, <3>1
  <2>5. Unacked(r)' = {f.n : f \in {g \in Frames : g.cast = r}}
                        \cup (IF r \in Range(todo) /\ Takes(r, frame) THEN {frame.n} ELSE {})
                        \cup {ackCh'[r][i].n : i \in DOMAIN ackCh'[r]}
    BY <1>3, <1>5 DEF Unacked, Takes
  <2>6. q[1].n \notin Unacked(r)'
    BY <2>2, <2>3, <2>4, <2>5
  <2>7. q[1].n \in Unacked(r)
    BY <1>2, <2>1 DEF Unacked
  <2>. QED BY <1>4, <2>6, <2>7
<1>18. Counted'
  <2>1. CASE credit' = credit
    BY <1>1, <1>5, <1>6, <1>8, <1>16, <2>1, CountStays
  <2>2. CASE /\ Head(q).cast = cast[sid[r]]
             /\ credit' = [credit EXCEPT ![sid[r]] = @ - 1]
    <3> SUFFICES ASSUME NEW p \in Recordings, Active(p), ~Shares(p)
                 PROVE  /\ Cardinality(Unacked(p)') <= InFlight
                        /\ cast[sid[p]] = p => Cardinality(Unacked(p)') <= credit'[sid[p]]
      BY <1>3, <1>5, <1>6, AsideKeeps DEF Counted
    <3>1. IsFiniteSet(Unacked(p)) /\ Cardinality(Unacked(p)) \in Nat /\ InFlight \in Nat
      BY <1>1, UnackedFinite, RecordingAssumption
    <3>2. Cardinality(Unacked(p)') \in Nat /\ Cardinality(Unacked(p)') <= Cardinality(Unacked(p))
      BY <1>16, <3>1, FS_Subset, FS_CardinalityType
    <3>3. /\ Cardinality(Unacked(p)) <= InFlight
          /\ cast[sid[p]] = p => Cardinality(Unacked(p)) <= credit[sid[p]]
      BY <1>1 DEF Counted
    <3>4. sid[p] \in Sessions /\ credit[sid[p]] \in Int /\ credit'[sid[p]] \in Int
      BY <1>1, <1>7 DEF TypeOK
    <3>5. CASE sid[p] # sid[r] \/ cast[sid[p]] # p
      <4>1. cast[sid[p]] = p => credit'[sid[p]] = credit[sid[p]]
        BY <1>1, <2>2, <3>4, <3>5 DEF TypeOK
      <4>. QED BY <3>1, <3>2, <3>3, <3>4, <4>1
    <3>6. CASE sid[p] = sid[r] /\ cast[sid[p]] = p
      <4>1. p = r
        <5>1. Gets(r, Head(q).cast)
          <6>1. 1 \in DOMAIN ackCh[r] /\ Head(q) = ackCh[r][1]
            BY <1>2, <1>4
          <6>. QED BY <1>1, <6>1 DEF GetsOwn
        <5>2. Head(q).cast = p
          BY <2>2, <3>6
        <5>. QED BY <3>1, <5>1, <5>2 DEF Gets, Active
      <4>2. Unacked(p)' \subseteq Unacked(p) \ {Head(q).n}
        BY <1>16, <1>17, <4>1
      <4>3. /\ IsFiniteSet(Unacked(p) \ {Head(q).n})
            /\ Cardinality(Unacked(p) \ {Head(q).n}) = Cardinality(Unacked(p)) - 1
        BY <1>17, <3>1, <4>1, FS_RemoveElement
      <4>4. Cardinality(Unacked(p)') <= Cardinality(Unacked(p)) - 1
        BY <4>2, <4>3, FS_Subset
      <4>5. credit'[sid[p]] = credit[sid[p]] - 1
        BY <1>1, <2>2, <3>4, <3>6 DEF TypeOK
      <4>. QED BY <3>1, <3>2, <3>3, <3>4, <3>6, <4>4, <4>5
    <3>. QED BY <3>5, <3>6
  <2>. QED BY <1>6, <2>1, <2>2
<1>. QED BY <1>8, <1>9, <1>11, <1>12, <1>13, <1>15, <1>18 DEF IInv, Inv

\* The acknowledgement is over.
LEMMA AckKeeps ==
    ASSUME IInv, NEW r \in Recordings, AckDone(r)
    PROVE  IInv'
<1>1. TypeOK /\ AckedOnce /\ NothingRuns /\ InSequence /\ Awaited /\ Casting /\ Underway
      /\ Recorded /\ GetsOwn /\ Counted /\ LateCalls /\ Excused
  BY DEF IInv, Inv
<1>2. /\ pump' = [pump EXCEPT ![r] = <<>>]
      /\ UNCHANGED <<sid, pc, cancelled, aborted, unsure, crowd, handlers, todo, frame, frames, ackCh,
                     inbox, cast, credit, shown, refused, panicked>>
  BY DEF AckDone, step_vars, loop_vars, chrome_vars
<1>3. /\ Aside /\ Frames' = Frames /\ Answers' = Answers /\ pump'[r] = <<>>
      /\ \A p \in Recordings \ {r} : pump'[p] = pump[p]
  BY <1>1, <1>2 DEF Aside, Frames, Answers, FramesIn, AnswersIn, TypeOK
<1>4. TypeOK'
  <2>1. pump' \in [Recordings -> Seq(Frame)] /\ \A p \in Recordings : Len(pump'[p]) <= 1
    BY <1>1, <1>2, <1>3 DEF TypeOK
  <2>. QED BY <1>1, <1>2, <2>1 DEF TypeOK
<1>5. AckedOnce'
  <2>1. \A p \in Recordings : Ends(frames[p], pump'[p] \o ackCh[p])
    <3> SUFFICES ASSUME NEW p \in Recordings PROVE Ends(frames[p], pump'[p] \o ackCh[p])
      OBVIOUS
    <3>1. /\ Ends(frames[p], pump[p] \o ackCh[p])
          /\ frames[p] \in Seq(Frame) /\ pump[p] \in Seq(Frame) /\ ackCh[p] \in Seq(Frame)
      BY <1>1 DEF AckedOnce, TypeOK
    <3>2. CASE p = r
      <4>1. PICK t, u, q : t = frames[p] /\ u = pump[p] /\ q = ackCh[p]
        OBVIOUS
      <4>2. Ends(t, q)
        <5>1. PICK f : f \in Frame \/ q = <<>>
          BY <3>1, <4>1
        <5>2. CASE f \in Frame
          BY <3>1, <4>1, <5>2, EndsFacts
        <5>3. CASE q = <<>>
          BY <3>1, <4>1, <5>3 DEF Ends
        <5>. QED BY <5>1, <5>2, <5>3
      <4>3. pump'[p] \o ackCh[p] = q
        <5>1. pump'[p] = <<>> /\ ackCh[p] = q /\ q \in Seq(Frame)
          BY <1>3, <3>1, <3>2, <4>1
        <5>2. <<>> \o q = q
          BY <5>1, ConcatEmptySeq
        <5>. QED BY <5>1, <5>2
      <4>. QED BY <4>1, <4>2, <4>3
    <3>. QED BY <1>3, <3>1, <3>2
  <2>. QED BY <1>1, <1>2, <2>1 DEF AckedOnce
<1>6. NothingRuns' /\ InSequence' /\ Awaited' /\ Casting' /\ Underway'
  <2>1. NothingRuns'
    BY <1>1, <1>2, <1>3 DEF NothingRuns, Registered, Active
  <2>2. InSequence' /\ Awaited' /\ Casting'
    BY <1>1, <1>2, <1>3 DEF InSequence, Awaited, Casting
  <2>3. Underway'
    BY <1>1, <1>2, <1>3 DEF Underway, Registered
  <2>. QED BY <2>1, <2>2, <2>3
<1>7. Recorded' /\ GetsOwn' /\ Counted' /\ LateCalls' /\ Excused'
  <2>1. GetsOwn'
    BY <1>1, <1>2, <1>3, GetsStays DEF GetsOwn, Takes
  <2>2. \A p \in Recordings : Unacked(p)' = Unacked(p)
    BY <1>2, <1>3 DEF Unacked, Takes
  <2>3. Counted'
    BY <1>1, <1>2, <1>3, <1>4, <2>2, CountStays
  <2>4. LateCalls' /\ Excused'
    BY <1>1, <1>2 DEF LateCalls, Excused, Closed, Takes, Shares
  <2>. QED BY <1>1, <1>3, <2>1, <2>3, <2>4, AsideKeeps
<1>. QED BY <1>4, <1>5, <1>6, <1>7 DEF IInv, Inv

-----------------------------------------------------------------------------
(* Chrome, and the end of a request                                          *)

\* Chrome sends a frame.
LEMMA ShowKeeps ==
    ASSUME IInv, NEW s \in Sessions, ShowFrame(s)
    PROVE  IInv'
<1>1. TypeOK /\ AckedOnce /\ NothingRuns /\ InSequence /\ Awaited /\ Casting /\ Underway
      /\ Recorded /\ GetsOwn /\ Counted /\ LateCalls /\ Excused
  BY DEF IInv, Inv
<1>2. PICK p \in Recordings : p = cast[s]
  BY <1>1 DEF ShowFrame, TypeOK
<1> DEFINE m == [is |-> "frame", n |-> shown + 1, cast |-> cast[s], session |-> s]
<1>3. /\ cast[s] = p /\ p # None /\ credit[s] < InFlight /\ shown' = shown + 1
      /\ credit' = [credit EXCEPT ![s] = @ + 1] /\ inbox' = Append(inbox, m)
      /\ UNCHANGED <<sid, pc, cancelled, aborted, unsure, crowd, handlers, todo, frame, frames, ackCh,
                     pump, cast, refused, panicked>>
  BY <1>2 DEF ShowFrame, step_vars, loop_vars
<1>4. /\ shown \in Nat /\ shown + 1 \in 1..MaxFrames /\ InFlight \in Nat /\ credit[s] \in Int
      /\ credit' \in [Sessions -> Int] /\ credit'[s] = credit[s] + 1
      /\ \A t \in Sessions \ {s} : credit'[t] = credit[t]
  <2>1. credit \in [Sessions -> Int] /\ shown \in 0..MaxFrames /\ shown < MaxFrames
    BY <1>1 DEF ShowFrame, TypeOK
  <2>2. MaxFrames \in Nat /\ InFlight \in Nat
    BY RecordingAssumption
  <2>3. shown \in Nat /\ shown + 1 \in 1..MaxFrames
    BY <2>1, <2>2
  <2>4. credit[s] \in Int /\ credit[s] + 1 \in Int
    BY <2>1
  <2>5. credit' \in [Sessions -> Int] /\ credit'[s] = credit[s] + 1
        /\ \A t \in Sessions \ {s} : credit'[t] = credit[t]
    BY <1>3, <2>1, <2>4
  <2>. QED BY <2>2, <2>3, <2>4, <2>5
<1>5. m \in Frame /\ m.n = shown + 1 /\ m.cast = p /\ m.session = s
  BY <1>2, <1>4 DEF Frame
<1> HIDE DEF m
<1>6. /\ sid[p] = s /\ credit[s] <= InFlight
      /\ \/ pc[p] \in {"start", "script", "record", "poll"}
         \/ p \in aborted \cap unsure
         \/ p \in refused /\ (pc[p] = "stop" \/ p \in unsure)
  BY <1>1, <1>3 DEF Casting
<1>7. pc[p] # "idle" /\ (Registered(p) \/ p \in unsure)
  BY <1>1, <1>6 DEF Recorded, Registered
<1>8. inbox \in Stream /\ InOrder(inbox) /\ OneAnswerEach(inbox) /\ EndsLast(inbox)
      /\ \A f \in Frames : f \in Frame /\ f.n <= shown /\ f.n \in Nat
  <2>1. inbox \in Stream
    BY <1>1 DEF TypeOK, Stream
  <2>. QED BY <1>1, <2>1, StreamFacts, MessageFacts DEF InSequence, Awaited, Underway,
       Frames
<1>9. /\ \A g \in FramesIn(inbox) : g.n < m.n
      /\ \A a \in AnswersIn(inbox) : a.by = m.cast => ~Ended(a)
  <2>1. \A g \in Frames : g.n < m.n
    BY <1>4, <1>5, <1>8
  <2>2. \A a \in Answers : a.by = p => ~Ended(a)
    BY <1>1, <1>3, <1>6 DEF Casting
  <2>. QED BY <1>5, <2>1, <2>2 DEF Frames, Answers
<1>10. /\ inbox' \in Stream /\ InOrder(inbox') /\ OneAnswerEach(inbox') /\ EndsLast(inbox')
       /\ FramesIn(inbox') = FramesIn(inbox) \cup {m} /\ AnswersIn(inbox') = AnswersIn(inbox)
  BY <1>3, <1>5, <1>8, <1>9, AppendFrameKeeps
<1>11. Frames' = Frames \cup {m} /\ Answers' = Answers /\ Aside
  BY <1>3, <1>10 DEF Frames, Answers, FramesIn, AnswersIn, Aside
<1>12. TypeOK'
  <2>1. shown' \in 0..MaxFrames
    BY <1>3, <1>4
  <2>. QED BY <1>1, <1>3, <1>4, <1>10, <2>1 DEF TypeOK, Stream
<1>13. AckedOnce' /\ NothingRuns' /\ Recorded' /\ LateCalls' /\ Excused'
  <2>1. AckedOnce' /\ NothingRuns'
    BY <1>1, <1>3 DEF AckedOnce, NothingRuns, Registered, Active
  <2>2. LateCalls' /\ Excused'
    BY <1>1, <1>3 DEF LateCalls, Excused, Closed, Takes, Shares
  <2>. QED BY <1>1, <1>11, <2>1, <2>2, AsideKeeps
<1>14. InSequence'
  <2>1. \A f \in Frames' : f.n <= shown' /\ (todo # <<>> => frame.n < f.n)
    <3>1. todo # <<>> => frame.n <= shown /\ frame.n \in Nat
      BY <1>1, MessageFacts DEF InSequence, TypeOK
    <3>2. todo # <<>> => frame.n < m.n
      BY <1>4, <1>5, <3>1
    <3>3. m.n <= shown'
      BY <1>3, <1>4, <1>5
    <3>4. \A f \in Frames : f.n <= shown'
      BY <1>3, <1>4, <1>8
    <3>. QED BY <1>1, <1>11, <3>2, <3>3, <3>4 DEF InSequence
  <2>2. todo # <<>> => frame.n <= shown'
    <3>1. todo # <<>> => frame.n <= shown /\ frame.n \in Nat
      BY <1>1, MessageFacts DEF InSequence, TypeOK
    <3>. QED BY <1>3, <1>4, <3>1
  <2>3. ASSUME NEW r \in Recordings, NEW i \in DOMAIN frames[r]
        PROVE  /\ frames[r][i].n <= shown'
               /\ \A f \in Frames' : frames[r][i].n < f.n
               /\ r \in Range(todo) => frames[r][i].n < frame.n
    <3>1. /\ frames[r][i].n <= shown /\ frames[r][i].n \in Nat
          /\ \A f \in Frames : frames[r][i].n < f.n
          /\ r \in Range(todo) => frames[r][i].n < frame.n
      <4>1. frames[r][i] \in Frame
        BY <1>1 DEF TypeOK
      <4>. QED BY <1>1, <4>1, MessageFacts DEF InSequence
    <3>2. frames[r][i].n <= shown' /\ frames[r][i].n < m.n
      BY <1>3, <1>4, <1>5, <3>1
    <3>. QED BY <1>11, <3>1, <3>2
  <2>. QED BY <1>1, <1>3, <1>10, <2>1, <2>2, <2>3 DEF InSequence
<1>15. Awaited' /\ Underway'
  <2>1. Awaited'
    BY <1>1, <1>3, <1>10, <1>11 DEF Awaited
  <2>2. Underway'
    BY <1>1, <1>3, <1>5, <1>6, <1>7, <1>10, <1>11 DEF Underway, Registered
  <2>. QED BY <2>1, <2>2
<1>16. Casting'
  <2>1. ASSUME NEW t \in Sessions, cast[t] # None
        PROVE  LET q == cast[t] IN
               /\ sid[q] = t /\ credit'[t] <= InFlight
               /\ \/ pc[q] \in {"start", "script", "record", "poll"}
                  \/ q \in aborted \cap unsure
                  \/ q \in refused /\ (pc[q] = "stop" \/ q \in unsure)
    <3>1. credit'[t] <= InFlight
      <4>1. CASE t = s
        BY <1>3, <1>4, <4>1
      <4>2. CASE t # s
        BY <1>1, <1>4, <2>1, <4>2 DEF Casting
      <4>. QED BY <4>1, <4>2
    <3>. QED BY <1>1, <2>1, <3>1 DEF Casting
  <2>. QED BY <1>1, <1>3, <1>11, <2>1 DEF Casting
<1>17. GetsOwn'
  BY <1>1, <1>3, <1>11, GetsStays DEF GetsOwn, Takes
<1>18. Counted'
  <2> SUFFICES ASSUME NEW r \in Recordings, Active(r), ~Shares(r)
               PROVE  /\ Cardinality(Unacked(r)') <= InFlight
                      /\ cast[sid[r]] = r => Cardinality(Unacked(r)') <= credit'[sid[r]]
    BY <1>3, <1>11, AsideKeeps DEF Counted
  <2>1. IsFiniteSet(Unacked(r)) /\ Cardinality(Unacked(r)) \in Nat
    BY <1>1, UnackedFinite
  <2>2. /\ Cardinality(Unacked(r)) <= InFlight
        /\ cast[sid[r]] = r => Cardinality(Unacked(r)) <= credit[sid[r]]
    BY <1>1 DEF Counted
  <2>3. Unacked(r)' = {f.n : f \in {g \in Frames' : g.cast = r}}
                        \cup (IF r \in Range(todo) /\ Takes(r, frame) THEN {frame.n} ELSE {})
                        \cup {ackCh[r][i].n : i \in DOMAIN ackCh[r]}
    BY <1>3 DEF Unacked, Takes
  <2>4. sid[r] \in Sessions /\ credit[sid[r]] \in Int
    BY <1>1 DEF TypeOK
  <2>5. CASE r # p
    <3>1. Unacked(r)' = Unacked(r)
      BY <1>5, <1>11, <2>3, <2>5 DEF Unacked
    <3>2. cast[sid[r]] = r => credit'[sid[r]] = credit[sid[r]]
      BY <1>3, <1>4, <2>4, <2>5
    <3>. QED BY <2>2, <3>1, <3>2
  <2>6. CASE r = p
    <3>1. Unacked(r)' = Unacked(r) \cup {m.n}
      <4>1. {f.n : f \in {g \in Frames' : g.cast = r}}
              = {f.n : f \in {g \in Frames : g.cast = r}} \cup {m.n}
        BY <1>5, <1>11, <2>6
      <4>. QED BY <2>3, <4>1 DEF Unacked
    <3>2. Cardinality(Unacked(r) \cup {m.n}) <= Cardinality(Unacked(r)) + 1
          /\ Cardinality(Unacked(r) \cup {m.n}) \in Nat
      <4>1. /\ IsFiniteSet(Unacked(r) \cup {m.n})
            /\ Cardinality(Unacked(r) \cup {m.n}) =
                 IF m.n \in Unacked(r) THEN Cardinality(Unacked(r)) ELSE Cardinality(Unacked(r)) + 1
        BY <2>1, FS_AddElement
      <4>. QED BY <2>1, <4>1
    <3>3. Cardinality(Unacked(r)) <= credit[s]
      BY <1>3, <1>6, <2>2, <2>6
    <3>4. Cardinality(Unacked(r)') <= credit[s] + 1 /\ credit[s] + 1 <= InFlight
      BY <1>3, <1>4, <2>1, <3>1, <3>2, <3>3
    <3>5. Cardinality(Unacked(r)') \in Nat /\ credit'[sid[r]] = credit[s] + 1
      BY <1>4, <1>6, <2>6, <3>1, <3>2
    <3>. QED BY <1>4, <3>4, <3>5
  <2>. QED BY <2>5, <2>6
<1>. QED BY <1>12, <1>13, <1>14, <1>15, <1>16, <1>17, <1>18 DEF IInv, Inv

\* The rest of the system does not look at the request's context.
LEMMA CancelKeeps ==
    ASSUME IInv, NEW r \in Recordings, Cancel(r)
    PROVE  IInv'
<1>1. TypeOK /\ AckedOnce /\ NothingRuns /\ InSequence /\ Awaited /\ Casting /\ Underway
      /\ Recorded /\ GetsOwn /\ Counted /\ LateCalls /\ Excused
  BY DEF IInv, Inv
<1>2. /\ cancelled' = cancelled \cup {r} /\ r \in Leavers
      /\ UNCHANGED <<sid, pc, aborted, unsure, crowd, handlers, todo, frame, frames, ackCh, pump, inbox,
                     cast, credit, shown, refused, panicked>>
  BY DEF Cancel, OthersStay, ChromeStays, loop_vars, chrome_vars
<1>3. Aside /\ Frames' = Frames /\ Answers' = Answers
  BY <1>2 DEF Aside, Frames, Answers, FramesIn, AnswersIn
<1>4. TypeOK'
  BY <1>1, <1>2 DEF TypeOK
<1>5. AckedOnce' /\ NothingRuns' /\ InSequence' /\ Awaited' /\ Casting' /\ Underway'
  <2>1. AckedOnce' /\ NothingRuns'
    BY <1>1, <1>2 DEF AckedOnce, NothingRuns, Registered, Active
  <2>2. InSequence' /\ Awaited' /\ Casting'
    BY <1>1, <1>2, <1>3 DEF InSequence, Awaited, Casting
  <2>3. Underway'
    BY <1>1, <1>2, <1>3 DEF Underway, Registered
  <2>. QED BY <2>1, <2>2, <2>3
<1>6. Recorded' /\ GetsOwn' /\ Counted' /\ LateCalls' /\ Excused'
  <2>1. GetsOwn'
    BY <1>1, <1>2, <1>3, GetsStays DEF GetsOwn, Takes
  <2>2. \A p \in Recordings : Unacked(p)' = Unacked(p)
    BY <1>2, <1>3 DEF Unacked, Takes
  <2>3. Counted'
    BY <1>1, <1>2, <1>3, <1>4, <2>2, CountStays
  <2>4. LateCalls' /\ Excused'
    BY <1>1, <1>2 DEF LateCalls, Excused, Closed, Takes, Shares
  <2>. QED BY <1>1, <1>3, <2>1, <2>3, <2>4, AsideKeeps
<1>. QED BY <1>4, <1>5, <1>6 DEF IInv, Inv

-----------------------------------------------------------------------------
(* The theorems                                                              *)

\* A handler that waits for room has more frames to acknowledge than Chrome sends
\* ahead, which it has not if they are all its own.
LEMMA WaitingShares == IInv => BlockedShares
<1> SUFFICES ASSUME IInv, Blocked, NEW h, h = Head(todo), ~Shares(h)
             PROVE  FALSE
  BY DEF BlockedShares
<1>1. TypeOK /\ AckedOnce /\ InSequence /\ Counted
  BY DEF IInv, Inv
<1>2. todo \in Seq(Recordings) /\ todo # <<>>
  BY <1>1 DEF TypeOK, Blocked
<1>3. h \in Recordings /\ h \in Range(todo) /\ Takes(h, frame) /\ Len(ackCh[h]) = Cap /\ ~Closed(h)
  BY <1>2, TailFacts DEF Blocked, Full
<1>4. Active(h)
  BY <1>1, <1>3 DEF InSequence, Active, Closed
<1>5. PICK q : q = ackCh[h]
  OBVIOUS
<1>6. q \in Seq(Frame) /\ DOMAIN q = 1..Cap /\ Cap \in Nat /\ frame \in Frame
  <2>1. q \in Seq(Frame) /\ Len(q) = Cap
    BY <1>1, <1>3, <1>5 DEF TypeOK
  <2>2. DOMAIN q = 1..Len(q)
    BY <2>1
  <2>. QED BY <1>1, <1>2, <2>1, <2>2, RecordingAssumption DEF TypeOK
<1>7. /\ \A i, j \in 1..Cap : i < j => q[i].n < q[j].n
      /\ \A i \in 1..Cap : q[i].n < frame.n
      /\ \A i \in 1..Cap : q[i].n \in Nat
      /\ frame.n \in Nat
  BY <1>1, <1>3, <1>5, <1>6, AckNumbers, MessageFacts
<1> DEFINE F == [i \in 1..(Cap + 1) |-> IF i <= Cap THEN q[i].n ELSE frame.n]
<1>8. \A i \in 1..(Cap + 1) : /\ i \in 1..Cap => F[i] = q[i].n
                              /\ i = Cap + 1 => F[i] = frame.n
                              /\ i \in 1..Cap \/ i = Cap + 1
                              /\ F[i] \in Unacked(h)
  <2>1. \A i \in 1..Cap : q[i].n \in Unacked(h)
    BY <1>5, <1>6 DEF Unacked
  <2>2. frame.n \in Unacked(h)
    BY <1>3 DEF Unacked
  <2>3. \A i \in 1..(Cap + 1) : /\ i \in 1..Cap => F[i] = q[i].n
                                /\ i = Cap + 1 => F[i] = frame.n
                                /\ i \in 1..Cap \/ i = Cap + 1
    BY <1>6
  <2>. QED BY <2>1, <2>2, <2>3
<1>9. F \in [1..(Cap + 1) -> Unacked(h)]
  BY <1>8
<1> HIDE DEF F
<1>10. \A i, j \in 1..(Cap + 1) : i < j => F[i] < F[j]
  <2> SUFFICES ASSUME NEW i \in 1..(Cap + 1), NEW j \in 1..(Cap + 1), i < j
               PROVE  F[i] < F[j]
    OBVIOUS
  <2>1. i \in 1..Cap
    BY <1>6
  <2>2. CASE j \in 1..Cap
    BY <1>7, <1>8, <2>1, <2>2
  <2>3. CASE j = Cap + 1
    BY <1>7, <1>8, <2>1, <2>3
  <2>. QED BY <1>8, <2>2, <2>3
<1>11. F \in Injection(1..(Cap + 1), Unacked(h))
  <2> SUFFICES ASSUME NEW i \in 1..(Cap + 1), NEW j \in 1..(Cap + 1), F[i] = F[j]
               PROVE  i = j
    BY <1>9 DEF Injection, IsInjective
  <2>1. F[i] \in Nat
    BY <1>7, <1>8
  <2>2. ~(i < j) /\ ~(j < i)
    BY <1>10, <2>1
  <2>. QED BY <1>6, <2>2
<1>12. IsFiniteSet(Unacked(h)) /\ Cardinality(Unacked(h)) \in Nat
  BY <1>1, <1>3, UnackedFinite
<1>13. Cardinality(1..(Cap + 1)) <= Cardinality(Unacked(h))
  BY <1>11, <1>12, FS_Injection
<1>14. Cardinality(1..(Cap + 1)) = Cap + 1
  <2>1. \A n \in Nat : Cardinality(1..n) = n
    <3> SUFFICES ASSUME NEW n \in Nat PROVE Cardinality(1..n) = n
      OBVIOUS
    <3>1. Cardinality(1..n) = IF 1 > n THEN 0 ELSE n - 1 + 1
      BY FS_Interval
    <3>. QED BY <3>1
  <2>. QED BY <1>6, <2>1
<1>15. Cardinality(Unacked(h)) <= InFlight
  BY <1>1, <1>3, <1>4 DEF Counted
<1>. QED BY <1>6, <1>12, <1>13, <1>14, <1>15, RecordingAssumption, AheadAssumption

\* At first there is nothing.
LEMMA InitIInv == Init => IInv
<1> SUFFICES ASSUME Init PROVE IInv
  OBVIOUS
<1>1. MaxFrames \in Nat /\ InFlight \in Nat /\ Cap \in Nat /\ Targets \subseteq [Recordings -> Sessions]
  BY RecordingAssumption
<1>2. Range(<<>>) = {} /\ DOMAIN <<>> = {} /\ Len(<<>>) = 0
  BY DEF Range
<1>3. Frames = {} /\ Answers = {} /\ Range(todo) = {} /\ Range(handlers) = {}
  BY <1>2 DEF Init, Frames, Answers, FramesIn, AnswersIn
<1>4. TypeOK
  BY <1>1 DEF Init, TypeOK, StepPc
<1>5. AckedOnce /\ NothingRuns
  BY <1>3 DEF Init, AckedOnce, NothingRuns, Ends, IsInjective, Registered
<1>6. InSequence /\ Awaited /\ Casting /\ Underway
  BY <1>3 DEF Init, InSequence, Awaited, Casting, Underway, InOrder, OneAnswerEach,
     EndsLast, IsInjective
<1>7. Recorded /\ GetsOwn /\ LateCalls /\ Excused
  BY <1>3 DEF Init, Recorded, GetsOwn, LateCalls, Excused, Active
<1>8. Counted
  BY DEF Init, Counted, Active
<1>. QED BY <1>4, <1>5, <1>6, <1>7, <1>8 DEF IInv, Inv

\* Every step keeps the invariant.
LEMMA NextIInv == IInv /\ [Next]_vars => IInv'
<1> SUFFICES ASSUME IInv, [Next]_vars PROVE IInv'
  OBVIOUS
<1>1. CASE UNCHANGED vars
  <2>1. UNCHANGED <<sid, pc, cancelled, aborted, unsure, crowd, handlers, todo, frame, frames, ackCh,
                    pump, inbox, cast, credit, shown, refused, panicked>>
    BY <1>1 DEF vars, step_vars, loop_vars, chrome_vars
  <2>2. Frames' = Frames /\ Answers' = Answers
    BY <2>1 DEF Frames, Answers, FramesIn, AnswersIn
  <2>3. TypeOK' = TypeOK /\ AckedOnce' = AckedOnce /\ InSequence' = InSequence
    BY <2>1, <2>2 DEF TypeOK, AckedOnce, InSequence
  <2>4. NothingRuns' = NothingRuns /\ Awaited' = Awaited /\ Casting' = Casting
    BY <2>1, <2>2 DEF NothingRuns, Awaited, Casting, Active, Registered
  <2>5. Underway' = Underway /\ Recorded' = Recorded
    BY <2>1, <2>2 DEF Underway, Recorded, Active, Registered
  <2>6. GetsOwn' = GetsOwn /\ LateCalls' = LateCalls /\ Excused' = Excused
    BY <2>1 DEF GetsOwn, Gets, LateCalls, Excused, Closed, Takes, Shares
  <2>7. Counted' = Counted
    BY <2>1, <2>2 DEF Counted, Unacked, Active, Shares, Takes
  <2>. QED BY <2>3, <2>4, <2>5, <2>6, <2>7 DEF IInv, Inv
<1>2. CASE ReadFrame
  BY <1>2, ReadKeeps
<1>3. CASE CallHandler
  BY <1>3, CallKeeps
<1>4. ASSUME NEW r \in Recordings, Begin(r) \/ RecordStep(r)
      PROVE  IInv'
  <2>1. TypeOK /\ Awaited /\ Casting /\ Underway
    BY DEF IInv, Inv
  <2>2. PICK next \in StepPc : \E b : Turn(r, next, b)
    BY <1>4, <2>1, TurnMade
  <2>. QED BY <2>2, TurnKeeps, WaitingShares
<1>5. ASSUME NEW r \in Recordings, PumpStep(r)
      PROVE  IInv'
  BY <1>5, TakeKeeps, AckKeeps DEF PumpStep
<1>6. ASSUME NEW r \in Recordings, Cancel(r)
      PROVE  IInv'
  BY <1>6, CancelKeeps
<1>7. ASSUME NEW s \in Sessions, ShowFrame(s)
      PROVE  IInv'
  BY <1>7, ShowKeeps
<1>. QED BY <1>1, <1>2, <1>3, <1>4, <1>5, <1>6, <1>7 DEF Next, LoopStep

\* In every state of every behaviour frames are captured and acknowledged once and
\* in order, nothing of a recording runs before and after it, each gets the frames of
\* its own screencast, and Chrome counts what is not acknowledged (record.go:91-176).
THEOREM RecordingInvariant == Spec => []Inv
<1>1. IInv => Inv
  BY DEF IInv
<1>. QED BY <1>1, InitIInv, NextIInv, PTL DEF Spec

\* The handler never sends to a closed channel, and never waits for room in one, as
\* long as the session is its recording's alone (record.go:91-96, 172-175).
THEOREM RecordingsEndSafely == Spec => []SafeEnd
<1>1. IInv => SafeEnd
  BY WaitingShares DEF IInv, SafeEnd, Excused, BlockedShares
<1>. QED BY <1>1, InitIInv, NextIInv, PTL DEF Spec

\* Chrome sends no frames for a recording that has stopped, unless its start was
\* given up or its stop refused (record.go:167).
THEOREM CastsAreStopped == Spec => []CastStopped
<1>1. IInv => CastStopped
  BY DEF IInv, Inv, Casting, CastStopped
<1>. QED BY <1>1, InitIInv, NextIInv, PTL DEF Spec
================================================================================
