-------------------------- MODULE EventStreamProofs --------------------------
(***************************************************************************)
(* Proofs of what event subscriptions promise.                             *)
(***************************************************************************)
EXTENDS EventStreamProps, FiniteSetTheorems, SequenceTheorems, TLAPS

\* What a stream that is served has got or may get (Complete).
Served(s) ==
    /\ Range(Passed(s)) \subseteq Due(s)
    /\ Blocks(s) => Due(s) \subseteq Range(Passed(s))
    /\ \A i \in Due(s) :
          Cardinality({j \in Due(s) : j <= i}) <= Cap => i \in Range(Passed(s))

AllServed == \A s \in Subs : Serving(s) => Served(s)

\* The inductive invariant.
IInv == Inv /\ InOrder /\ OnlyOwnHandlers /\ AllServed

-----------------------------------------------------------------------------
(* Sequences                                                                 *)

\* What is left of a sequence when one element is taken out: the others, in order.
LEMMA RemoveAtFacts ==
    ASSUME NEW S, NEW s \in Seq(S), NEW i \in DOMAIN s
    PROVE  /\ RemoveAt(s, i) \in Seq(S)
           /\ Len(RemoveAt(s, i)) = Len(s) - 1
           /\ \A j \in 1..(Len(s) - 1) :
                RemoveAt(s, i)[j] = IF j < i THEN s[j] ELSE s[j + 1]
<1>1. i \in 1..Len(s) /\ Len(s) \in Nat
  OBVIOUS
<1> DEFINE a == SubSeq(s, 1, i - 1)
           b == SubSeq(s, i + 1, Len(s))
<1>2. a \in Seq(S) /\ Len(a) = i - 1 /\ \A j \in 1..(i - 1) : a[j] = s[j]
  BY <1>1
<1>3. b \in Seq(S) /\ Len(b) = Len(s) - i /\ \A j \in 1..(Len(s) - i) : b[j] = s[i + j]
  BY <1>1
<1>4. RemoveAt(s, i) = a \o b
  BY DEF RemoveAt
<1> HIDE DEF a, b
<1>5. /\ a \o b \in Seq(S) /\ Len(a \o b) = Len(s) - 1
      /\ \A j \in 1..(Len(s) - 1) : (a \o b)[j] = IF j < i THEN s[j] ELSE s[j + 1]
  BY <1>1, <1>2, <1>3
<1>. QED BY <1>4, <1>5

\* Everything but one element, once each.
LEMMA WithoutFacts ==
    ASSUME NEW S, NEW q \in Seq(S), IsInjective(q), NEW s \in Range(q)
    PROVE  /\ Without(q, s) \in Seq(S) /\ IsInjective(Without(q, s))
           /\ Range(Without(q, s)) = Range(q) \ {s}
<1> DEFINE i == CHOOSE i \in DOMAIN q : q[i] = s
           r == RemoveAt(q, i)
<1>1. i \in DOMAIN q /\ q[i] = s
  BY DEF Range
<1>2. Without(q, s) = r
  BY DEF Without
<1> HIDE DEF i
<1>3. /\ r \in Seq(S) /\ Len(r) = Len(q) - 1 /\ Len(q) \in Nat \ {0} /\ i \in 1..Len(q)
      /\ DOMAIN q = 1..Len(q) /\ DOMAIN r = 1..(Len(q) - 1)
      /\ \A j \in 1..(Len(q) - 1) : r[j] = IF j < i THEN q[j] ELSE q[j + 1]
  <2>1. /\ r \in Seq(S) /\ Len(r) = Len(q) - 1
        /\ \A j \in 1..(Len(q) - 1) : r[j] = IF j < i THEN q[j] ELSE q[j + 1]
    BY <1>1, RemoveAtFacts
  <2>2. Len(q) \in Nat \ {0} /\ i \in 1..Len(q) /\ DOMAIN q = 1..Len(q)
    BY <1>1
  <2> HIDE DEF r
  <2>3. DOMAIN r = 1..(Len(q) - 1)
    BY <2>1
  <2>. QED BY <2>1, <2>2, <2>3
<1> HIDE DEF r
<1>4. IsInjective(r)
  <2> SUFFICES ASSUME NEW j \in DOMAIN r, NEW k \in DOMAIN r, r[j] = r[k]
               PROVE  j = k
    BY DEF IsInjective
  <2> DEFINE p(x) == IF x < i THEN x ELSE x + 1
  <2>1. p(j) \in DOMAIN q /\ p(k) \in DOMAIN q /\ q[p(j)] = r[j] /\ q[p(k)] = r[k]
    BY <1>3
  <2>2. p(j) = p(k)
    BY <2>1, Zenon DEF IsInjective
  <2>. QED BY <1>3, <2>2
<1>5. ASSUME NEW x \in Range(r)
      PROVE  x \in Range(q) \ {s}
  <2>1. PICK j \in 1..(Len(q) - 1) : x = r[j]
    BY <1>3 DEF Range
  <2>2. PICK k \in DOMAIN q : x = q[k] /\ k # i
    <3>1. CASE j < i
      <4>1. j \in DOMAIN q /\ x = q[j] /\ j # i
        BY <1>3, <2>1, <3>1
      <4>. QED BY <4>1
    <3>2. CASE ~(j < i)
      <4>1. j + 1 \in DOMAIN q /\ x = q[j + 1] /\ j + 1 # i
        BY <1>3, <2>1, <3>2
      <4>. QED BY <4>1
    <3>. QED BY <3>1, <3>2
  <2>. QED BY <1>1, <2>2 DEF Range, IsInjective
<1>6. ASSUME NEW x \in Range(q) \ {s}
      PROVE  x \in Range(r)
  <2>1. PICK k \in 1..Len(q) : x = q[k] /\ k # i
    BY <1>1, <1>3 DEF Range
  <2>2. CASE k < i
    <3>1. k \in DOMAIN r /\ r[k] = q[k]
      BY <1>3, <2>1, <2>2
    <3>. QED BY <2>1, <3>1 DEF Range
  <2>3. CASE k > i
    <3>1. k - 1 \in 1..(Len(q) - 1) /\ r[k - 1] = q[(k - 1) + 1]
      BY <1>3, <2>1, <2>3
    <3>. QED BY <1>3, <2>1, <3>1 DEF Range
  <2>. QED BY <1>3, <2>1, <2>2, <2>3
<1>. QED BY <1>2, <1>3, <1>4, <1>5, <1>6

\* A new element comes last.
LEMMA AppendFacts ==
    ASSUME NEW S, NEW q \in Seq(S), NEW s \in S
    PROVE  /\ Append(q, s) \in Seq(S) /\ Range(Append(q, s)) = Range(q) \cup {s}
           /\ IsInjective(q) /\ s \notin Range(q) => IsInjective(Append(q, s))
           /\ Increasing(q) /\ S \subseteq Nat /\ (\A i \in Range(q) : i < s)
                => Increasing(Append(q, s))
<1> DEFINE r == Append(q, s)
<1>1. /\ r \in Seq(S) /\ Len(r) = Len(q) + 1 /\ Len(q) \in Nat /\ r[Len(q) + 1] = s
      /\ \A i \in 1..Len(q) : r[i] = q[i]
  BY AppendProperties
<1>2. DOMAIN q = 1..Len(q) /\ DOMAIN r = 1..(Len(q) + 1)
  OBVIOUS
<1> HIDE DEF r
<1>3. Range(r) = Range(q) \cup {s}
  <2>1. ASSUME NEW x \in Range(r) PROVE x \in Range(q) \cup {s}
    BY <1>1, <1>2 DEF Range
  <2>2. ASSUME NEW x \in Range(q) \cup {s} PROVE x \in Range(r)
    <3>1. CASE x = s
      BY <1>1, <1>2, <3>1 DEF Range
    <3>2. CASE x \in Range(q)
      BY <1>1, <1>2, <3>2 DEF Range
    <3>. QED BY <3>1, <3>2
  <2>. QED BY <2>1, <2>2
<1>4. IsInjective(q) /\ s \notin Range(q) => IsInjective(r)
  BY <1>1, <1>2 DEF IsInjective, Range
<1>5. Increasing(q) /\ S \subseteq Nat /\ (\A i \in Range(q) : i < s) => Increasing(r)
  <2> SUFFICES ASSUME Increasing(q), \A i \in Range(q) : i < s,
                      NEW i \in DOMAIN r, NEW j \in DOMAIN r, i < j
               PROVE  r[i] < r[j]
    BY DEF Increasing
  <2>1. i \in DOMAIN q /\ r[i] = q[i] /\ q[i] \in Range(q)
    BY <1>1, <1>2 DEF Range
  <2>2. CASE j \in DOMAIN q
    BY <1>1, <1>2, <2>1, <2>2 DEF Increasing
  <2>3. CASE j = Len(q) + 1
    BY <1>1, <2>1, <2>3
  <2>. QED BY <1>2, <2>2, <2>3
<1>. QED BY <1>1, <1>3, <1>4, <1>5 DEF r

\* The first element is one of them, and the others are what is left.
LEMMA TailFacts ==
    ASSUME NEW S, NEW q \in Seq(S), q # <<>>
    PROVE  /\ Head(q) \in Range(q) /\ Head(q) \in S /\ Tail(q) \in Seq(S)
           /\ IsInjective(q) =>
                IsInjective(Tail(q)) /\ Range(Tail(q)) = Range(q) \ {Head(q)}
<1> DEFINE t == Tail(q)
<1>1. /\ Head(q) = q[1] /\ Head(q) \in S /\ t \in Seq(S) /\ Len(q) \in Nat \ {0}
      /\ Len(t) = Len(q) - 1 /\ \A i \in 1..Len(t) : t[i] = q[i + 1]
  BY HeadTailProperties
<1>2. DOMAIN q = 1..Len(q) /\ DOMAIN t = 1..(Len(q) - 1)
  BY <1>1
<1> HIDE DEF t
<1>3. Head(q) \in Range(q)
  BY <1>1, <1>2 DEF Range
<1>4. ASSUME IsInjective(q)
      PROVE  IsInjective(t) /\ Range(t) = Range(q) \ {Head(q)}
  <2>1. ASSUME NEW j \in DOMAIN t, NEW k \in DOMAIN t, t[j] = t[k]
        PROVE  j = k
    <3>1. j + 1 \in DOMAIN q /\ k + 1 \in DOMAIN q /\ q[j + 1] = t[j] /\ q[k + 1] = t[k]
      BY <1>1, <1>2
    <3>2. j + 1 = k + 1
      BY <1>4, <2>1, <3>1 DEF IsInjective
    <3>. QED BY <1>2, <3>2
  <2>2. ASSUME NEW x \in Range(t) PROVE x \in Range(q) \ {Head(q)}
    <3>1. PICK i \in DOMAIN t : x = t[i]
      BY <2>2 DEF Range
    <3>2. x = q[i + 1] /\ i + 1 \in DOMAIN q /\ i + 1 # 1 /\ 1 \in DOMAIN q
      BY <1>1, <1>2, <3>1
    <3>. QED BY <1>1, <1>4, <3>2 DEF Range, IsInjective
  <2>3. ASSUME NEW x \in Range(q) \ {Head(q)} PROVE x \in Range(t)
    <3>1. PICK i \in DOMAIN q : x = q[i] /\ i # 1
      BY <1>1, <2>3 DEF Range
    <3>2. i - 1 \in DOMAIN t /\ t[i - 1] = q[(i - 1) + 1]
      BY <1>1, <1>2, <3>1
    <3>. QED BY <1>2, <3>1, <3>2 DEF Range
  <2>. QED BY <2>1, <2>2, <2>3 DEF IsInjective
<1>. QED BY <1>1, <1>3, <1>4 DEF t

\* What is cut out of an increasing sequence leaves it increasing; so is its end.
LEMMA CutFacts ==
    ASSUME NEW a \in Seq(Nat), NEW b \in Seq(Nat), NEW c \in Seq(Nat), Increasing(a \o b \o c)
    PROVE  /\ Increasing(a \o c) /\ Range(a \o c) \subseteq Range(a \o b \o c)
           /\ Increasing(c) /\ Range(c) \subseteq Range(a \o b \o c)
<1> DEFINE w == a \o b \o c
           v == a \o c
           k == Len(a)
           m == Len(b)
           n == Len(c)
<1>1. k \in Nat /\ m \in Nat /\ n \in Nat /\ DOMAIN c = 1..n
  OBVIOUS
<1>2. a \o b \in Seq(Nat) /\ Len(a \o b) = k + m
  BY ConcatProperties
<1>3. /\ DOMAIN w = 1..(k + m + n)
      /\ \A i \in 1..k : w[i] = a[i]
      /\ \A i \in 1..n : w[k + m + i] = c[i]
  <2>1. \A i \in 1..(k + m) : (a \o b)[i] = IF i <= k THEN a[i] ELSE b[i - k]
    BY ConcatProperties
  <2>2. /\ w \in Seq(Nat) /\ Len(w) = (k + m) + n
        /\ \A i \in 1..((k + m) + n) :
              w[i] = IF i <= k + m THEN (a \o b)[i] ELSE c[i - (k + m)]
    BY <1>2, ConcatProperties
  <2> HIDE DEF w, k, m, n
  <2>3. DOMAIN w = 1..(k + m + n)
    <3>1. DOMAIN w = 1..Len(w)
      BY <2>2
    <3>. QED BY <1>1, <2>2, <3>1
  <2>4. ASSUME NEW i \in 1..k PROVE w[i] = a[i]
    <3>1. i \in 1..((k + m) + n) /\ i <= k + m /\ i \in 1..(k + m) /\ i <= k
      BY <1>1
    <3>2. w[i] = (a \o b)[i] /\ (a \o b)[i] = a[i]
      BY <2>1, <2>2, <3>1
    <3>. QED BY <3>2
  <2>5. ASSUME NEW i \in 1..n PROVE w[k + m + i] = c[i]
    <3>1. /\ k + m + i \in 1..((k + m) + n) /\ ~(k + m + i <= k + m)
          /\ (k + m + i) - (k + m) = i
      BY <1>1
    <3>. QED BY <2>2, <3>1
  <2>. QED BY <2>3, <2>4, <2>5
<1>4. /\ DOMAIN v = 1..(k + n)
      /\ \A i \in 1..(k + n) : v[i] = IF i <= k THEN a[i] ELSE c[i - k]
  <2>1. /\ v \in Seq(Nat) /\ Len(v) = k + n
        /\ \A i \in 1..(k + n) : v[i] = IF i <= k THEN a[i] ELSE c[i - k]
    BY ConcatProperties
  <2> HIDE DEF v, k, n
  <2>. QED BY <2>1
<1> HIDE DEF w, v, k, m, n
<1>5. \A i \in DOMAIN v : LET j == IF i <= k THEN i ELSE i + m IN
        j \in DOMAIN w /\ v[i] = w[j]
  <2> TAKE i \in DOMAIN v
  <2>1. CASE i <= k
    BY <1>1, <1>3, <1>4, <2>1
  <2>2. CASE i > k
    <3>1. i - k \in 1..n /\ k + m + (i - k) = i + m /\ i + m \in 1..(k + m + n)
      BY <1>1, <1>4, <2>2
    <3>2. w[i + m] = c[i - k] /\ v[i] = c[i - k]
      BY <1>1, <1>3, <1>4, <2>2, <3>1
    <3>. QED BY <1>1, <1>3, <1>4, <2>2, <3>1, <3>2
  <2>. QED BY <1>1, <1>4, <2>1, <2>2
<1>6. Increasing(v) /\ Range(v) \subseteq Range(w)
  <2>1. Range(v) \subseteq Range(w)
    BY <1>5 DEF Range
  <2>2. ASSUME NEW i \in DOMAIN v, NEW j \in DOMAIN v, i < j
        PROVE  v[i] < v[j]
    <3> DEFINE p == IF i <= k THEN i ELSE i + m
               q == IF j <= k THEN j ELSE j + m
    <3>1. p \in DOMAIN w /\ q \in DOMAIN w /\ v[i] = w[p] /\ v[j] = w[q]
      BY <1>5
    <3>2. p < q
      BY <1>1, <1>4, <2>2
    <3> HIDE DEF p, q
    <3>. QED BY <3>1, <3>2 DEF Increasing, w
  <2>. QED BY <2>1, <2>2 DEF Increasing
<1>7. Increasing(c) /\ Range(c) \subseteq Range(w)
  <2>1. \A i \in 1..n : k + m + i \in DOMAIN w /\ w[k + m + i] = c[i]
    BY <1>1, <1>3
  <2>2. Range(c) \subseteq Range(w)
    BY <1>1, <2>1 DEF Range
  <2>3. ASSUME NEW i \in DOMAIN c, NEW j \in DOMAIN c, i < j
        PROVE  c[i] < c[j]
    <3>1. k + m + i < k + m + j
      BY <1>1, <2>3
    <3>. QED BY <1>1, <2>1, <3>1 DEF Increasing, w
  <2>. QED BY <2>2, <2>3 DEF Increasing
<1>. QED BY <1>6, <1>7 DEF v, w

\* An increasing sequence has as many elements as places.
LEMMA IncreasingCount ==
    ASSUME NEW q \in Seq(Nat), Increasing(q)
    PROVE  IsFiniteSet(Range(q)) /\ Cardinality(Range(q)) = Len(q)
<1>1. Len(q) \in Nat /\ DOMAIN q = 1..Len(q) /\ \A i \in 1..Len(q) : q[i] \in Nat
  OBVIOUS
<1>2. \A i, j \in 1..Len(q) : q[i] = q[j] => i = j
  BY <1>1 DEF Increasing
<1>3. q \in Bijection(1..Len(q), Range(q))
  <2>1. q \in [1..Len(q) -> Range(q)]
    BY <1>1 DEF Range
  <2>2. \A y \in Range(q) : \E x \in 1..Len(q) : q[x] = y
    BY <1>1 DEF Range
  <2>. QED BY <1>1, <1>2, <2>1, <2>2
       DEF Bijection, Injection, Surjection, IsInjective
<1>4. ExistsBijection(1..Len(q), Range(q))
  BY <1>3 DEF ExistsBijection
<1>5. IsFiniteSet(1..Len(q)) /\ Cardinality(1..Len(q)) = Len(q)
  BY <1>1, FS_Interval
<1>. QED BY <1>4, <1>5, FS_Bijection

-----------------------------------------------------------------------------
(* What a peer got or may get, and what each step does to it                 *)

\* Events have numbers.
LEMMA PassedTyped ==
    ASSUME TypeOK, NEW s \in Subs
    PROVE  /\ sent[s] \in Seq(1..MaxEvents) /\ Hand(s) \in Seq(1..MaxEvents)
           /\ queue[s] \in Seq(1..MaxEvents) /\ Passed(s) \in Seq(1..MaxEvents)
           /\ sent[s] \in Seq(Nat) /\ Hand(s) \in Seq(Nat)
           /\ queue[s] \in Seq(Nat) /\ Passed(s) \in Seq(Nat)
           /\ Range(Passed(s)) \subseteq 1..MaxEvents
<1>1. sent[s] \in Seq(1..MaxEvents) /\ queue[s] \in Seq(1..MaxEvents)
  BY DEF TypeOK
<1>2. Hand(s) \in Seq(1..MaxEvents)
  <2>1. CASE inHand[s] = 0
    BY <2>1 DEF Hand
  <2>2. CASE inHand[s] # 0
    <3>1. inHand[s] \in 1..MaxEvents
      BY <2>2, StreamAssumption DEF TypeOK
    <3>. QED BY <2>2, <3>1 DEF Hand
  <2>. QED BY <2>1, <2>2
<1>3. Passed(s) \in Seq(1..MaxEvents)
  <2>1. sent[s] \o Hand(s) \in Seq(1..MaxEvents)
    BY <1>1, <1>2, ConcatProperties
  <2>. QED BY <1>1, <2>1, ConcatProperties DEF Passed
<1>4. \A q \in Seq(1..MaxEvents) : q \in Seq(Nat)
  <2>1. 1..MaxEvents \subseteq Nat
    OBVIOUS
  <2>. QED BY <2>1, SeqMonotonic
<1>5. Range(Passed(s)) \subseteq 1..MaxEvents
  BY <1>3, RangeOfSeq
<1>. QED BY <1>1, <1>2, <1>3, <1>4, <1>5

\* Concatenation is associative.
LEMMA Associates ==
    \A x \in Seq(Nat), y \in Seq(Nat), z \in Seq(Nat) : (x \o y) \o z = x \o (y \o z)
  BY ConcatAssociative, SMTT(30)

\* Most steps leave it alone.
LEMMA PassedSame ==
    ASSUME UNCHANGED <<sent, inHand, queue>>, NEW s
    PROVE  Passed(s)' = Passed(s)
  BY DEF Passed, Hand

\* The next event is taken out of the channel,
LEMMA ReceiveEffect ==
    ASSUME Inv, NEW s \in Subs, Receive(s), NEW q \in Subs
    PROVE  Passed(q)' = Passed(q)
<1>1. CASE q # s
  <2>1. sent'[q] = sent[q] /\ inHand'[q] = inHand[q] /\ queue'[q] = queue[q]
    BY <1>1 DEF Receive, Inv, TypeOK
  <2>. QED BY <2>1 DEF Passed, Hand
<1>2. CASE q = s
  <2> DEFINE h == Head(queue[s])
             t == Tail(queue[s])
  <2>1. /\ queue[s] \in Seq(Nat) /\ queue[s] # <<>> /\ sent[s] \in Seq(Nat)
        /\ queue[s] \in Seq(1..MaxEvents)
    BY PassedTyped DEF Inv, Receive
  <2>2. /\ h \in 1..MaxEvents /\ t \in Seq(Nat) /\ h \in Nat /\ h # 0 /\ <<h>> \in Seq(Nat)
    <3>1. h \in 1..MaxEvents /\ t \in Seq(Nat)
      BY <2>1, HeadTailProperties
    <3> HIDE DEF h, t
    <3>. QED BY <3>1
  <2>3. <<h>> \o t = queue[s]
    BY <2>1
  <2>4. inHand[s] = 0 /\ sent'[s] = sent[s] /\ inHand'[s] = h /\ queue'[s] = t
    BY DEF Receive, Goto, Inv, TypeOK, InHand
  <2> HIDE DEF h, t
  <2>5. Passed(s) = sent[s] \o queue[s]
    BY <2>1, <2>4, ConcatEmptySeq DEF Passed, Hand
  <2>6. Passed(s)' = (sent[s] \o <<h>>) \o t
    BY <2>2, <2>4 DEF Passed, Hand
  <2>7. (sent[s] \o <<h>>) \o t = sent[s] \o (<<h>> \o t)
    <3> DEFINE g == <<h>>
    <3>1. g \in Seq(Nat)
      BY <2>2
    <3> HIDE DEF g
    <3>2. (sent[s] \o g) \o t = sent[s] \o (g \o t)
      BY <2>1, <2>2, <3>1, Associates, Zenon
    <3>. QED BY <3>2 DEF g
  <2>. QED BY <1>2, <2>3, <2>5, <2>6, <2>7
<1>. QED BY <1>1, <1>2

\* and is sent,
LEMMA SentEffect ==
    ASSUME Inv, NEW s \in Subs, Sent(s), NEW q \in Subs
    PROVE  Passed(q)' = Passed(q)
<1>1. CASE q # s
  <2>1. sent'[q] = sent[q] /\ inHand'[q] = inHand[q] /\ queue'[q] = queue[q]
    BY <1>1 DEF Sent, chan_vars, Inv, TypeOK
  <2>. QED BY <2>1 DEF Passed, Hand
<1>2. CASE q = s
  <2>1. sent[s] \in Seq(Nat) /\ queue[s] \in Seq(Nat) /\ inHand[s] \in Nat
    <3>1. inHand[s] \in 0..MaxEvents
      BY DEF Inv, TypeOK
    <3>. QED BY <3>1, PassedTyped DEF Inv
  <2>2. /\ inHand[s] # 0 /\ sent'[s] = Append(sent[s], inHand[s]) /\ inHand'[s] = 0
        /\ queue'[s] = queue[s]
    BY DEF Sent, Goto, chan_vars, Inv, TypeOK, InHand
  <2>3. Append(sent[s], inHand[s]) = sent[s] \o <<inHand[s]>>
    BY <2>1, AppendIsConcat
  <2>4. Append(sent[s], inHand[s]) \o <<>> = Append(sent[s], inHand[s])
    BY <2>1, AppendProperties, ConcatEmptySeq
  <2>. QED BY <1>2, <2>2, <2>3, <2>4 DEF Passed, Hand
<1>. QED BY <1>1, <1>2

\* unless the peer is gone, which then misses that one.
LEMMA SendFailsEffect ==
    ASSUME Inv, InOrder, NEW s \in Subs, SendFails(s), NEW q \in Subs
    PROVE  /\ Range(Passed(q)') \subseteq Range(Passed(q)) /\ Increasing(Passed(q)')
           /\ q # s => Passed(q)' = Passed(q)
<1>1. CASE q # s
  <2>1. sent'[q] = sent[q] /\ inHand'[q] = inHand[q] /\ queue'[q] = queue[q]
    BY <1>1 DEF SendFails, chan_vars, Inv, TypeOK
  <2>2. Passed(q)' = Passed(q)
    BY <2>1 DEF Passed, Hand
  <2>. QED BY <2>2 DEF InOrder
<1>2. CASE q = s
  <2>1. sent[s] \in Seq(Nat) /\ queue[s] \in Seq(Nat) /\ Hand(s) \in Seq(Nat)
    BY PassedTyped DEF Inv
  <2>2. sent'[s] = sent[s] /\ inHand'[s] = 0 /\ queue'[s] = queue[s]
    BY DEF SendFails, chan_vars, Inv, TypeOK
  <2>3. Passed(s)' = sent[s] \o queue[s]
    BY <2>1, <2>2, ConcatEmptySeq DEF Passed, Hand
  <2>4. Increasing(sent[s] \o Hand(s) \o queue[s])
    BY DEF InOrder, Passed
  <2>. QED BY <1>2, <2>1, <2>3, <2>4, CutFacts DEF Passed
<1>. QED BY <1>1, <1>2

\* A handler is called: it panics, passes the event over, or passes it on.
LEMMA CallEffect ==
    ASSUME Inv, CallHandler
    PROVE  LET s == Head(todo)
               n == Len(log) IN
           /\ s \in Subs /\ s \in Range(todo) /\ n \in 1..MaxEvents /\ Last(log) = log[n]
           /\ n \notin Range(Passed(s)) /\ log[n] \in Event
           /\ UNCHANGED <<request, log, handlers, answer, clientDone, pc, regs, since, chClosed,
                          inHand, sent, cancelled>>
           /\ \/ UNCHANGED <<todo, rl, queue>>
              \/ /\ ~Forwards(s, log[n]) \/ (~HasRoom(s) /\ ~Blocks(s))
                 /\ HandlerDone /\ UNCHANGED queue
              \/ /\ Forwards(s, log[n]) /\ HasRoom(s)
                 /\ HandlerDone /\ queue' = [queue EXCEPT ![s] = Append(@, n)]
<1> DEFINE s == Head(todo)
           n == Len(log)
<1>1. todo \in Seq(Subs) /\ todo # <<>>
  BY DEF CallHandler, Inv, TypeOK
<1>2. s \in Subs /\ s \in Range(todo)
  BY <1>1, TailFacts
<1>3. log # <<>> /\ log \in Seq(Event) /\ Len(log) <= MaxEvents /\ n \notin Range(Passed(s))
  BY <1>2 DEF Inv, TypeOK, Dispatched
<1>4. n \in 1..MaxEvents /\ Last(log) = log[n] /\ log[n] \in Event
  BY <1>3, StreamAssumption DEF Last
<1>5. UNCHANGED <<request, log, handlers, answer, clientDone, pc, regs, since, chClosed,
                  inHand, sent, cancelled>>
  BY DEF CallHandler, peer_vars, reg_vars
<1>6. \/ UNCHANGED <<todo, rl, queue>>
      \/ /\ ~Forwards(s, Last(log)) \/ (~HasRoom(s) /\ ~Blocks(s))
         /\ HandlerDone /\ UNCHANGED queue
      \/ /\ Forwards(s, Last(log)) /\ HasRoom(s)
         /\ HandlerDone /\ queue' = [queue EXCEPT ![s] = Append(@, n)]
  BY DEF CallHandler
<1> HIDE DEF s, n
<1>7. Last(log) = log[n]
  BY <1>4
<1>. QED BY <1>2, <1>3, <1>4, <1>5, <1>6, <1>7, Zenon DEF s, n

\* What is passed on comes last.
LEMMA PassedOn ==
    ASSUME Inv, NEW s \in Subs, NEW n \in 1..MaxEvents,
           queue' = [queue EXCEPT ![s] = Append(@, n)], UNCHANGED <<sent, inHand>>, NEW q \in Subs
    PROVE  Passed(q)' = IF q = s THEN Append(Passed(s), n) ELSE Passed(q)
<1>1. CASE q # s
  <2>1. sent'[q] = sent[q] /\ inHand'[q] = inHand[q] /\ queue'[q] = queue[q]
    BY <1>1 DEF Inv, TypeOK
  <2>2. Passed(q)' = Passed(q)
    BY <2>1 DEF Passed, Hand
  <2>. QED BY <1>1, <2>2
<1>2. CASE q = s
  <2> DEFINE a == sent[s] \o Hand(s)
  <2>1. queue[s] \in Seq(Nat) /\ a \in Seq(Nat) /\ n \in Nat /\ Passed(s) = a \o queue[s]
    BY PassedTyped, ConcatProperties DEF Inv, Passed
  <2>2. Passed(s)' = a \o Append(queue[s], n)
    BY DEF Passed, Hand, Inv, TypeOK
  <2> HIDE DEF a
  <2>3. a \o Append(queue[s], n) = a \o (queue[s] \o <<n>>)
    BY <2>1, AppendIsConcat
  <2>4. a \o (queue[s] \o <<n>>) = (a \o queue[s]) \o <<n>>
    <3> DEFINE g == <<n>>
    <3>1. g \in Seq(Nat)
      BY <2>1
    <3> HIDE DEF g
    <3>2. a \o (queue[s] \o g) = (a \o queue[s]) \o g
      BY <2>1, <3>1, Associates, Zenon
    <3>. QED BY <3>2 DEF g
  <2>5. (a \o queue[s]) \o <<n>> = Append(a \o queue[s], n)
    <3>1. a \o queue[s] \in Seq(Nat)
      BY <2>1, ConcatProperties
    <3>. QED BY <2>1, <3>1, AppendIsConcat
  <2>. QED BY <1>2, <2>1, <2>2, <2>3, <2>4, <2>5
<1>. QED BY <1>1, <1>2

\* The end of a handler takes its stream out of those that are yet to be called.
LEMMA DoneEffect ==
    ASSUME Inv, todo # <<>>, HandlerDone
    PROVE  /\ todo' \in Seq(Subs) /\ rl' \in {"read", "call"} /\ (rl' = "call" <=> todo' # <<>>)
           /\ IsInjective(todo') /\ Range(todo') = Range(todo) \ {Head(todo)}
  BY TailFacts DEF Inv, TypeOK, Dispatched, HandlerDone

\* The methods of a domain are numbered,
LEMMA WantedCount ==
    ASSUME NEW s
    PROVE  /\ Cardinality(Wanted(s)) \in Nat \ {0} /\ Wanted(s) = 1..Cardinality(Wanted(s))
           /\ Wanted(s) \subseteq Methods /\ IsFiniteSet(Wanted(s))
<1>1. CASE Profile(s).several
  BY <1>1, StreamAssumption, FS_Interval DEF Wanted, Methods
<1>2. CASE ~Profile(s).several
  <2>1. Wanted(s) = 1..1
    BY <1>2 DEF Wanted
  <2>2. IsFiniteSet(1..1) /\ Cardinality(1..1) = 1
    <3>1. \A n \in Nat : IsFiniteSet(1..n) /\ Cardinality(1..n) = n
      BY FS_Interval
    <3>2. 1 \in Nat
      OBVIOUS
    <3>. QED BY <3>1, <3>2, Zenon
  <2>3. 1..1 \subseteq Methods
    BY StreamAssumption DEF Methods
  <2>. QED BY <2>1, <2>2, <2>3
<1>. QED BY <1>1, <1>2

\* and the next one is new, and the last one when the loop ends.
LEMMA NextMethod ==
    ASSUME Registering, NEW s \in Subs, pc[s] = "register"
    PROVE  LET m == Cardinality(regs[s]) + 1 IN
           /\ m \in Methods /\ m \in Wanted(s) /\ m \notin regs[s]
           /\ regs[s] \cup {m} \subseteq Wanted(s)
           /\ m # Cardinality(Wanted(s)) =>
                \E k \in 0..(Cardinality(Wanted(s)) - 1) : regs[s] \cup {m} = 1..k
<1>1. PICK k \in 0..(Cardinality(Wanted(s)) - 1) : regs[s] = 1..k
  BY DEF Registering
<1>2. k \in Nat /\ Cardinality(regs[s]) = k
  BY <1>1, WantedCount, FS_Interval
<1>3. k + 1 \in Wanted(s) /\ k + 1 \notin 1..k /\ (1..k) \cup {k + 1} = 1..(k + 1)
  BY <1>1, <1>2, WantedCount
<1>. QED BY <1>1, <1>2, <1>3, WantedCount

-----------------------------------------------------------------------------
(* What a stream is entitled to                                              *)

\* It is the same as long as its registrations are, and its handler is not called.
LEMMA DueSame ==
    ASSUME NEW s, UNCHANGED <<request, log>>, regs'[s] = regs[s], since'[s] = since[s],
           s \in Range(todo') <=> s \in Range(todo)
    PROVE  Due(s)' = Due(s)
  BY DEF Due, Forwards, Profile

\* Then a stream that was served still is.
LEMMA ServedKept ==
    ASSUME NEW s, Served(s), UNCHANGED request, Due(s)' = Due(s), Passed(s)' = Passed(s)
    PROVE  Served(s)'
<1>1. Blocks(s)' <=> Blocks(s)
  BY DEF Blocks, Profile
<1>. QED BY <1>1 DEF Served

LEMMA ServedSame ==
    ASSUME NEW s, Served(s), UNCHANGED <<request, log>>, regs'[s] = regs[s],
           since'[s] = since[s], s \in Range(todo') <=> s \in Range(todo),
           Passed(s)' = Passed(s)
    PROVE  Served(s)'
  BY DueSame, ServedKept

\* So it is when the newest event is due and passed on,
LEMMA ServedOneMore ==
    ASSUME NEW s, Served(s), NEW n, UNCHANGED request, \A i \in Due(s) : i < n,
           Due(s) \subseteq Nat, n \in Nat,
           Due(s)' = Due(s) \cup {n}, Range(Passed(s)') = Range(Passed(s)) \cup {n}
    PROVE  Served(s)'
<1>1. Blocks(s)' <=> Blocks(s)
  BY DEF Blocks, Profile
<1>2. \A i \in Due(s) : {j \in Due(s)' : j <= i} = {j \in Due(s) : j <= i}
  <2> TAKE i \in Due(s)
  <2>1. ~(n <= i)
    OBVIOUS
  <2>. QED BY <2>1
<1>3. \A i \in Due(s)' : Cardinality({j \in Due(s)' : j <= i}) <= Cap => i \in Range(Passed(s)')
  BY <1>2 DEF Served
<1>. QED BY <1>1, <1>3 DEF Served

\* and when it is due and too much was due before.
LEMMA ServedButNewest ==
    ASSUME NEW s, Served(s), NEW n, UNCHANGED request, \A i \in Due(s) : i < n,
           Due(s) \subseteq Nat, n \in Nat, ~Blocks(s),
           Due(s)' = Due(s) \cup {n}, Passed(s)' = Passed(s),
           Cap < Cardinality({j \in Due(s) \cup {n} : j <= n}),
           Cardinality({j \in Due(s) \cup {n} : j <= n}) \in Nat
    PROVE  Served(s)'
<1>1. ~Blocks(s)'
  BY DEF Blocks, Profile
<1>2. \A i \in Due(s) : {j \in Due(s)' : j <= i} = {j \in Due(s) : j <= i}
  <2> TAKE i \in Due(s)
  <2>1. ~(n <= i)
    OBVIOUS
  <2>. QED BY <2>1
<1>3. ~(Cardinality({j \in Due(s)' : j <= n}) <= Cap)
  BY StreamAssumption
<1>4. \A i \in Due(s)' : Cardinality({j \in Due(s)' : j <= i}) <= Cap => i \in Range(Passed(s)')
  BY <1>2, <1>3 DEF Served
<1>. QED BY <1>1, <1>4 DEF Served

\* What is in a full channel is as much as was due.
LEMMA ChannelFull ==
    ASSUME TypeOK, InOrder, NEW s \in Subs, ~HasRoom(s), NEW n \in Nat,
           Range(Passed(s)) \subseteq Due(s), \A i \in Due(s) : i < n, Due(s) \subseteq 1..Len(log)
    PROVE  /\ Cap < Cardinality({j \in Due(s) \cup {n} : j <= n})
           /\ Cardinality({j \in Due(s) \cup {n} : j <= n}) \in Nat
<1> DEFINE all == {j \in Due(s) \cup {n} : j <= n}
           R == Range(queue[s])
<1>1. /\ IsFiniteSet(R) /\ Cardinality(R) = Len(queue[s])
      /\ R \subseteq Range(Passed(s))
  <2>1. /\ sent[s] \in Seq(Nat) /\ Hand(s) \in Seq(Nat) /\ queue[s] \in Seq(Nat)
        /\ Increasing(sent[s] \o Hand(s) \o queue[s])
    BY PassedTyped DEF InOrder, Passed
  <2>2. Increasing(queue[s]) /\ R \subseteq Range(Passed(s))
    BY <2>1, CutFacts DEF Passed
  <2>. QED BY <2>1, <2>2, IncreasingCount
<1>2. Len(log) \in Nat /\ Len(queue[s]) \in Nat /\ Cap <= Len(queue[s]) /\ Cap \in Nat
  BY StreamAssumption DEF TypeOK, HasRoom
<1>3. n \notin R /\ R \cup {n} \subseteq all
  BY <1>1, <1>2
<1>4. IsFiniteSet(all) /\ Cardinality(all) \in Nat
  <2>1. IsFiniteSet(1..Len(log))
    BY <1>2, FS_Interval
  <2>2. IsFiniteSet((1..Len(log)) \cup {n})
    BY <2>1, FS_AddElement
  <2>3. all \in SUBSET ((1..Len(log)) \cup {n})
    OBVIOUS
  <2> HIDE DEF all
  <2>4. IsFiniteSet(all)
    BY <2>2, <2>3, FS_Subset
  <2>. QED BY <2>4, FS_CardinalityType
<1> HIDE DEF all, R
<1>5. Cardinality(R \cup {n}) = Len(queue[s]) + 1
  BY <1>1, <1>3, FS_AddElement
<1>6. Cardinality(R \cup {n}) <= Cardinality(all)
  <2>1. R \cup {n} \in SUBSET all
    BY <1>3
  <2>. QED BY <1>4, <2>1, FS_Subset
<1>7. Cap < Cardinality(all)
  BY <1>2, <1>4, <1>5, <1>6
<1>. QED BY <1>4, <1>7 DEF all

-----------------------------------------------------------------------------
(* The inductive invariant, part by part                                     *)

\* Every step keeps the types.
LEMMA TypeNext ==
    ASSUME IInv, [Next]_vars
    PROVE  TypeOK'
<1>1. ASSUME ReadEvent
      PROVE  TypeOK'
  <2>1. PICK e \in Event : log' = Append(log, e) /\ todo' = handlers[e.method]
    BY <1>1 DEF ReadEvent, Snapshot
  <2>2. log' \in Seq(Event) /\ Len(log') <= MaxEvents
    BY <1>1, <2>1, StreamAssumption DEF ReadEvent, IInv, Inv, TypeOK
  <2>3. todo' \in Seq(Subs)
    BY <2>1 DEF Event, IInv, Inv, TypeOK
  <2>4. rl' = IF todo' = <<>> THEN "read" ELSE "call"
    BY <1>1 DEF ReadEvent
  <2>. QED BY <1>1, <2>2, <2>3, <2>4
       DEF ReadEvent, client_vars, reg_vars, chan_vars, peer_vars, IInv, Inv, TypeOK
<1>2. ASSUME CallHandler
      PROVE  TypeOK'
  <2>0. PICK s \in Subs, n \in 1..MaxEvents : s = Head(todo) /\ n = Len(log)
    BY <1>2, CallEffect DEF IInv
  <2>1. /\ s = Head(todo) /\ n = Len(log)
        /\ s \in Subs /\ s \in Range(todo) /\ n \in 1..MaxEvents /\ Last(log) = log[n]
        /\ n \notin Range(Passed(s)) /\ log[n] \in Event
        /\ UNCHANGED <<request, log, handlers, answer, clientDone, pc, regs, since, chClosed,
                       inHand, sent, cancelled>>
        /\ \/ UNCHANGED <<todo, rl, queue>>
           \/ /\ ~Forwards(s, log[n]) \/ (~HasRoom(s) /\ ~Blocks(s))
              /\ HandlerDone /\ UNCHANGED queue
           \/ /\ Forwards(s, log[n]) /\ HasRoom(s)
              /\ HandlerDone /\ queue' = [queue EXCEPT ![s] = Append(@, n)]
    BY <1>2, <2>0, CallEffect DEF IInv
  <2>2. todo # <<>>
    BY <1>2 DEF CallHandler, IInv, Inv, TypeOK
  <2>3. UNCHANGED <<todo, rl>> \/ HandlerDone
    BY <2>1
  <2>4. /\ todo' \in Seq(Subs) /\ rl' \in {"read", "call", "stopped"}
        /\ (rl' = "call" <=> todo' # <<>>)
    BY <2>2, <2>3, DoneEffect DEF IInv, Inv, TypeOK
  <2>5. queue' \in [Subs -> Seq(1..MaxEvents)] /\ \A q \in Subs : Len(queue'[q]) <= Cap
    <3>1. CASE UNCHANGED queue
      BY <3>1 DEF IInv, Inv, TypeOK
    <3>2. CASE HasRoom(s) /\ queue' = [queue EXCEPT ![s] = Append(@, n)]
      <4>1. /\ Append(queue[s], n) \in Seq(1..MaxEvents) /\ Len(queue[s]) \in Nat
            /\ Len(Append(queue[s], n)) = Len(queue[s]) + 1
        BY <2>1, AppendProperties DEF IInv, Inv, TypeOK
      <4>2. Len(Append(queue[s], n)) <= Cap
        BY <3>2, <4>1, StreamAssumption DEF HasRoom
      <4>. QED BY <2>1, <3>2, <4>1, <4>2 DEF IInv, Inv, TypeOK
    <3>. QED BY <2>1, <3>1, <3>2
  <2>6. panicked' \in BOOLEAN
    BY <1>2 DEF CallHandler, IInv, Inv, TypeOK
  <2>. QED BY <2>1, <2>4, <2>5, <2>6 DEF IInv, Inv, TypeOK, StreamPc
<1>3. ASSUME ReadAnswer
      PROVE  TypeOK'
  BY <1>3
  DEF ReadAnswer, client_vars, reg_vars, chan_vars, peer_vars, IInv, Inv, TypeOK, StreamPc
<1>4. ASSUME AnswerArrives
      PROVE  TypeOK'
  BY <1>4
  DEF AnswerArrives, client_vars, reg_vars, chan_vars, peer_vars, IInv, Inv, TypeOK,
     StreamPc
<1>5. ASSUME StopReading
      PROVE  TypeOK'
  BY <1>5
  DEF StopReading, client_vars, reg_vars, chan_vars, peer_vars, IInv, Inv, TypeOK,
     StreamPc
<1>6. ASSUME ClientCloses
      PROVE  TypeOK'
  BY <1>6
  DEF ClientCloses, reader_vars, reg_vars, chan_vars, peer_vars, IInv, Inv, TypeOK,
     StreamPc
<1>7. ASSUME NEW s \in Subs, Subscribe(s)
      PROVE  TypeOK'
  BY <1>7
  DEF Subscribe, Goto, reader_vars, client_vars, peer_vars, reg_vars, chan_vars, IInv,
     Inv, TypeOK, StreamPc
<1>8. ASSUME NEW s \in Subs, Register(s)
      PROVE  TypeOK'
  <2> DEFINE m == Cardinality(regs[s]) + 1
  <2>1. m \in Methods /\ m \in Wanted(s) /\ m \notin regs[s]
    BY <1>8, NextMethod DEF Register, Goto, IInv, Inv
  <2>2. /\ handlers' = [handlers EXCEPT ![m] = Append(@, s)]
        /\ regs' = [regs EXCEPT ![s] = @ \cup {m}]
        /\ since' = [since EXCEPT ![s][m] = Len(log)]
        /\ \E p \in {"select", "register"} : pc' = [pc EXCEPT ![s] = p]
    BY <1>8 DEF Register, Goto
  <2> HIDE DEF m
  <2>3. handlers' \in [Methods -> Seq(Subs)]
    BY <2>1, <2>2, AppendProperties DEF IInv, Inv, TypeOK
  <2>4. regs' \in [Subs -> SUBSET Methods]
    BY <2>1, <2>2 DEF IInv, Inv, TypeOK
  <2>5. since' \in [Subs -> [Methods -> 0..MaxEvents]]
    <3>1. Len(log) \in 0..MaxEvents
      BY StreamAssumption DEF IInv, Inv, TypeOK
    <3>2. [since[s] EXCEPT ![m] = Len(log)] \in [Methods -> 0..MaxEvents]
      BY <2>1, <3>1 DEF IInv, Inv, TypeOK
    <3>3. since' = [since EXCEPT ![s] = [since[s] EXCEPT ![m] = Len(log)]]
      BY <2>2
    <3>. QED BY <3>2, <3>3 DEF IInv, Inv, TypeOK
  <2>6. pc' \in [Subs -> StreamPc]
    BY <2>2 DEF IInv, Inv, TypeOK, StreamPc
  <2>. QED BY <1>8, <2>3, <2>4, <2>5, <2>6
       DEF Register, reader_vars, client_vars, chan_vars, peer_vars, IInv, Inv, TypeOK
<1>9. ASSUME NEW s \in Subs, Receive(s)
      PROVE  TypeOK'
  <2>1. /\ Head(queue[s]) \in 1..MaxEvents /\ Tail(queue[s]) \in Seq(1..MaxEvents)
        /\ Len(Tail(queue[s])) = Len(queue[s]) - 1 /\ Len(queue[s]) \in Nat
    <3> DEFINE q == queue[s]
    <3>1. q \in Seq(1..MaxEvents) /\ q # <<>>
      BY <1>9 DEF Receive, IInv, Inv, TypeOK
    <3> HIDE DEF q
    <3>2. Head(q) \in 1..MaxEvents /\ Tail(q) \in Seq(1..MaxEvents)
      BY <3>1, TailFacts, Zenon
    <3>3. Len(Tail(q)) = Len(q) - 1 /\ Len(q) \in Nat
      BY <3>1
    <3>. QED BY <3>2, <3>3 DEF q
  <2>2. queue' \in [Subs -> Seq(1..MaxEvents)] /\ \A q \in Subs : Len(queue'[q]) <= Cap
    <3>1. /\ queue' = [queue EXCEPT ![s] = Tail(queue[s])]
          /\ queue \in [Subs -> Seq(1..MaxEvents)]
          /\ \A q \in Subs : Len(queue[q]) <= Cap
      BY <1>9 DEF Receive, IInv, Inv, TypeOK
    <3>2. Len(Tail(queue[s])) <= Cap
      BY <2>1, <3>1, StreamAssumption
    <3>. QED BY <2>1, <3>1, <3>2
  <2>3. inHand' \in [Subs -> 0..MaxEvents]
    BY <1>9, <2>1 DEF Receive, IInv, Inv, TypeOK
  <2>4. pc' \in [Subs -> StreamPc]
    BY <1>9 DEF Receive, Goto, IInv, Inv, TypeOK, StreamPc
  <2>. QED BY <1>9, <2>2, <2>3, <2>4
       DEF Receive, reader_vars, client_vars, reg_vars, IInv, Inv, TypeOK
<1>10. ASSUME NEW s \in Subs, SendFails(s)
      PROVE  TypeOK'
  <2>1. inHand' \in [Subs -> 0..MaxEvents]
    BY <1>10, StreamAssumption DEF SendFails, IInv, Inv, TypeOK
  <2>. QED BY <1>10, <2>1 DEF SendFails, Goto, reader_vars, client_vars, reg_vars,
       chan_vars, IInv, Inv, TypeOK, StreamPc
<1>11. ASSUME NEW s \in Subs, SeesCancel(s)
      PROVE  TypeOK'
  BY <1>11
  DEF SeesCancel, Goto, reader_vars, client_vars, peer_vars, reg_vars, chan_vars, IInv,
     Inv, TypeOK, StreamPc
<1>12. ASSUME NEW s \in Subs, SeesClosed(s)
      PROVE  TypeOK'
  BY <1>12
  DEF SeesClosed, Goto, reader_vars, client_vars, peer_vars, reg_vars, chan_vars, IInv,
     Inv, TypeOK, StreamPc
<1>13. ASSUME NEW s \in Subs, Unregister(s)
      PROVE  TypeOK'
  <2>1. PICK m \in regs[s] :
          /\ handlers' = [handlers EXCEPT ![m] = Without(@, s)]
          /\ regs' = [regs EXCEPT ![s] = @ \ {m}]
    BY <1>13 DEF Unregister
  <2>2. m \in Methods /\ s \in Range(handlers[m]) /\ IsInjective(handlers[m])
    BY DEF IInv, Inv, TypeOK, OnlyOwnHandlers
  <2>3. Without(handlers[m], s) \in Seq(Subs)
    BY <2>2, WithoutFacts DEF IInv, Inv, TypeOK
  <2>4. handlers' \in [Methods -> Seq(Subs)]
    BY <2>1, <2>2, <2>3 DEF IInv, Inv, TypeOK
  <2>5. regs' \in [Subs -> SUBSET Methods]
    BY <2>1 DEF IInv, Inv, TypeOK
  <2>6. pc' \in [Subs -> StreamPc]
    BY <1>13 DEF Unregister, Goto, IInv, Inv, TypeOK, StreamPc
  <2>. QED BY <1>13, <2>4, <2>5, <2>6
       DEF Unregister, reader_vars, client_vars, chan_vars, peer_vars, IInv, Inv, TypeOK
<1>14. ASSUME NEW s \in Subs, CloseChannel(s)
      PROVE  TypeOK'
  BY <1>14
  DEF CloseChannel, Goto, reader_vars, client_vars, reg_vars, peer_vars, IInv, Inv,
     TypeOK, StreamPc
<1>15. ASSUME NEW s \in Subs, Sent(s)
      PROVE  TypeOK'
  <2>1. inHand[s] \in 1..MaxEvents
    BY <1>15, StreamAssumption DEF Sent, Goto, IInv, Inv, TypeOK, InHand
  <2>2. sent' \in [Subs -> Seq(1..MaxEvents)]
    BY <1>15, <2>1, AppendProperties DEF Sent, IInv, Inv, TypeOK
  <2>3. inHand' \in [Subs -> 0..MaxEvents]
    BY <1>15, StreamAssumption DEF Sent, IInv, Inv, TypeOK
  <2>. QED BY <1>15, <2>2, <2>3 DEF Sent, Goto, reader_vars, client_vars, reg_vars,
       chan_vars, IInv, Inv, TypeOK, StreamPc
<1>16. ASSUME NEW s \in Subs, PeerLeaves(s)
      PROVE  TypeOK'
  BY <1>16
  DEF PeerLeaves, reader_vars, client_vars, reg_vars, chan_vars, IInv, Inv, TypeOK,
     StreamPc
<1>17. CASE UNCHANGED vars
  BY <1>17 DEF vars, reader_vars, client_vars, peer_vars, reg_vars, chan_vars, IInv,
     Inv, TypeOK, StreamPc
<1>. QED BY <1>1, <1>2, <1>3, <1>4, <1>5, <1>6, <1>7, <1>8, <1>9, <1>10, <1>11, <1>12,
     <1>13, <1>14, <1>15, <1>16, <1>17 DEF Next, ReaderStep, StreamStep

\* An event is in the hand of a stream while it sends it.
LEMMA InHandNext ==
    ASSUME IInv, [Next]_vars
    PROVE  InHand'
<1>1. ASSUME ReadEvent
      PROVE  InHand'
  BY <1>1
  DEF ReadEvent, client_vars, reg_vars, chan_vars, peer_vars, IInv, Inv, TypeOK, InHand
<1>2. ASSUME CallHandler
      PROVE  InHand'
  BY <1>2 DEF CallHandler, reg_vars, peer_vars, IInv, Inv, InHand
<1>3. ASSUME ReadAnswer
      PROVE  InHand'
  BY <1>3
  DEF ReadAnswer, client_vars, reg_vars, chan_vars, peer_vars, IInv, Inv, TypeOK, InHand
<1>4. ASSUME AnswerArrives
      PROVE  InHand'
  BY <1>4
  DEF AnswerArrives, client_vars, reg_vars, chan_vars, peer_vars, IInv, Inv, TypeOK,
     InHand
<1>5. ASSUME StopReading
      PROVE  InHand'
  BY <1>5
  DEF StopReading, client_vars, reg_vars, chan_vars, peer_vars, IInv, Inv, TypeOK, InHand
<1>6. ASSUME ClientCloses
      PROVE  InHand'
  BY <1>6
  DEF ClientCloses, reader_vars, reg_vars, chan_vars, peer_vars, IInv, Inv, TypeOK, InHand
<1>7. ASSUME NEW s \in Subs, Subscribe(s)
      PROVE  InHand'
  BY <1>7
  DEF Subscribe, Goto, reader_vars, client_vars, peer_vars, reg_vars, chan_vars, IInv,
     Inv, TypeOK, InHand
<1>8. ASSUME NEW s \in Subs, Register(s)
      PROVE  InHand'
  BY <1>8
  DEF Register, Goto, reader_vars, client_vars, chan_vars, peer_vars, IInv, Inv, TypeOK,
     InHand
<1>9. ASSUME NEW s \in Subs, Receive(s)
      PROVE  InHand'
  <2>1. Head(queue[s]) \in 1..MaxEvents
    <3> DEFINE q == queue[s]
    <3>1. q \in Seq(1..MaxEvents) /\ q # <<>>
      BY <1>9 DEF Receive, IInv, Inv, TypeOK
    <3> HIDE DEF q
    <3>2. Head(q) \in 1..MaxEvents
      BY <3>1, TailFacts, Zenon
    <3>. QED BY <3>2 DEF q
  <2>2. Head(queue[s]) # 0
    BY <2>1
  <2>. QED BY <1>9, <2>2 DEF Receive, Goto, IInv, Inv, TypeOK, InHand
<1>10. ASSUME NEW s \in Subs, SendFails(s)
      PROVE  InHand'
  BY <1>10
  DEF SendFails, Goto, reader_vars, client_vars, reg_vars, chan_vars, IInv, Inv, TypeOK,
     InHand
<1>11. ASSUME NEW s \in Subs, SeesCancel(s)
      PROVE  InHand'
  BY <1>11
  DEF SeesCancel, Goto, reader_vars, client_vars, peer_vars, reg_vars, chan_vars, IInv,
     Inv, TypeOK, InHand
<1>12. ASSUME NEW s \in Subs, SeesClosed(s)
      PROVE  InHand'
  BY <1>12
  DEF SeesClosed, Goto, reader_vars, client_vars, peer_vars, reg_vars, chan_vars, IInv,
     Inv, TypeOK, InHand
<1>13. ASSUME NEW s \in Subs, Unregister(s)
      PROVE  InHand'
  BY <1>13
  DEF Unregister, Goto, reader_vars, client_vars, chan_vars, peer_vars, IInv, Inv,
     TypeOK, InHand
<1>14. ASSUME NEW s \in Subs, CloseChannel(s)
      PROVE  InHand'
  BY <1>14
  DEF CloseChannel, Goto, reader_vars, client_vars, reg_vars, peer_vars, IInv, Inv,
     TypeOK, InHand
<1>15. ASSUME NEW s \in Subs, Sent(s)
      PROVE  InHand'
  BY <1>15
  DEF Sent, Goto, reader_vars, client_vars, reg_vars, chan_vars, IInv, Inv, TypeOK, InHand
<1>16. ASSUME NEW s \in Subs, PeerLeaves(s)
      PROVE  InHand'
  BY <1>16
  DEF PeerLeaves, reader_vars, client_vars, reg_vars, chan_vars, IInv, Inv, TypeOK, InHand
<1>17. CASE UNCHANGED vars
  BY <1>17 DEF vars, reader_vars, client_vars, peer_vars, reg_vars, chan_vars, IInv,
     Inv, TypeOK, InHand
<1>. QED BY <1>1, <1>2, <1>3, <1>4, <1>5, <1>6, <1>7, <1>8, <1>9, <1>10, <1>11, <1>12,
     <1>13, <1>14, <1>15, <1>16, <1>17 DEF Next, ReaderStep, StreamStep

\* Registrations are made in turn, and taken back.
LEMMA RegisteringNext ==
    ASSUME IInv, [Next]_vars
    PROVE  Registering'
<1>1. ASSUME ReadEvent
      PROVE  Registering'
  <2>1. PICK e \in Event : log' = Append(log, e) /\ todo' = handlers[e.method]
    BY <1>1 DEF ReadEvent, Snapshot
  <2>2. /\ todo = <<>> /\ log \in Seq(Event) /\ Len(log) \in Nat
        /\ UNCHANGED <<request, handlers, pc, regs, since, queue, inHand, sent>>
    BY <1>1 DEF ReadEvent, client_vars, reg_vars, chan_vars, peer_vars, IInv, Inv, TypeOK
  <2>3. /\ log' \in Seq(Event) /\ Len(log') = Len(log) + 1 /\ log'[Len(log) + 1] = e
        /\ \A i \in 1..Len(log) : log'[i] = log[i]
    BY <2>1, <2>2, AppendProperties
  <2>4. /\ IsInjective(todo') /\ Range(todo') = {s \in Subs : e.method \in regs[s]}
        /\ Last(log') = e
    BY <2>1, <2>2, <2>3 DEF Event, IInv, OnlyOwnHandlers, Last
  <2>5. \A q : Passed(q)' = Passed(q)
    BY <2>2, PassedSame
  <2>6. \A s \in Subs : \A m \in regs[s] : since[s][m] <= Len(log')
    <3> TAKE s \in Subs
    <3> TAKE m \in regs[s]
    <3>1. m \in Methods
      BY DEF IInv, Inv, TypeOK
    <3>2. since[s][m] <= Len(log)
      BY DEF IInv, Inv, Registering
    <3>3. since[s][m] \in Nat
      BY <3>1 DEF IInv, Inv, TypeOK
    <3>. QED BY <2>2, <2>3, <3>2, <3>3
  <2>. QED BY <2>2, <2>6 DEF IInv, Inv, Registering, Wanted, Profile
<1>2. ASSUME CallHandler
      PROVE  Registering'
  BY <1>2 DEF CallHandler, reg_vars, peer_vars, IInv, Inv, Registering, Wanted, Profile
<1>3. ASSUME ReadAnswer
      PROVE  Registering'
  BY <1>3
  DEF ReadAnswer, client_vars, reg_vars, chan_vars, peer_vars, IInv, Inv, TypeOK,
     Registering, Wanted, Profile
<1>4. ASSUME AnswerArrives
      PROVE  Registering'
  BY <1>4
  DEF AnswerArrives, client_vars, reg_vars, chan_vars, peer_vars, IInv, Inv, TypeOK,
     Registering, Wanted, Profile
<1>5. ASSUME StopReading
      PROVE  Registering'
  BY <1>5
  DEF StopReading, client_vars, reg_vars, chan_vars, peer_vars, IInv, Inv, TypeOK,
     Registering, Wanted, Profile
<1>6. ASSUME ClientCloses
      PROVE  Registering'
  BY <1>6
  DEF ClientCloses, reader_vars, reg_vars, chan_vars, peer_vars, IInv, Inv, TypeOK,
     Registering, Wanted, Profile
<1>7. ASSUME NEW s \in Subs, Subscribe(s)
      PROVE  Registering'
  <2>1. /\ regs[s] = {} /\ UNCHANGED <<request, log, regs, since>>
        /\ \A q \in Subs : q # s => pc'[q] = pc[q]
    BY <1>7 DEF Subscribe, Goto, reader_vars, client_vars, peer_vars, reg_vars,
       chan_vars, IInv, Inv, TypeOK, OnlyOwnHandlers
  <2>2. 0 \in 0..(Cardinality(Wanted(s)) - 1) /\ {} = 1..0
    BY WantedCount
  <2>3. ASSUME NEW q \in Subs
        PROVE  pc'[q] = "register" => \E k \in 0..(Cardinality(Wanted(q)) - 1) : regs[q] = 1..k
    BY <2>1, <2>2 DEF IInv, Inv, Registering
  <2>. QED BY <2>1, <2>3 DEF IInv, Inv, Registering, Wanted, Profile
<1>8. ASSUME NEW s \in Subs, Register(s)
      PROVE  Registering'
  <2> DEFINE m == Cardinality(regs[s]) + 1
  <2>1. /\ m \in Methods /\ m \in Wanted(s) /\ m \notin regs[s]
        /\ regs[s] \cup {m} \subseteq Wanted(s)
        /\ m # Cardinality(Wanted(s)) =>
             \E k \in 0..(Cardinality(Wanted(s)) - 1) : regs[s] \cup {m} = 1..k
    BY <1>8, NextMethod DEF Register, Goto, IInv, Inv
  <2>2. /\ handlers' = [handlers EXCEPT ![m] = Append(@, s)]
        /\ regs' = [regs EXCEPT ![s] = @ \cup {m}]
        /\ since' = [since EXCEPT ![s][m] = Len(log)]
        /\ pc[s] = "register"
        /\ pc' = [pc EXCEPT ![s] = IF m = Cardinality(Wanted(s)) THEN "select" ELSE "register"]
        /\ UNCHANGED <<request, log, todo, queue, inHand, sent>>
    BY <1>8 DEF Register, Goto, reader_vars, client_vars, chan_vars, peer_vars
  <2> HIDE DEF m
  <2>3. pc'[s] \in {"select", "register"} /\ (pc'[s] = "register" => m # Cardinality(Wanted(s)))
    BY <2>2 DEF IInv, Inv, TypeOK
  <2>4. /\ regs'[s] = regs[s] \cup {m} /\ \A q \in Subs : q # s => regs'[q] = regs[q]
        /\ since'[s][m] = Len(log)
        /\ \A q \in Subs, k \in Methods : q # s \/ k # m => since'[q][k] = since[q][k]
        /\ \A q \in Subs : q # s => since'[q] = since[q] /\ pc'[q] = pc[q]
    BY <2>1, <2>2 DEF IInv, Inv, TypeOK
  <2>5. \A q \in Subs : regs[q] \subseteq Methods
    BY DEF IInv, Inv, TypeOK
  <2>6. Len(log) <= Len(log)
    BY DEF IInv, Inv, TypeOK
  <2>7. ASSUME NEW q \in Subs
        PROVE  /\ regs'[q] \subseteq Wanted(q)
               /\ pc'[q] = "register" => \E k \in 0..(Cardinality(Wanted(q)) - 1) : regs'[q] = 1..k
               /\ \A k \in regs'[q] : since'[q][k] <= Len(log)
    <3>1. CASE q = s
      <4>1. regs'[s] \subseteq Wanted(s)
        BY <2>1, <2>4
      <4>2. pc'[s] = "register" =>
              \E k \in 0..(Cardinality(Wanted(s)) - 1) : regs'[s] = 1..k
        BY <2>1, <2>3, <2>4
      <4>3. ASSUME NEW k \in regs'[s]
            PROVE  since'[s][k] <= Len(log)
        <5>1. CASE k = m
          BY <2>4, <2>6, <5>1
        <5>2. CASE k # m
          <6>1. k \in regs[s] /\ k \in Methods
            BY <2>4, <2>5, <4>3, <5>2
          <6>2. since'[s][k] = since[s][k]
            BY <2>4, <5>2, <6>1
          <6>. QED BY <6>1, <6>2 DEF IInv, Inv, Registering
        <5>. QED BY <5>1, <5>2
      <4>. QED BY <3>1, <4>1, <4>2, <4>3
    <3>2. CASE q # s
      BY <2>4, <3>2 DEF IInv, Inv, Registering
    <3>. QED BY <3>1, <3>2
  <2>. QED BY <2>2, <2>7 DEF Registering, Wanted, Profile
<1>9. ASSUME NEW s \in Subs, Receive(s)
      PROVE  Registering'
  BY <1>9
  DEF Receive, Goto, reader_vars, client_vars, reg_vars, IInv, Inv, TypeOK, Registering,
     Wanted, Profile
<1>10. ASSUME NEW s \in Subs, SendFails(s)
      PROVE  Registering'
  BY <1>10
  DEF SendFails, Goto, reader_vars, client_vars, reg_vars, chan_vars, IInv, Inv, TypeOK,
     Registering, Wanted, Profile
<1>11. ASSUME NEW s \in Subs, SeesCancel(s)
      PROVE  Registering'
  BY <1>11
  DEF SeesCancel, Goto, reader_vars, client_vars, peer_vars, reg_vars, chan_vars, IInv,
     Inv, TypeOK, Registering, Wanted, Profile
<1>12. ASSUME NEW s \in Subs, SeesClosed(s)
      PROVE  Registering'
  BY <1>12
  DEF SeesClosed, Goto, reader_vars, client_vars, peer_vars, reg_vars, chan_vars, IInv,
     Inv, TypeOK, Registering, Wanted, Profile
<1>13. ASSUME NEW s \in Subs, Unregister(s)
      PROVE  Registering'
  <2>1. PICK m \in regs[s] :
          /\ handlers' = [handlers EXCEPT ![m] = Without(@, s)]
          /\ regs' = [regs EXCEPT ![s] = @ \ {m}]
    BY <1>13 DEF Unregister
  <2>2. /\ pc[s] = "unregister" /\ UNCHANGED <<request, log, todo, since, queue, inHand, sent>>
        /\ pc' = [pc EXCEPT ![s] = IF Cardinality(regs[s]) > 1 THEN "unregister"
                                   ELSE IF Profile(s).blocking THEN "close" ELSE "done"]
    BY <1>13 DEF Unregister, Goto, reader_vars, client_vars, chan_vars, peer_vars
  <2>3. /\ regs'[s] = regs[s] \ {m} /\ pc'[s] \in {"unregister", "close", "done"}
        /\ \A q \in Subs : q # s => regs'[q] = regs[q] /\ pc'[q] = pc[q]
    BY <2>1, <2>2 DEF IInv, Inv, TypeOK
  <2>. QED BY <2>2, <2>3 DEF IInv, Inv, Registering, Wanted, Profile
<1>14. ASSUME NEW s \in Subs, CloseChannel(s)
      PROVE  Registering'
  BY <1>14
  DEF CloseChannel, Goto, reader_vars, client_vars, reg_vars, peer_vars, IInv, Inv,
     TypeOK, Registering, Wanted, Profile
<1>15. ASSUME NEW s \in Subs, Sent(s)
      PROVE  Registering'
  BY <1>15
  DEF Sent, Goto, reader_vars, client_vars, reg_vars, chan_vars, IInv, Inv, TypeOK,
     Registering, Wanted, Profile
<1>16. ASSUME NEW s \in Subs, PeerLeaves(s)
      PROVE  Registering'
  BY <1>16
  DEF PeerLeaves, reader_vars, client_vars, reg_vars, chan_vars, IInv, Inv, TypeOK,
     Registering, Wanted, Profile
<1>17. CASE UNCHANGED vars
  BY <1>17 DEF vars, reader_vars, client_vars, peer_vars, reg_vars, chan_vars, IInv,
     Inv, TypeOK, Registering, Wanted, Profile
<1>. QED BY <1>1, <1>2, <1>3, <1>4, <1>5, <1>6, <1>7, <1>8, <1>9, <1>10, <1>11, <1>12,
     <1>13, <1>14, <1>15, <1>16, <1>17 DEF Next, ReaderStep, StreamStep

\* Handlers come and go with the registrations of their stream, one by one.
LEMMA HandlersNext ==
    ASSUME IInv, [Next]_vars
    PROVE  OnlyOwnHandlers'
<1>1. ASSUME ReadEvent
      PROVE  OnlyOwnHandlers'
  BY <1>1
  DEF ReadEvent, client_vars, reg_vars, chan_vars, peer_vars, IInv, Inv, TypeOK,
     OnlyOwnHandlers
<1>2. ASSUME CallHandler
      PROVE  OnlyOwnHandlers'
  BY <1>2 DEF CallHandler, reg_vars, peer_vars, IInv, OnlyOwnHandlers
<1>3. ASSUME ReadAnswer
      PROVE  OnlyOwnHandlers'
  BY <1>3
  DEF ReadAnswer, client_vars, reg_vars, chan_vars, peer_vars, IInv, Inv, TypeOK,
     OnlyOwnHandlers
<1>4. ASSUME AnswerArrives
      PROVE  OnlyOwnHandlers'
  BY <1>4
  DEF AnswerArrives, client_vars, reg_vars, chan_vars, peer_vars, IInv, Inv, TypeOK,
     OnlyOwnHandlers
<1>5. ASSUME StopReading
      PROVE  OnlyOwnHandlers'
  BY <1>5
  DEF StopReading, client_vars, reg_vars, chan_vars, peer_vars, IInv, Inv, TypeOK,
     OnlyOwnHandlers
<1>6. ASSUME ClientCloses
      PROVE  OnlyOwnHandlers'
  BY <1>6
  DEF ClientCloses, reader_vars, reg_vars, chan_vars, peer_vars, IInv, Inv, TypeOK,
     OnlyOwnHandlers
<1>7. ASSUME NEW s \in Subs, Subscribe(s)
      PROVE  OnlyOwnHandlers'
  BY <1>7
  DEF Subscribe, Goto, reader_vars, client_vars, peer_vars, reg_vars, chan_vars, IInv,
     Inv, TypeOK, OnlyOwnHandlers
<1>8. ASSUME NEW s \in Subs, Register(s)
      PROVE  OnlyOwnHandlers'
  <2> DEFINE m == Cardinality(regs[s]) + 1
  <2>1. /\ m \in Methods /\ m \in Wanted(s) /\ m \notin regs[s]
        /\ regs[s] \cup {m} \subseteq Wanted(s)
        /\ m # Cardinality(Wanted(s)) =>
             \E k \in 0..(Cardinality(Wanted(s)) - 1) : regs[s] \cup {m} = 1..k
    BY <1>8, NextMethod DEF Register, Goto, IInv, Inv
  <2>2. /\ handlers' = [handlers EXCEPT ![m] = Append(@, s)]
        /\ regs' = [regs EXCEPT ![s] = @ \cup {m}]
        /\ since' = [since EXCEPT ![s][m] = Len(log)]
        /\ pc[s] = "register"
        /\ pc' = [pc EXCEPT ![s] = IF m = Cardinality(Wanted(s)) THEN "select" ELSE "register"]
        /\ UNCHANGED <<request, log, todo, queue, inHand, sent>>
    BY <1>8 DEF Register, Goto, reader_vars, client_vars, chan_vars, peer_vars
  <2> HIDE DEF m
  <2>3. pc'[s] \in {"select", "register"} /\ (pc'[s] = "register" => m # Cardinality(Wanted(s)))
    BY <2>2 DEF IInv, Inv, TypeOK
  <2>4. /\ regs'[s] = regs[s] \cup {m} /\ \A q \in Subs : q # s => regs'[q] = regs[q]
        /\ since'[s][m] = Len(log)
        /\ \A q \in Subs, k \in Methods : q # s \/ k # m => since'[q][k] = since[q][k]
        /\ \A q \in Subs : q # s => since'[q] = since[q] /\ pc'[q] = pc[q]
    BY <2>1, <2>2 DEF IInv, Inv, TypeOK
  <2>5. \A q \in Subs : pc'[q] \in {"idle", "close", "done"} => regs'[q] = {}
    BY <2>3, <2>4 DEF IInv, OnlyOwnHandlers
  <2>6. /\ handlers'[m] = Append(handlers[m], s) /\ handlers[m] \in Seq(Subs)
        /\ \A k \in Methods : k # m => handlers'[k] = handlers[k]
    BY <2>1, <2>2 DEF IInv, Inv, TypeOK
  <2>7. ASSUME NEW k \in Methods
        PROVE  /\ IsInjective(handlers'[k])
               /\ Range(handlers'[k]) = {q \in Subs : k \in regs'[q]}
    <3>1. IsInjective(handlers[k]) /\ Range(handlers[k]) = {q \in Subs : k \in regs[q]}
      BY DEF IInv, OnlyOwnHandlers
    <3>2. CASE k = m
      <4>1. s \notin Range(handlers[m])
        BY <2>1, <3>1, <3>2
      <4>2. /\ IsInjective(Append(handlers[m], s))
            /\ Range(Append(handlers[m], s)) = Range(handlers[m]) \cup {s}
        BY <2>6, <3>1, <3>2, <4>1, AppendFacts
      <4>3. {q \in Subs : m \in regs'[q]} = {q \in Subs : m \in regs[q]} \cup {s}
        BY <2>4
      <4>. QED BY <2>6, <3>1, <3>2, <4>2, <4>3
    <3>3. CASE k # m
      <4>1. \A q \in Subs : k \in regs'[q] <=> k \in regs[q]
        BY <2>4, <3>3
      <4>. QED BY <2>6, <3>1, <3>3, <4>1
    <3>. QED BY <3>2, <3>3
  <2>. QED BY <2>5, <2>7 DEF OnlyOwnHandlers
<1>9. ASSUME NEW s \in Subs, Receive(s)
      PROVE  OnlyOwnHandlers'
  BY <1>9
  DEF Receive, Goto, reader_vars, client_vars, reg_vars, IInv, Inv, TypeOK,
     OnlyOwnHandlers
<1>10. ASSUME NEW s \in Subs, SendFails(s)
      PROVE  OnlyOwnHandlers'
  BY <1>10
  DEF SendFails, Goto, reader_vars, client_vars, reg_vars, chan_vars, IInv, Inv, TypeOK,
     OnlyOwnHandlers
<1>11. ASSUME NEW s \in Subs, SeesCancel(s)
      PROVE  OnlyOwnHandlers'
  BY <1>11
  DEF SeesCancel, Goto, reader_vars, client_vars, peer_vars, reg_vars, chan_vars, IInv,
     Inv, TypeOK, OnlyOwnHandlers
<1>12. ASSUME NEW s \in Subs, SeesClosed(s)
      PROVE  OnlyOwnHandlers'
  BY <1>12
  DEF SeesClosed, Goto, reader_vars, client_vars, peer_vars, reg_vars, chan_vars, IInv,
     Inv, TypeOK, OnlyOwnHandlers
<1>13. ASSUME NEW s \in Subs, Unregister(s)
      PROVE  OnlyOwnHandlers'
  <2>1. PICK m \in regs[s] :
          /\ handlers' = [handlers EXCEPT ![m] = Without(@, s)]
          /\ regs' = [regs EXCEPT ![s] = @ \ {m}]
    BY <1>13 DEF Unregister
  <2>2. /\ pc[s] = "unregister" /\ UNCHANGED <<request, log, todo, since, queue, inHand, sent>>
        /\ pc' = [pc EXCEPT ![s] = IF Cardinality(regs[s]) > 1 THEN "unregister"
                                   ELSE IF Profile(s).blocking THEN "close" ELSE "done"]
    BY <1>13 DEF Unregister, Goto, reader_vars, client_vars, chan_vars, peer_vars
  <2>3. /\ regs'[s] = regs[s] \ {m} /\ pc'[s] \in {"unregister", "close", "done"}
        /\ \A q \in Subs : q # s => regs'[q] = regs[q] /\ pc'[q] = pc[q]
    BY <2>1, <2>2 DEF IInv, Inv, TypeOK
  <2>4. m \in Methods /\ handlers[m] \in Seq(Subs)
    BY DEF IInv, Inv, TypeOK
  <2>5. Cardinality(regs[s]) > 1 \/ regs[s] = {m}
    <3>1. IsFiniteSet(regs[s])
      <4>1. regs[s] \in SUBSET Wanted(s) /\ IsFiniteSet(Wanted(s))
        BY WantedCount DEF IInv, Inv, Registering
      <4>. QED BY <4>1, FS_Subset
    <3>2. Cardinality(regs[s]) \in Nat /\ Cardinality(regs[s]) # 0
      BY <3>1, FS_CardinalityType, FS_EmptySet
    <3>3. CASE Cardinality(regs[s]) = 1
      <4>1. PICK x : regs[s] = {x}
        BY <3>1, <3>3, FS_Singleton
      <4>. QED BY <4>1
    <3>. QED BY <3>2, <3>3
  <2>6. \A q \in Subs : pc'[q] \in {"idle", "close", "done"} => regs'[q] = {}
    <3>1. pc'[s] \in {"close", "done"} => regs[s] = {m}
      BY <2>2, <2>5 DEF IInv, Inv, TypeOK
    <3>. QED BY <2>3, <3>1 DEF IInv, OnlyOwnHandlers
  <2>7. /\ handlers'[m] = Without(handlers[m], s)
        /\ \A k \in Methods : k # m => handlers'[k] = handlers[k]
    BY <2>1, <2>4 DEF IInv, Inv, TypeOK
  <2>8. ASSUME NEW k \in Methods
        PROVE  /\ IsInjective(handlers'[k])
               /\ Range(handlers'[k]) = {q \in Subs : k \in regs'[q]}
    <3>1. IsInjective(handlers[k]) /\ Range(handlers[k]) = {q \in Subs : k \in regs[q]}
      BY DEF IInv, OnlyOwnHandlers
    <3>2. CASE k = m
      <4>1. s \in Range(handlers[m])
        BY <3>1, <3>2
      <4>2. /\ IsInjective(Without(handlers[m], s))
            /\ Range(Without(handlers[m], s)) = Range(handlers[m]) \ {s}
        BY <2>4, <3>1, <3>2, <4>1, WithoutFacts
      <4>3. {q \in Subs : m \in regs'[q]} = {q \in Subs : m \in regs[q]} \ {s}
        BY <2>3
      <4>. QED BY <2>7, <3>1, <3>2, <4>2, <4>3
    <3>3. CASE k # m
      <4>1. \A q \in Subs : k \in regs'[q] <=> k \in regs[q]
        BY <2>3, <3>3
      <4>. QED BY <2>7, <3>1, <3>3, <4>1
    <3>. QED BY <3>2, <3>3
  <2>. QED BY <2>6, <2>8 DEF OnlyOwnHandlers
<1>14. ASSUME NEW s \in Subs, CloseChannel(s)
      PROVE  OnlyOwnHandlers'
  BY <1>14
  DEF CloseChannel, Goto, reader_vars, client_vars, reg_vars, peer_vars, IInv, Inv,
     TypeOK, OnlyOwnHandlers
<1>15. ASSUME NEW s \in Subs, Sent(s)
      PROVE  OnlyOwnHandlers'
  BY <1>15
  DEF Sent, Goto, reader_vars, client_vars, reg_vars, chan_vars, IInv, Inv, TypeOK,
     OnlyOwnHandlers
<1>16. ASSUME NEW s \in Subs, PeerLeaves(s)
      PROVE  OnlyOwnHandlers'
  BY <1>16
  DEF PeerLeaves, reader_vars, client_vars, reg_vars, chan_vars, IInv, Inv, TypeOK,
     OnlyOwnHandlers
<1>17. CASE UNCHANGED vars
  BY <1>17 DEF vars, reader_vars, client_vars, peer_vars, reg_vars, chan_vars, IInv,
     Inv, TypeOK, OnlyOwnHandlers
<1>. QED BY <1>1, <1>2, <1>3, <1>4, <1>5, <1>6, <1>7, <1>8, <1>9, <1>10, <1>11, <1>12,
     <1>13, <1>14, <1>15, <1>16, <1>17 DEF Next, ReaderStep, StreamStep

\* Those that are called were registered before the event came.
LEMMA DispatchedNext ==
    ASSUME IInv, [Next]_vars
    PROVE  Dispatched'
<1>1. ASSUME ReadEvent
      PROVE  Dispatched'
  <2>1. PICK e \in Event : log' = Append(log, e) /\ todo' = handlers[e.method]
    BY <1>1 DEF ReadEvent, Snapshot
  <2>2. /\ todo = <<>> /\ log \in Seq(Event) /\ Len(log) \in Nat
        /\ UNCHANGED <<request, handlers, pc, regs, since, queue, inHand, sent>>
    BY <1>1 DEF ReadEvent, client_vars, reg_vars, chan_vars, peer_vars, IInv, Inv, TypeOK
  <2>3. /\ log' \in Seq(Event) /\ Len(log') = Len(log) + 1 /\ log'[Len(log) + 1] = e
        /\ \A i \in 1..Len(log) : log'[i] = log[i]
    BY <2>1, <2>2, AppendProperties
  <2>4. /\ IsInjective(todo') /\ Range(todo') = {s \in Subs : e.method \in regs[s]}
        /\ Last(log') = e
    BY <2>1, <2>2, <2>3 DEF Event, IInv, OnlyOwnHandlers, Last
  <2>5. \A q : Passed(q)' = Passed(q)
    BY <2>2, PassedSame
  <2>6. log' # <<>>
    BY <2>2, <2>3
  <2>7. ASSUME NEW s \in Range(todo')
        PROVE  /\ e.method \in Wanted(s) /\ Len(log') \notin Range(Passed(s))
               /\ e.method \in regs[s] /\ since[s][e.method] < Len(log')
    <3>1. s \in Subs /\ e.method \in regs[s] /\ e.method \in Wanted(s) /\ e.method \in Methods
      BY <2>4, <2>7 DEF IInv, Inv, Registering, Event
    <3>2. since[s][e.method] <= Len(log) /\ since[s][e.method] \in Nat
      BY <3>1 DEF IInv, Inv, TypeOK, Registering
    <3>3. \A i \in Range(Passed(s)) : i <= Len(log)
      BY <3>1 DEF IInv, Inv, Subscribed
    <3>. QED BY <2>2, <2>3, <3>1, <3>2, <3>3
  <2>. QED BY <2>2, <2>4, <2>5, <2>6, <2>7 DEF Dispatched, Serving, Wanted, Profile
<1>2. ASSUME CallHandler
      PROVE  Dispatched'
  <2>0. PICK s \in Subs, n \in 1..MaxEvents : s = Head(todo) /\ n = Len(log)
    BY <1>2, CallEffect DEF IInv
  <2>1. /\ s = Head(todo) /\ n = Len(log)
        /\ s \in Subs /\ s \in Range(todo) /\ n \in 1..MaxEvents /\ Last(log) = log[n]
        /\ n \notin Range(Passed(s)) /\ log[n] \in Event
        /\ UNCHANGED <<request, log, handlers, answer, clientDone, pc, regs, since, chClosed,
                       inHand, sent, cancelled>>
        /\ \/ UNCHANGED <<todo, rl, queue>>
           \/ /\ ~Forwards(s, log[n]) \/ (~HasRoom(s) /\ ~Blocks(s))
              /\ HandlerDone /\ UNCHANGED queue
           \/ /\ Forwards(s, log[n]) /\ HasRoom(s)
              /\ HandlerDone /\ queue' = [queue EXCEPT ![s] = Append(@, n)]
    BY <1>2, <2>0, CallEffect DEF IInv
  <2>2. todo # <<>>
    BY <1>2 DEF CallHandler, IInv, Inv, TypeOK
  <2>3. \A q \in Subs : \/ Passed(q)' = Passed(q)
                       \/ (q = s /\ Forwards(s, log[n]) /\ HandlerDone
                             /\ Passed(q)' = Append(Passed(q), n))
    <3>1. CASE UNCHANGED queue
      <4>1. \A q : Passed(q)' = Passed(q)
        BY <2>1, <3>1, PassedSame
      <4>. QED BY <4>1
    <3>2. CASE /\ Forwards(s, log[n]) /\ HandlerDone
               /\ queue' = [queue EXCEPT ![s] = Append(@, n)]
      <4>1. \A q \in Subs : Passed(q)' = IF q = s THEN Append(Passed(s), n) ELSE Passed(q)
        BY <2>1, <3>2, PassedOn DEF IInv
      <4>. QED BY <3>2, <4>1
    <3>. QED BY <2>1, <3>1, <3>2
  <2>4. Passed(s) \in Seq(1..MaxEvents) /\ Passed(s) \in Seq(Nat)
    BY <2>1, PassedTyped DEF IInv, Inv
  <2>5. UNCHANGED todo \/ Range(todo') = Range(todo) \ {s}
    BY <2>1, <2>2, DoneEffect DEF IInv
  <2>6. IsInjective(todo')
    BY <2>1, <2>2, DoneEffect DEF IInv, Inv, Dispatched
  <2>7. ASSUME NEW q \in Range(todo')
        PROVE  Passed(q)' = Passed(q) /\ q \in Range(todo)
    <3>1. q \in Range(todo) /\ q \in Subs /\ (HandlerDone => q # s)
      BY <2>1, <2>2, <2>5, <2>7, RangeOfSeq, DoneEffect DEF IInv, Inv, TypeOK
    <3>. QED BY <2>3, <3>1
  <2>. QED BY <2>1, <2>6, <2>7 DEF IInv, Inv, Dispatched, Serving, Wanted, Profile
<1>3. ASSUME ReadAnswer
      PROVE  Dispatched'
  <2>1. \A q : Passed(q)' = Passed(q)
    BY <1>3, PassedSame DEF ReadAnswer, client_vars, reg_vars, chan_vars, peer_vars
  <2>. QED BY <1>3, <2>1 DEF ReadAnswer, client_vars, reg_vars, chan_vars, peer_vars,
       IInv, Inv, TypeOK, Dispatched, Serving, Wanted, Profile
<1>4. ASSUME AnswerArrives
      PROVE  Dispatched'
  <2>1. \A q : Passed(q)' = Passed(q)
    BY <1>4, PassedSame DEF AnswerArrives, client_vars, reg_vars, chan_vars, peer_vars
  <2>. QED BY <1>4, <2>1 DEF AnswerArrives, client_vars, reg_vars, chan_vars, peer_vars,
       IInv, Inv, TypeOK, Dispatched, Serving, Wanted, Profile
<1>5. ASSUME StopReading
      PROVE  Dispatched'
  <2>1. \A q : Passed(q)' = Passed(q)
    BY <1>5, PassedSame DEF StopReading, client_vars, reg_vars, chan_vars, peer_vars
  <2>. QED BY <1>5, <2>1 DEF StopReading, client_vars, reg_vars, chan_vars, peer_vars,
       IInv, Inv, TypeOK, Dispatched, Serving, Wanted, Profile
<1>6. ASSUME ClientCloses
      PROVE  Dispatched'
  <2>1. \A q : Passed(q)' = Passed(q)
    BY <1>6, PassedSame DEF ClientCloses, reader_vars, reg_vars, chan_vars, peer_vars
  <2>. QED BY <1>6, <2>1 DEF ClientCloses, reader_vars, reg_vars, chan_vars, peer_vars,
       IInv, Inv, TypeOK, Dispatched, Serving, Wanted, Profile
<1>7. ASSUME NEW s \in Subs, Subscribe(s)
      PROVE  Dispatched'
  <2>1. \A q : Passed(q)' = Passed(q)
    BY <1>7, PassedSame DEF Subscribe, Goto, reader_vars, client_vars, peer_vars,
       reg_vars, chan_vars
  <2>. QED BY <1>7, <2>1 DEF Subscribe, Goto, reader_vars, client_vars, peer_vars,
       reg_vars, chan_vars, IInv, Inv, TypeOK, Dispatched, Serving, Wanted, Profile
<1>8. ASSUME NEW s \in Subs, Register(s)
      PROVE  Dispatched'
  <2> DEFINE m == Cardinality(regs[s]) + 1
  <2>1. /\ m \in Methods /\ m \in Wanted(s) /\ m \notin regs[s]
        /\ regs[s] \cup {m} \subseteq Wanted(s)
        /\ m # Cardinality(Wanted(s)) =>
             \E k \in 0..(Cardinality(Wanted(s)) - 1) : regs[s] \cup {m} = 1..k
    BY <1>8, NextMethod DEF Register, Goto, IInv, Inv
  <2>2. /\ handlers' = [handlers EXCEPT ![m] = Append(@, s)]
        /\ regs' = [regs EXCEPT ![s] = @ \cup {m}]
        /\ since' = [since EXCEPT ![s][m] = Len(log)]
        /\ pc[s] = "register"
        /\ pc' = [pc EXCEPT ![s] = IF m = Cardinality(Wanted(s)) THEN "select" ELSE "register"]
        /\ UNCHANGED <<request, log, todo, queue, inHand, sent>>
    BY <1>8 DEF Register, Goto, reader_vars, client_vars, chan_vars, peer_vars
  <2> HIDE DEF m
  <2>3. pc'[s] \in {"select", "register"} /\ (pc'[s] = "register" => m # Cardinality(Wanted(s)))
    BY <2>2 DEF IInv, Inv, TypeOK
  <2>4. /\ regs'[s] = regs[s] \cup {m} /\ \A q \in Subs : q # s => regs'[q] = regs[q]
        /\ since'[s][m] = Len(log)
        /\ \A q \in Subs, k \in Methods : q # s \/ k # m => since'[q][k] = since[q][k]
        /\ \A q \in Subs : q # s => since'[q] = since[q] /\ pc'[q] = pc[q]
    BY <2>1, <2>2 DEF IInv, Inv, TypeOK
  <2>5. \A q : Passed(q)' = Passed(q)
    BY <2>2, PassedSame
  <2>6. ASSUME NEW q \in Range(todo), Serving(q)'
        PROVE  LET n == Last(log).method IN n \in regs'[q] /\ since'[q][n] < Len(log)
    <3>1. q \in Subs
      BY RangeOfSeq DEF IInv, Inv, TypeOK
    <3>2. Serving(q)
      BY <2>2, <2>4, <2>6, <3>1 DEF Serving
    <3>3. Last(log).method \in regs[q] /\ since[q][Last(log).method] < Len(log)
      BY <3>2 DEF IInv, Inv, Dispatched
    <3>4. Last(log).method \in Methods /\ (q = s => Last(log).method # m)
      BY <2>1, <3>1, <3>3 DEF IInv, Inv, TypeOK
    <3>5. since'[q][Last(log).method] = since[q][Last(log).method]
      BY <2>4, <3>1, <3>4
    <3>6. regs[q] \subseteq regs'[q]
      BY <2>4, <3>1
    <3>. QED BY <3>3, <3>5, <3>6
  <2>. QED BY <2>2, <2>5, <2>6 DEF IInv, Inv, Dispatched, Wanted, Profile
<1>9. ASSUME NEW s \in Subs, Receive(s)
      PROVE  Dispatched'
  <2>1. \A q \in Subs : Passed(q)' = Passed(q)
    BY <1>9, ReceiveEffect DEF IInv
  <2>2. Range(todo) \subseteq Subs
    BY RangeOfSeq DEF IInv, Inv, TypeOK
  <2>. QED BY <1>9, <2>1, <2>2 DEF Receive, Goto, reader_vars, client_vars, reg_vars,
       IInv, Inv, TypeOK, Dispatched, Serving, Wanted, Profile
<1>10. ASSUME NEW s \in Subs, SendFails(s)
      PROVE  Dispatched'
  <2>1. \A q \in Subs : /\ Range(Passed(q)') \subseteq Range(Passed(q)) /\ Increasing(Passed(q)')
                        /\ q # s => Passed(q)' = Passed(q)
    BY <1>10, SendFailsEffect DEF IInv
  <2>2. Range(todo) \subseteq Subs
    BY RangeOfSeq DEF IInv, Inv, TypeOK
  <2>. QED BY <1>10, <2>1, <2>2 DEF SendFails, Goto, reader_vars, client_vars, reg_vars,
       chan_vars, IInv, Inv, TypeOK, Dispatched, Serving, Wanted, Profile
<1>11. ASSUME NEW s \in Subs, SeesCancel(s)
      PROVE  Dispatched'
  <2>1. \A q : Passed(q)' = Passed(q)
    BY <1>11, PassedSame DEF SeesCancel, Goto, reader_vars, client_vars, peer_vars,
       reg_vars, chan_vars
  <2>. QED BY <1>11, <2>1 DEF SeesCancel, Goto, reader_vars, client_vars, peer_vars,
       reg_vars, chan_vars, IInv, Inv, TypeOK, Dispatched, Serving, Wanted, Profile
<1>12. ASSUME NEW s \in Subs, SeesClosed(s)
      PROVE  Dispatched'
  <2>1. \A q : Passed(q)' = Passed(q)
    BY <1>12, PassedSame DEF SeesClosed, Goto, reader_vars, client_vars, peer_vars,
       reg_vars, chan_vars
  <2>. QED BY <1>12, <2>1 DEF SeesClosed, Goto, reader_vars, client_vars, peer_vars,
       reg_vars, chan_vars, IInv, Inv, TypeOK, Dispatched, Serving, Wanted, Profile
<1>13. ASSUME NEW s \in Subs, Unregister(s)
      PROVE  Dispatched'
  <2>1. PICK m \in regs[s] :
          /\ handlers' = [handlers EXCEPT ![m] = Without(@, s)]
          /\ regs' = [regs EXCEPT ![s] = @ \ {m}]
    BY <1>13 DEF Unregister
  <2>2. /\ pc[s] = "unregister" /\ UNCHANGED <<request, log, todo, since, queue, inHand, sent>>
        /\ pc' = [pc EXCEPT ![s] = IF Cardinality(regs[s]) > 1 THEN "unregister"
                                   ELSE IF Profile(s).blocking THEN "close" ELSE "done"]
    BY <1>13 DEF Unregister, Goto, reader_vars, client_vars, chan_vars, peer_vars
  <2>3. /\ regs'[s] = regs[s] \ {m} /\ pc'[s] \in {"unregister", "close", "done"}
        /\ \A q \in Subs : q # s => regs'[q] = regs[q] /\ pc'[q] = pc[q]
    BY <2>1, <2>2 DEF IInv, Inv, TypeOK
  <2>4. \A q : Passed(q)' = Passed(q)
    BY <2>2, PassedSame
  <2>5. \A q \in Subs : Serving(q)' => Serving(q) /\ regs'[q] = regs[q]
    BY <2>2, <2>3 DEF Serving
  <2>6. Range(todo) \subseteq Subs
    BY RangeOfSeq DEF IInv, Inv, TypeOK
  <2>. QED BY <2>2, <2>4, <2>5, <2>6 DEF IInv, Inv, Dispatched, Wanted, Profile
<1>14. ASSUME NEW s \in Subs, CloseChannel(s)
      PROVE  Dispatched'
  <2>1. \A q : Passed(q)' = Passed(q)
    BY <1>14, PassedSame DEF CloseChannel, Goto, reader_vars, client_vars, reg_vars,
       peer_vars
  <2>. QED BY <1>14, <2>1 DEF CloseChannel, Goto, reader_vars, client_vars, reg_vars,
       peer_vars, IInv, Inv, TypeOK, Dispatched, Serving, Wanted, Profile
<1>15. ASSUME NEW s \in Subs, Sent(s)
      PROVE  Dispatched'
  <2>1. \A q \in Subs : Passed(q)' = Passed(q)
    BY <1>15, SentEffect DEF IInv
  <2>2. Range(todo) \subseteq Subs
    BY RangeOfSeq DEF IInv, Inv, TypeOK
  <2>. QED BY <1>15, <2>1, <2>2 DEF Sent, Goto, reader_vars, client_vars, reg_vars,
       chan_vars, IInv, Inv, TypeOK, Dispatched, Serving, Wanted, Profile
<1>16. ASSUME NEW s \in Subs, PeerLeaves(s)
      PROVE  Dispatched'
  <2>1. \A q : Passed(q)' = Passed(q)
    BY <1>16, PassedSame DEF PeerLeaves, reader_vars, client_vars, reg_vars, chan_vars
  <2>. QED BY <1>16, <2>1 DEF PeerLeaves, reader_vars, client_vars, reg_vars, chan_vars,
       IInv, Inv, TypeOK, Dispatched, Serving, Wanted, Profile
<1>17. CASE UNCHANGED vars
  <2>1. \A q : Passed(q)' = Passed(q)
    BY <1>17, PassedSame DEF vars, reader_vars, client_vars, peer_vars, reg_vars,
       chan_vars
  <2>. QED BY <1>17, <2>1 DEF vars, reader_vars, client_vars, peer_vars, reg_vars,
       chan_vars, IInv, Inv, Dispatched, Serving, Wanted, Profile
<1>. QED BY <1>1, <1>2, <1>3, <1>4, <1>5, <1>6, <1>7, <1>8, <1>9, <1>10, <1>11, <1>12,
     <1>13, <1>14, <1>15, <1>16, <1>17 DEF Next, ReaderStep, StreamStep

\* So nothing is passed on but what was asked for,
LEMMA SubscribedNext ==
    ASSUME IInv, [Next]_vars
    PROVE  Subscribed'
<1>1. ASSUME ReadEvent
      PROVE  Subscribed'
  <2>1. PICK e \in Event : log' = Append(log, e) /\ todo' = handlers[e.method]
    BY <1>1 DEF ReadEvent, Snapshot
  <2>2. /\ todo = <<>> /\ log \in Seq(Event) /\ Len(log) \in Nat
        /\ UNCHANGED <<request, handlers, pc, regs, since, queue, inHand, sent>>
    BY <1>1 DEF ReadEvent, client_vars, reg_vars, chan_vars, peer_vars, IInv, Inv, TypeOK
  <2>3. /\ log' \in Seq(Event) /\ Len(log') = Len(log) + 1 /\ log'[Len(log) + 1] = e
        /\ \A i \in 1..Len(log) : log'[i] = log[i]
    BY <2>1, <2>2, AppendProperties
  <2>4. /\ IsInjective(todo') /\ Range(todo') = {s \in Subs : e.method \in regs[s]}
        /\ Last(log') = e
    BY <2>1, <2>2, <2>3 DEF Event, IInv, OnlyOwnHandlers, Last
  <2>5. \A q : Passed(q)' = Passed(q)
    BY <2>2, PassedSame
  <2>6. ASSUME NEW s \in Subs, NEW i \in Range(Passed(s))
        PROVE  i \in 1..Len(log) /\ i <= Len(log) + 1 /\ log'[i] = log[i]
    <3>1. i \in 1..MaxEvents /\ i <= Len(log)
      BY PassedTyped DEF IInv, Inv, Subscribed
    <3>. QED BY <2>2, <2>3, <3>1
  <2>. QED BY <2>2, <2>3, <2>5, <2>6 DEF IInv, Inv, Subscribed, Wanted, Profile
<1>2. ASSUME CallHandler
      PROVE  Subscribed'
  <2>0. PICK s \in Subs, n \in 1..MaxEvents : s = Head(todo) /\ n = Len(log)
    BY <1>2, CallEffect DEF IInv
  <2>1. /\ s = Head(todo) /\ n = Len(log)
        /\ s \in Subs /\ s \in Range(todo) /\ n \in 1..MaxEvents /\ Last(log) = log[n]
        /\ n \notin Range(Passed(s)) /\ log[n] \in Event
        /\ UNCHANGED <<request, log, handlers, answer, clientDone, pc, regs, since, chClosed,
                       inHand, sent, cancelled>>
        /\ \/ UNCHANGED <<todo, rl, queue>>
           \/ /\ ~Forwards(s, log[n]) \/ (~HasRoom(s) /\ ~Blocks(s))
              /\ HandlerDone /\ UNCHANGED queue
           \/ /\ Forwards(s, log[n]) /\ HasRoom(s)
              /\ HandlerDone /\ queue' = [queue EXCEPT ![s] = Append(@, n)]
    BY <1>2, <2>0, CallEffect DEF IInv
  <2>2. todo # <<>>
    BY <1>2 DEF CallHandler, IInv, Inv, TypeOK
  <2>3. \A q \in Subs : \/ Passed(q)' = Passed(q)
                       \/ (q = s /\ Forwards(s, log[n]) /\ HandlerDone
                             /\ Passed(q)' = Append(Passed(q), n))
    <3>1. CASE UNCHANGED queue
      <4>1. \A q : Passed(q)' = Passed(q)
        BY <2>1, <3>1, PassedSame
      <4>. QED BY <4>1
    <3>2. CASE /\ Forwards(s, log[n]) /\ HandlerDone
               /\ queue' = [queue EXCEPT ![s] = Append(@, n)]
      <4>1. \A q \in Subs : Passed(q)' = IF q = s THEN Append(Passed(s), n) ELSE Passed(q)
        BY <2>1, <3>2, PassedOn DEF IInv
      <4>. QED BY <3>2, <4>1
    <3>. QED BY <2>1, <3>1, <3>2
  <2>4. Passed(s) \in Seq(1..MaxEvents) /\ Passed(s) \in Seq(Nat)
    BY <2>1, PassedTyped DEF IInv, Inv
  <2>5. UNCHANGED todo \/ Range(todo') = Range(todo) \ {s}
    BY <2>1, <2>2, DoneEffect DEF IInv
  <2>6. Range(Append(Passed(s), n)) = Range(Passed(s)) \cup {n}
    BY <2>1, <2>4, AppendFacts
  <2>7. log[n].method \in Wanted(s) /\ n <= Len(log)
    BY <2>1 DEF IInv, Inv, Dispatched
  <2>8. Forwards(s, log[n]) =>
          (Profile(s).bySession => request[s].session \in {NoSession, log[n].session})
    BY DEF Forwards
  <2>9. ASSUME NEW q \in Subs, NEW i \in Range(Passed(q)')
        PROVE  /\ i <= Len(log) /\ log[i].method \in Wanted(q)
               /\ Profile(q).bySession => request[q].session \in {NoSession, log[i].session}
    <3>1. CASE i \in Range(Passed(q))
      BY <3>1 DEF IInv, Inv, Subscribed
    <3>2. CASE i \notin Range(Passed(q))
      <4>1. q = s /\ Forwards(s, log[n]) /\ Passed(q)' = Append(Passed(q), n)
        BY <2>3, <2>9, <3>2
      <4>2. i \in Range(Append(Passed(s), n)) /\ i \notin Range(Passed(s))
        BY <2>9, <3>2, <4>1
      <4>3. i = n
        BY <2>6, <4>2
      <4>. QED BY <2>7, <2>8, <4>1, <4>3
    <3>. QED BY <3>1, <3>2
  <2>. QED BY <2>1, <2>9 DEF Subscribed, Wanted, Profile
<1>3. ASSUME ReadAnswer
      PROVE  Subscribed'
  <2>1. \A q : Passed(q)' = Passed(q)
    BY <1>3, PassedSame DEF ReadAnswer, client_vars, reg_vars, chan_vars, peer_vars
  <2>. QED BY <1>3, <2>1 DEF ReadAnswer, client_vars, reg_vars, chan_vars, peer_vars,
       IInv, Inv, Subscribed, Wanted, Profile
<1>4. ASSUME AnswerArrives
      PROVE  Subscribed'
  <2>1. \A q : Passed(q)' = Passed(q)
    BY <1>4, PassedSame DEF AnswerArrives, client_vars, reg_vars, chan_vars, peer_vars
  <2>. QED BY <1>4, <2>1 DEF AnswerArrives, client_vars, reg_vars, chan_vars, peer_vars,
       IInv, Inv, Subscribed, Wanted, Profile
<1>5. ASSUME StopReading
      PROVE  Subscribed'
  <2>1. \A q : Passed(q)' = Passed(q)
    BY <1>5, PassedSame DEF StopReading, client_vars, reg_vars, chan_vars, peer_vars
  <2>. QED BY <1>5, <2>1 DEF StopReading, client_vars, reg_vars, chan_vars, peer_vars,
       IInv, Inv, Subscribed, Wanted, Profile
<1>6. ASSUME ClientCloses
      PROVE  Subscribed'
  <2>1. \A q : Passed(q)' = Passed(q)
    BY <1>6, PassedSame DEF ClientCloses, reader_vars, reg_vars, chan_vars, peer_vars
  <2>. QED BY <1>6, <2>1 DEF ClientCloses, reader_vars, reg_vars, chan_vars, peer_vars,
       IInv, Inv, Subscribed, Wanted, Profile
<1>7. ASSUME NEW s \in Subs, Subscribe(s)
      PROVE  Subscribed'
  <2>1. \A q : Passed(q)' = Passed(q)
    BY <1>7, PassedSame DEF Subscribe, Goto, reader_vars, client_vars, peer_vars,
       reg_vars, chan_vars
  <2>. QED BY <1>7, <2>1 DEF Subscribe, Goto, reader_vars, client_vars, peer_vars,
       reg_vars, chan_vars, IInv, Inv, Subscribed, Wanted, Profile
<1>8. ASSUME NEW s \in Subs, Register(s)
      PROVE  Subscribed'
  <2>1. \A q : Passed(q)' = Passed(q)
    BY <1>8, PassedSame DEF Register, Goto, reader_vars, client_vars, chan_vars, peer_vars
  <2>. QED BY <1>8, <2>1 DEF Register, Goto, reader_vars, client_vars, chan_vars,
       peer_vars, IInv, Inv, Subscribed, Wanted, Profile
<1>9. ASSUME NEW s \in Subs, Receive(s)
      PROVE  Subscribed'
  <2>1. \A q \in Subs : Passed(q)' = Passed(q)
    BY <1>9, ReceiveEffect DEF IInv
  <2>. QED BY <1>9, <2>1 DEF Receive, Goto, reader_vars, client_vars, reg_vars, IInv,
       Inv, Subscribed, Wanted, Profile
<1>10. ASSUME NEW s \in Subs, SendFails(s)
      PROVE  Subscribed'
  <2>1. \A q \in Subs : /\ Range(Passed(q)') \subseteq Range(Passed(q)) /\ Increasing(Passed(q)')
                        /\ q # s => Passed(q)' = Passed(q)
    BY <1>10, SendFailsEffect DEF IInv
  <2>. QED BY <1>10, <2>1 DEF SendFails, Goto, reader_vars, client_vars, reg_vars,
       chan_vars, IInv, Inv, Subscribed, Wanted, Profile
<1>11. ASSUME NEW s \in Subs, SeesCancel(s)
      PROVE  Subscribed'
  <2>1. \A q : Passed(q)' = Passed(q)
    BY <1>11, PassedSame DEF SeesCancel, Goto, reader_vars, client_vars, peer_vars,
       reg_vars, chan_vars
  <2>. QED BY <1>11, <2>1 DEF SeesCancel, Goto, reader_vars, client_vars, peer_vars,
       reg_vars, chan_vars, IInv, Inv, Subscribed, Wanted, Profile
<1>12. ASSUME NEW s \in Subs, SeesClosed(s)
      PROVE  Subscribed'
  <2>1. \A q : Passed(q)' = Passed(q)
    BY <1>12, PassedSame DEF SeesClosed, Goto, reader_vars, client_vars, peer_vars,
       reg_vars, chan_vars
  <2>. QED BY <1>12, <2>1 DEF SeesClosed, Goto, reader_vars, client_vars, peer_vars,
       reg_vars, chan_vars, IInv, Inv, Subscribed, Wanted, Profile
<1>13. ASSUME NEW s \in Subs, Unregister(s)
      PROVE  Subscribed'
  <2>1. \A q : Passed(q)' = Passed(q)
    BY <1>13, PassedSame DEF Unregister, Goto, reader_vars, client_vars, chan_vars,
       peer_vars
  <2>. QED BY <1>13, <2>1 DEF Unregister, Goto, reader_vars, client_vars, chan_vars,
       peer_vars, IInv, Inv, Subscribed, Wanted, Profile
<1>14. ASSUME NEW s \in Subs, CloseChannel(s)
      PROVE  Subscribed'
  <2>1. \A q : Passed(q)' = Passed(q)
    BY <1>14, PassedSame DEF CloseChannel, Goto, reader_vars, client_vars, reg_vars,
       peer_vars
  <2>. QED BY <1>14, <2>1 DEF CloseChannel, Goto, reader_vars, client_vars, reg_vars,
       peer_vars, IInv, Inv, Subscribed, Wanted, Profile
<1>15. ASSUME NEW s \in Subs, Sent(s)
      PROVE  Subscribed'
  <2>1. \A q \in Subs : Passed(q)' = Passed(q)
    BY <1>15, SentEffect DEF IInv
  <2>. QED BY <1>15, <2>1 DEF Sent, Goto, reader_vars, client_vars, reg_vars, chan_vars,
       IInv, Inv, Subscribed, Wanted, Profile
<1>16. ASSUME NEW s \in Subs, PeerLeaves(s)
      PROVE  Subscribed'
  <2>1. \A q : Passed(q)' = Passed(q)
    BY <1>16, PassedSame DEF PeerLeaves, reader_vars, client_vars, reg_vars, chan_vars
  <2>. QED BY <1>16, <2>1 DEF PeerLeaves, reader_vars, client_vars, reg_vars, chan_vars,
       IInv, Inv, Subscribed, Wanted, Profile
<1>17. CASE UNCHANGED vars
  <2>1. \A q : Passed(q)' = Passed(q)
    BY <1>17, PassedSame DEF vars, reader_vars, client_vars, peer_vars, reg_vars,
       chan_vars
  <2>. QED BY <1>17, <2>1 DEF vars, reader_vars, client_vars, peer_vars, reg_vars,
       chan_vars, IInv, Inv, Subscribed, Wanted, Profile
<1>. QED BY <1>1, <1>2, <1>3, <1>4, <1>5, <1>6, <1>7, <1>8, <1>9, <1>10, <1>11, <1>12,
     <1>13, <1>14, <1>15, <1>16, <1>17 DEF Next, ReaderStep, StreamStep

\* the newest event comes last,
LEMMA InOrderNext ==
    ASSUME IInv, [Next]_vars
    PROVE  InOrder'
<1>1. ASSUME ReadEvent
      PROVE  InOrder'
  <2>1. \A q : Passed(q)' = Passed(q)
    BY <1>1, PassedSame DEF ReadEvent, client_vars, reg_vars, chan_vars, peer_vars
  <2>. QED BY <2>1 DEF IInv, InOrder
<1>2. ASSUME CallHandler
      PROVE  InOrder'
  <2>0. PICK s \in Subs, n \in 1..MaxEvents : s = Head(todo) /\ n = Len(log)
    BY <1>2, CallEffect DEF IInv
  <2>1. /\ s = Head(todo) /\ n = Len(log)
        /\ s \in Subs /\ s \in Range(todo) /\ n \in 1..MaxEvents /\ Last(log) = log[n]
        /\ n \notin Range(Passed(s)) /\ log[n] \in Event
        /\ UNCHANGED <<request, log, handlers, answer, clientDone, pc, regs, since, chClosed,
                       inHand, sent, cancelled>>
        /\ \/ UNCHANGED <<todo, rl, queue>>
           \/ /\ ~Forwards(s, log[n]) \/ (~HasRoom(s) /\ ~Blocks(s))
              /\ HandlerDone /\ UNCHANGED queue
           \/ /\ Forwards(s, log[n]) /\ HasRoom(s)
              /\ HandlerDone /\ queue' = [queue EXCEPT ![s] = Append(@, n)]
    BY <1>2, <2>0, CallEffect DEF IInv
  <2>2. todo # <<>>
    BY <1>2 DEF CallHandler, IInv, Inv, TypeOK
  <2>3. \A q \in Subs : \/ Passed(q)' = Passed(q)
                       \/ (q = s /\ Forwards(s, log[n]) /\ HandlerDone
                             /\ Passed(q)' = Append(Passed(q), n))
    <3>1. CASE UNCHANGED queue
      <4>1. \A q : Passed(q)' = Passed(q)
        BY <2>1, <3>1, PassedSame
      <4>. QED BY <4>1
    <3>2. CASE /\ Forwards(s, log[n]) /\ HandlerDone
               /\ queue' = [queue EXCEPT ![s] = Append(@, n)]
      <4>1. \A q \in Subs : Passed(q)' = IF q = s THEN Append(Passed(s), n) ELSE Passed(q)
        BY <2>1, <3>2, PassedOn DEF IInv
      <4>. QED BY <3>2, <4>1
    <3>. QED BY <2>1, <3>1, <3>2
  <2>4. Passed(s) \in Seq(1..MaxEvents) /\ Passed(s) \in Seq(Nat)
    BY <2>1, PassedTyped DEF IInv, Inv
  <2>5. UNCHANGED todo \/ Range(todo') = Range(todo) \ {s}
    BY <2>1, <2>2, DoneEffect DEF IInv
  <2>6. \A i \in Range(Passed(s)) : i < n
    <3>1. \A i \in Range(Passed(s)) : i \in 1..MaxEvents /\ i <= n /\ i # n
      BY <2>1, <2>4, RangeOfSeq DEF IInv, Inv, Subscribed
    <3>. QED BY <2>1, <3>1
  <2>7. Increasing(Append(Passed(s), n))
    <3>1. Increasing(Passed(s)) /\ n \in Nat
      BY <2>1 DEF IInv, InOrder
    <3>. QED BY <2>4, <2>6, <3>1, AppendFacts
  <2>. QED BY <2>3, <2>7 DEF IInv, InOrder
<1>3. ASSUME ReadAnswer
      PROVE  InOrder'
  <2>1. \A q : Passed(q)' = Passed(q)
    BY <1>3, PassedSame DEF ReadAnswer, client_vars, reg_vars, chan_vars, peer_vars
  <2>. QED BY <2>1 DEF IInv, InOrder
<1>4. ASSUME AnswerArrives
      PROVE  InOrder'
  <2>1. \A q : Passed(q)' = Passed(q)
    BY <1>4, PassedSame DEF AnswerArrives, client_vars, reg_vars, chan_vars, peer_vars
  <2>. QED BY <2>1 DEF IInv, InOrder
<1>5. ASSUME StopReading
      PROVE  InOrder'
  <2>1. \A q : Passed(q)' = Passed(q)
    BY <1>5, PassedSame DEF StopReading, client_vars, reg_vars, chan_vars, peer_vars
  <2>. QED BY <2>1 DEF IInv, InOrder
<1>6. ASSUME ClientCloses
      PROVE  InOrder'
  <2>1. \A q : Passed(q)' = Passed(q)
    BY <1>6, PassedSame DEF ClientCloses, reader_vars, reg_vars, chan_vars, peer_vars
  <2>. QED BY <2>1 DEF IInv, InOrder
<1>7. ASSUME NEW s \in Subs, Subscribe(s)
      PROVE  InOrder'
  <2>1. \A q : Passed(q)' = Passed(q)
    BY <1>7, PassedSame DEF Subscribe, Goto, reader_vars, client_vars, peer_vars,
       reg_vars, chan_vars
  <2>. QED BY <2>1 DEF IInv, InOrder
<1>8. ASSUME NEW s \in Subs, Register(s)
      PROVE  InOrder'
  <2>1. \A q : Passed(q)' = Passed(q)
    BY <1>8, PassedSame DEF Register, Goto, reader_vars, client_vars, chan_vars, peer_vars
  <2>. QED BY <2>1 DEF IInv, InOrder
<1>9. ASSUME NEW s \in Subs, Receive(s)
      PROVE  InOrder'
  <2>1. \A q \in Subs : Passed(q)' = Passed(q)
    BY <1>9, ReceiveEffect DEF IInv
  <2>. QED BY <2>1 DEF IInv, InOrder
<1>10. ASSUME NEW s \in Subs, SendFails(s)
      PROVE  InOrder'
  <2>1. \A q \in Subs : /\ Range(Passed(q)') \subseteq Range(Passed(q)) /\ Increasing(Passed(q)')
                        /\ q # s => Passed(q)' = Passed(q)
    BY <1>10, SendFailsEffect DEF IInv
  <2>. QED BY <2>1 DEF InOrder
<1>11. ASSUME NEW s \in Subs, SeesCancel(s)
      PROVE  InOrder'
  <2>1. \A q : Passed(q)' = Passed(q)
    BY <1>11, PassedSame DEF SeesCancel, Goto, reader_vars, client_vars, peer_vars,
       reg_vars, chan_vars
  <2>. QED BY <2>1 DEF IInv, InOrder
<1>12. ASSUME NEW s \in Subs, SeesClosed(s)
      PROVE  InOrder'
  <2>1. \A q : Passed(q)' = Passed(q)
    BY <1>12, PassedSame DEF SeesClosed, Goto, reader_vars, client_vars, peer_vars,
       reg_vars, chan_vars
  <2>. QED BY <2>1 DEF IInv, InOrder
<1>13. ASSUME NEW s \in Subs, Unregister(s)
      PROVE  InOrder'
  <2>1. \A q : Passed(q)' = Passed(q)
    BY <1>13, PassedSame DEF Unregister, Goto, reader_vars, client_vars, chan_vars,
       peer_vars
  <2>. QED BY <2>1 DEF IInv, InOrder
<1>14. ASSUME NEW s \in Subs, CloseChannel(s)
      PROVE  InOrder'
  <2>1. \A q : Passed(q)' = Passed(q)
    BY <1>14, PassedSame DEF CloseChannel, Goto, reader_vars, client_vars, reg_vars,
       peer_vars
  <2>. QED BY <2>1 DEF IInv, InOrder
<1>15. ASSUME NEW s \in Subs, Sent(s)
      PROVE  InOrder'
  <2>1. \A q \in Subs : Passed(q)' = Passed(q)
    BY <1>15, SentEffect DEF IInv
  <2>. QED BY <2>1 DEF IInv, InOrder
<1>16. ASSUME NEW s \in Subs, PeerLeaves(s)
      PROVE  InOrder'
  <2>1. \A q : Passed(q)' = Passed(q)
    BY <1>16, PassedSame DEF PeerLeaves, reader_vars, client_vars, reg_vars, chan_vars
  <2>. QED BY <2>1 DEF IInv, InOrder
<1>17. CASE UNCHANGED vars
  <2>1. \A q : Passed(q)' = Passed(q)
    BY <1>17, PassedSame DEF vars, reader_vars, client_vars, peer_vars, reg_vars,
       chan_vars
  <2>. QED BY <2>1 DEF IInv, InOrder
<1>. QED BY <1>1, <1>2, <1>3, <1>4, <1>5, <1>6, <1>7, <1>8, <1>9, <1>10, <1>11, <1>12,
     <1>13, <1>14, <1>15, <1>16, <1>17 DEF Next, ReaderStep, StreamStep

\* and what is not passed on, while the stream is served, found its channel full.
LEMMA ServedNext ==
    ASSUME IInv, [Next]_vars
    PROVE  AllServed'
<1>1. ASSUME ReadEvent
      PROVE  AllServed'
  <2>1. PICK e \in Event : log' = Append(log, e) /\ todo' = handlers[e.method]
    BY <1>1 DEF ReadEvent, Snapshot
  <2>2. /\ todo = <<>> /\ log \in Seq(Event) /\ Len(log) \in Nat
        /\ UNCHANGED <<request, handlers, pc, regs, since, queue, inHand, sent>>
    BY <1>1 DEF ReadEvent, client_vars, reg_vars, chan_vars, peer_vars, IInv, Inv, TypeOK
  <2>3. /\ log' \in Seq(Event) /\ Len(log') = Len(log) + 1 /\ log'[Len(log) + 1] = e
        /\ \A i \in 1..Len(log) : log'[i] = log[i]
    BY <2>1, <2>2, AppendProperties
  <2>4. /\ IsInjective(todo') /\ Range(todo') = {s \in Subs : e.method \in regs[s]}
        /\ Last(log') = e
    BY <2>1, <2>2, <2>3 DEF Event, IInv, OnlyOwnHandlers, Last
  <2>5. \A q : Passed(q)' = Passed(q)
    BY <2>2, PassedSame
  <2>6. Range(todo) = {}
    BY <2>2 DEF Range
  <2>7. ASSUME NEW q \in Subs
        PROVE  Due(q)' = Due(q)
    <3>1. \A i \in 1..Len(log) : i \in 1..(Len(log) + 1) /\ i # Len(log) + 1
      BY <2>2
    <3>2. \A i \in 1..(Len(log) + 1) : i = Len(log) + 1 \/ i \in 1..Len(log)
      BY <2>2
    <3>3. Due(q)' = {i \in 1..(Len(log) + 1) :
                        /\ log'[i].method \in regs[q] /\ since[q][log'[i].method] < i
                        /\ Forwards(q, log'[i])
                        /\ ~(i = Len(log) + 1 /\ q \in Range(todo'))}
      BY <2>2, <2>3 DEF Due, Forwards, Profile
    <3>4. Due(q) = {i \in 1..Len(log) :
                       /\ log[i].method \in regs[q] /\ since[q][log[i].method] < i
                       /\ Forwards(q, log[i])}
      BY <2>6 DEF Due
    <3>5. ~(Len(log) + 1 \in Due(q)')
      BY <2>3, <2>4, <3>3
    <3>6. \A i \in 1..Len(log) : i \in Due(q)' <=> i \in Due(q)
      BY <2>3, <3>1, <3>3, <3>4
    <3>7. Due(q)' \subseteq 1..(Len(log) + 1) /\ Due(q) \subseteq 1..Len(log)
      BY <3>3, <3>4
    <3>. QED BY <3>2, <3>5, <3>6, <3>7
  <2>. QED BY <2>2, <2>5, <2>7, ServedKept DEF IInv, AllServed, Serving
<1>2. ASSUME CallHandler
      PROVE  AllServed'
  <2>0. PICK s \in Subs, n \in 1..MaxEvents : s = Head(todo) /\ n = Len(log)
    BY <1>2, CallEffect DEF IInv
  <2>1. /\ s = Head(todo) /\ n = Len(log)
        /\ s \in Subs /\ s \in Range(todo) /\ n \in 1..MaxEvents /\ Last(log) = log[n]
        /\ n \notin Range(Passed(s)) /\ log[n] \in Event
        /\ UNCHANGED <<request, log, handlers, answer, clientDone, pc, regs, since, chClosed,
                       inHand, sent, cancelled>>
        /\ \/ UNCHANGED <<todo, rl, queue>>
           \/ /\ ~Forwards(s, log[n]) \/ (~HasRoom(s) /\ ~Blocks(s))
              /\ HandlerDone /\ UNCHANGED queue
           \/ /\ Forwards(s, log[n]) /\ HasRoom(s)
              /\ HandlerDone /\ queue' = [queue EXCEPT ![s] = Append(@, n)]
    BY <1>2, <2>0, CallEffect DEF IInv
  <2>2. todo # <<>>
    BY <1>2 DEF CallHandler, IInv, Inv, TypeOK
  <2>3. \A q \in Subs : \/ Passed(q)' = Passed(q)
                       \/ (q = s /\ Forwards(s, log[n]) /\ HandlerDone
                             /\ Passed(q)' = Append(Passed(q), n))
    <3>1. CASE UNCHANGED queue
      <4>1. \A q : Passed(q)' = Passed(q)
        BY <2>1, <3>1, PassedSame
      <4>. QED BY <4>1
    <3>2. CASE /\ Forwards(s, log[n]) /\ HandlerDone
               /\ queue' = [queue EXCEPT ![s] = Append(@, n)]
      <4>1. \A q \in Subs : Passed(q)' = IF q = s THEN Append(Passed(s), n) ELSE Passed(q)
        BY <2>1, <3>2, PassedOn DEF IInv
      <4>. QED BY <3>2, <4>1
    <3>. QED BY <2>1, <3>1, <3>2
  <2>4. Passed(s) \in Seq(1..MaxEvents) /\ Passed(s) \in Seq(Nat)
    BY <2>1, PassedTyped DEF IInv, Inv
  <2>5. UNCHANGED todo \/ Range(todo') = Range(todo) \ {s}
    BY <2>1, <2>2, DoneEffect DEF IInv
  <2>6. UNCHANGED <<request, log, regs, since, pc>>
    BY <2>1
  <2>7. ASSUME NEW q \in Subs, Serving(q), q # s \/ UNCHANGED todo
        PROVE  Served(q)'
    <3>1. Passed(q)' = Passed(q) \/ (UNCHANGED todo /\ HandlerDone /\ q = s)
      BY <2>3, <2>7
    <3>2. ~(UNCHANGED todo /\ HandlerDone)
      BY <2>1, <2>2, DoneEffect DEF IInv
    <3>3. q \in Range(todo') <=> q \in Range(todo)
      BY <2>5, <2>7
    <3>. QED BY <2>6, <2>7, <3>1, <3>2, <3>3, ServedSame DEF IInv, AllServed
  <2>8. ASSUME Serving(s), HandlerDone
        PROVE  Served(s)'
    <3>1. s \in Range(todo) /\ s \notin Range(todo') /\ n \in 1..Len(log) /\ n \notin Due(s)
      BY <2>1, <2>2, <2>8, DoneEffect DEF IInv, Due
    <3>2. log[n].method \in regs[s] /\ since[s][log[n].method] < n
      BY <2>1, <2>8 DEF IInv, Inv, Dispatched
    <3>3. Due(s)' = IF Forwards(s, log[n]) THEN Due(s) \cup {n} ELSE Due(s)
      <4>1. Due(s)' = {i \in 1..Len(log) :
                         /\ log[i].method \in regs[s] /\ since[s][log[i].method] < i
                         /\ Forwards(s, log[i])
                         /\ ~(i = Len(log) /\ s \in Range(todo'))}
        BY <2>6 DEF Due, Forwards, Profile
      <4>2. \A i \in 1..Len(log) : i # n => (i \in Due(s)' <=> i \in Due(s))
        BY <2>1, <4>1 DEF Due
      <4>3. n \in Due(s)' <=> Forwards(s, log[n])
        BY <2>1, <3>1, <3>2, <4>1
      <4>4. Due(s)' \subseteq 1..Len(log) /\ Due(s) \subseteq 1..Len(log)
        BY <4>1 DEF Due
      <4>5. \A i \in 1..Len(log) :
               i \in Due(s)' <=> i \in (IF Forwards(s, log[n]) THEN Due(s) \cup {n} ELSE Due(s))
        <5> TAKE i \in 1..Len(log)
        <5>1. CASE i = n
          BY <3>1, <4>3, <5>1
        <5>2. CASE i # n
          BY <4>2, <5>2
        <5>. QED BY <5>1, <5>2
      <4>6. (IF Forwards(s, log[n]) THEN Due(s) \cup {n} ELSE Due(s)) \subseteq 1..Len(log)
        BY <3>1, <4>4
      <4>. QED BY <4>4, <4>5, <4>6, Zenon
    <3>4. Served(s)
      BY <2>1, <2>8 DEF IInv, AllServed
    <3>6. CASE ~Forwards(s, log[n])
      <4>1. Passed(s)' = Passed(s) /\ Due(s)' = Due(s)
        BY <2>1, <2>3, <3>3, <3>6
      <4>. QED BY <2>6, <3>4, <4>1, ServedKept
    <3>7. CASE Forwards(s, log[n]) /\ Passed(s)' = Append(Passed(s), n)
      <4>1. Range(Passed(s)') = Range(Passed(s)) \cup {n}
        <5>1. Range(Append(Passed(s), n)) = Range(Passed(s)) \cup {n}
          BY <2>1, <2>4, AppendFacts
        <5>. QED BY <3>7, <5>1
      <4>2. /\ \A i \in Due(s) : i < n
            /\ Due(s) \subseteq Nat /\ n \in Nat
        BY <2>1, <3>1 DEF Due
      <4>. QED BY <2>6, <3>3, <3>4, <3>7, <4>1, <4>2, ServedOneMore
    <3>8. CASE Forwards(s, log[n]) /\ ~HasRoom(s) /\ ~Blocks(s) /\ Passed(s)' = Passed(s)
      <4>1. /\ Due(s) \subseteq 1..Len(log) /\ \A i \in Due(s) : i < n
            /\ Due(s) \subseteq Nat /\ n \in Nat /\ Range(Passed(s)) \subseteq Due(s)
        <5>1. Due(s) \subseteq 1..Len(log) /\ n \in Nat
          BY <3>1 DEF Due
        <5>2. \A i \in Due(s) : i < n /\ i \in Nat
          BY <2>1, <3>1, <5>1
        <5>3. Range(Passed(s)) \subseteq Due(s)
          BY <3>4 DEF Served
        <5>. QED BY <5>1, <5>2, <5>3
      <4>2. /\ Cap < Cardinality({j \in Due(s) \cup {n} : j <= n})
            /\ Cardinality({j \in Due(s) \cup {n} : j <= n}) \in Nat
        BY <2>1, <3>8, <4>1, ChannelFull DEF IInv, Inv
      <4>. QED BY <2>6, <3>3, <3>4, <3>8, <4>1, <4>2, ServedButNewest
    <3>9. \/ ~Forwards(s, log[n]) \/ Passed(s)' = Append(Passed(s), n)
          \/ (~HasRoom(s) /\ ~Blocks(s) /\ Passed(s)' = Passed(s))
      <4>1. \A q \in Subs : UNCHANGED <<queue, sent, inHand>> => Passed(q)' = Passed(q)
        BY PassedSame
      <4>2. queue' = [queue EXCEPT ![s] = Append(@, n)] => Passed(s)' = Append(Passed(s), n)
        BY <2>1, PassedOn DEF IInv
      <4>. QED BY <2>1, <2>2, <2>8, <3>1, <4>1, <4>2
    <3>. QED BY <3>6, <3>7, <3>8, <3>9
  <2>9. UNCHANGED todo \/ HandlerDone
    BY <2>1
  <2>10. \A q : Serving(q)' <=> Serving(q)
    BY <2>6 DEF Serving
  <2>. QED BY <2>1, <2>7, <2>8, <2>9, <2>10 DEF AllServed
<1>3. ASSUME ReadAnswer
      PROVE  AllServed'
  <2>1. \A q : Passed(q)' = Passed(q)
    BY <1>3, PassedSame DEF ReadAnswer, client_vars, reg_vars, chan_vars, peer_vars
  <2>. QED BY <1>3, <2>1, ServedSame DEF ReadAnswer, client_vars, reg_vars, chan_vars,
       peer_vars, IInv, AllServed, Serving
<1>4. ASSUME AnswerArrives
      PROVE  AllServed'
  <2>1. \A q : Passed(q)' = Passed(q)
    BY <1>4, PassedSame DEF AnswerArrives, client_vars, reg_vars, chan_vars, peer_vars
  <2>. QED BY <1>4, <2>1, ServedSame DEF AnswerArrives, client_vars, reg_vars,
       chan_vars, peer_vars, IInv, AllServed, Serving
<1>5. ASSUME StopReading
      PROVE  AllServed'
  <2>1. \A q : Passed(q)' = Passed(q)
    BY <1>5, PassedSame DEF StopReading, client_vars, reg_vars, chan_vars, peer_vars
  <2>. QED BY <1>5, <2>1, ServedSame DEF StopReading, client_vars, reg_vars, chan_vars,
       peer_vars, IInv, AllServed, Serving
<1>6. ASSUME ClientCloses
      PROVE  AllServed'
  <2>1. \A q : Passed(q)' = Passed(q)
    BY <1>6, PassedSame DEF ClientCloses, reader_vars, reg_vars, chan_vars, peer_vars
  <2>. QED BY <1>6, <2>1, ServedSame DEF ClientCloses, reader_vars, reg_vars, chan_vars,
       peer_vars, IInv, AllServed, Serving
<1>7. ASSUME NEW s \in Subs, Subscribe(s)
      PROVE  AllServed'
  <2>1. \A q : Passed(q)' = Passed(q)
    BY <1>7, PassedSame DEF Subscribe, Goto, reader_vars, client_vars, peer_vars,
       reg_vars, chan_vars
  <2>. QED BY <1>7, <2>1, ServedSame DEF Subscribe, Goto, reader_vars, client_vars,
       peer_vars, reg_vars, chan_vars, IInv, AllServed, Serving
<1>8. ASSUME NEW s \in Subs, Register(s)
      PROVE  AllServed'
  <2> DEFINE m == Cardinality(regs[s]) + 1
  <2>1. /\ m \in Methods /\ m \in Wanted(s) /\ m \notin regs[s]
        /\ regs[s] \cup {m} \subseteq Wanted(s)
        /\ m # Cardinality(Wanted(s)) =>
             \E k \in 0..(Cardinality(Wanted(s)) - 1) : regs[s] \cup {m} = 1..k
    BY <1>8, NextMethod DEF Register, Goto, IInv, Inv
  <2>2. /\ handlers' = [handlers EXCEPT ![m] = Append(@, s)]
        /\ regs' = [regs EXCEPT ![s] = @ \cup {m}]
        /\ since' = [since EXCEPT ![s][m] = Len(log)]
        /\ pc[s] = "register"
        /\ pc' = [pc EXCEPT ![s] = IF m = Cardinality(Wanted(s)) THEN "select" ELSE "register"]
        /\ UNCHANGED <<request, log, todo, queue, inHand, sent>>
    BY <1>8 DEF Register, Goto, reader_vars, client_vars, chan_vars, peer_vars
  <2> HIDE DEF m
  <2>3. pc'[s] \in {"select", "register"} /\ (pc'[s] = "register" => m # Cardinality(Wanted(s)))
    BY <2>2 DEF IInv, Inv, TypeOK
  <2>4. /\ regs'[s] = regs[s] \cup {m} /\ \A q \in Subs : q # s => regs'[q] = regs[q]
        /\ since'[s][m] = Len(log)
        /\ \A q \in Subs, k \in Methods : q # s \/ k # m => since'[q][k] = since[q][k]
        /\ \A q \in Subs : q # s => since'[q] = since[q] /\ pc'[q] = pc[q]
    BY <2>1, <2>2 DEF IInv, Inv, TypeOK
  <2>5. \A q : Passed(q)' = Passed(q)
    BY <2>2, PassedSame
  <2>6. ASSUME NEW q \in Subs
        PROVE  Due(q)' = Due(q)
    <3>1. CASE q # s
      BY <2>2, <2>4, <3>1, DueSame
    <3>2. CASE q = s
      <4>0. log \in Seq(Event)
        BY DEF IInv, Inv, TypeOK
      <4>1. Len(log) \in Nat /\ \A i \in 1..Len(log) : log[i].method \in Methods
        <5>1. \A i \in 1..Len(log) : log[i] \in Event
          BY <4>0
        <5>. QED BY <4>0, <5>1 DEF Event
      <4>2. Due(s)' = {i \in 1..Len(log) :
                         /\ log[i].method \in regs'[s] /\ since'[s][log[i].method] < i
                         /\ Forwards(s, log[i])
                         /\ ~(i = Len(log) /\ s \in Range(todo))}
        BY <2>2 DEF Due, Forwards, Profile
      <4>3. ASSUME NEW i \in 1..Len(log)
            PROVE  log[i].method \in regs'[s] /\ since'[s][log[i].method] < i
                     <=> log[i].method \in regs[s] /\ since[s][log[i].method] < i
        <5>1. CASE log[i].method = m
          <6>1. ~(Len(log) < i)
            BY <4>1
          <6>. QED BY <2>1, <2>4, <5>1, <6>1
        <5>2. CASE log[i].method # m
          BY <2>4, <4>1, <5>2
        <5>. QED BY <5>1, <5>2
      <4>4. \A i \in 1..Len(log) : i \in Due(s)' <=> i \in Due(s)
        BY <4>2, <4>3 DEF Due
      <4>5. Due(s)' \subseteq 1..Len(log) /\ Due(s) \subseteq 1..Len(log)
        BY <4>2 DEF Due
      <4>. QED BY <3>2, <4>4, <4>5
    <3>. QED BY <3>1, <3>2
  <2>7. \A q \in Subs : Serving(q)' => Serving(q)
    BY <2>2, <2>4 DEF Serving
  <2>. QED BY <2>2, <2>5, <2>6, <2>7, ServedKept DEF IInv, AllServed
<1>9. ASSUME NEW s \in Subs, Receive(s)
      PROVE  AllServed'
  <2>1. \A q \in Subs : Passed(q)' = Passed(q)
    BY <1>9, ReceiveEffect DEF IInv
  <2>. QED BY <1>9, <2>1, ServedSame DEF Receive, Goto, reader_vars, client_vars,
       reg_vars, IInv, Inv, TypeOK, AllServed, Serving
<1>10. ASSUME NEW s \in Subs, SendFails(s)
      PROVE  AllServed'
  <2>1. \A q \in Subs : /\ Range(Passed(q)') \subseteq Range(Passed(q)) /\ Increasing(Passed(q)')
                        /\ q # s => Passed(q)' = Passed(q)
    BY <1>10, SendFailsEffect DEF IInv
  <2>. QED BY <1>10, <2>1, ServedSame DEF SendFails, Goto, reader_vars, client_vars,
       reg_vars, chan_vars, IInv, Inv, TypeOK, AllServed, Serving
<1>11. ASSUME NEW s \in Subs, SeesCancel(s)
      PROVE  AllServed'
  <2>1. \A q : Passed(q)' = Passed(q)
    BY <1>11, PassedSame DEF SeesCancel, Goto, reader_vars, client_vars, peer_vars,
       reg_vars, chan_vars
  <2>. QED BY <1>11, <2>1, ServedSame DEF SeesCancel, Goto, reader_vars, client_vars,
       peer_vars, reg_vars, chan_vars, IInv, AllServed, Serving
<1>12. ASSUME NEW s \in Subs, SeesClosed(s)
      PROVE  AllServed'
  <2>1. \A q : Passed(q)' = Passed(q)
    BY <1>12, PassedSame DEF SeesClosed, Goto, reader_vars, client_vars, peer_vars,
       reg_vars, chan_vars
  <2>. QED BY <1>12, <2>1, ServedSame DEF SeesClosed, Goto, reader_vars, client_vars,
       peer_vars, reg_vars, chan_vars, IInv, AllServed, Serving
<1>13. ASSUME NEW s \in Subs, Unregister(s)
      PROVE  AllServed'
  <2>1. PICK m \in regs[s] :
          /\ handlers' = [handlers EXCEPT ![m] = Without(@, s)]
          /\ regs' = [regs EXCEPT ![s] = @ \ {m}]
    BY <1>13 DEF Unregister
  <2>2. /\ pc[s] = "unregister" /\ UNCHANGED <<request, log, todo, since, queue, inHand, sent>>
        /\ pc' = [pc EXCEPT ![s] = IF Cardinality(regs[s]) > 1 THEN "unregister"
                                   ELSE IF Profile(s).blocking THEN "close" ELSE "done"]
    BY <1>13 DEF Unregister, Goto, reader_vars, client_vars, chan_vars, peer_vars
  <2>3. /\ regs'[s] = regs[s] \ {m} /\ pc'[s] \in {"unregister", "close", "done"}
        /\ \A q \in Subs : q # s => regs'[q] = regs[q] /\ pc'[q] = pc[q]
    BY <2>1, <2>2 DEF IInv, Inv, TypeOK
  <2>4. \A q : Passed(q)' = Passed(q)
    BY <2>2, PassedSame
  <2>5. \A q \in Subs : Serving(q)' => Serving(q) /\ regs'[q] = regs[q]
    BY <2>2, <2>3 DEF Serving
  <2>. QED BY <2>2, <2>4, <2>5, ServedSame DEF IInv, AllServed
<1>14. ASSUME NEW s \in Subs, CloseChannel(s)
      PROVE  AllServed'
  <2>1. \A q : Passed(q)' = Passed(q)
    BY <1>14, PassedSame DEF CloseChannel, Goto, reader_vars, client_vars, reg_vars,
       peer_vars
  <2>. QED BY <1>14, <2>1, ServedSame DEF CloseChannel, Goto, reader_vars, client_vars,
       reg_vars, peer_vars, IInv, AllServed, Serving
<1>15. ASSUME NEW s \in Subs, Sent(s)
      PROVE  AllServed'
  <2>1. \A q \in Subs : Passed(q)' = Passed(q)
    BY <1>15, SentEffect DEF IInv
  <2>. QED BY <1>15, <2>1, ServedSame DEF Sent, Goto, reader_vars, client_vars,
       reg_vars, chan_vars, IInv, Inv, TypeOK, AllServed, Serving
<1>16. ASSUME NEW s \in Subs, PeerLeaves(s)
      PROVE  AllServed'
  <2>1. \A q : Passed(q)' = Passed(q)
    BY <1>16, PassedSame DEF PeerLeaves, reader_vars, client_vars, reg_vars, chan_vars
  <2>. QED BY <1>16, <2>1, ServedSame DEF PeerLeaves, reader_vars, client_vars,
       reg_vars, chan_vars, IInv, AllServed, Serving
<1>17. CASE UNCHANGED vars
  <2>1. \A q : Passed(q)' = Passed(q)
    BY <1>17, PassedSame DEF vars, reader_vars, client_vars, peer_vars, reg_vars,
       chan_vars
  <2>. QED BY <1>17, <2>1, ServedSame DEF vars, reader_vars, client_vars, peer_vars,
       reg_vars, chan_vars, IInv, AllServed, Serving
<1>. QED BY <1>1, <1>2, <1>3, <1>4, <1>5, <1>6, <1>7, <1>8, <1>9, <1>10, <1>11, <1>12,
     <1>13, <1>14, <1>15, <1>16, <1>17 DEF Next, ReaderStep, StreamStep

-----------------------------------------------------------------------------
(* The theorems                                                              *)

\* The invariant holds at first.
LEMMA InitIInv ==
    ASSUME Init
    PROVE  IInv
<1>1. \A s : Hand(s) = <<>> \/ s \notin Subs
  BY DEF Init, Hand
<1>2. \A s \in Subs : Passed(s) = <<>>
  BY <1>1 DEF Init, Passed
<1>3. Range(<<>>) = {} /\ DOMAIN <<>> = {} /\ Len(<<>>) = 0 /\ <<>> \in Seq(Subs)
  BY DEF Range
<1>4. TypeOK
  <2>1. \A S : <<>> \in Seq(S)
    OBVIOUS
  <2>2. 0 \in 0..MaxEvents /\ Len(<<>>) <= MaxEvents /\ Len(<<>>) <= Cap
    BY <1>3, StreamAssumption
  <2>3. since \in [Subs -> [Methods -> 0..MaxEvents]] /\ inHand \in [Subs -> 0..MaxEvents]
    BY <2>2 DEF Init
  <2>4. /\ log \in Seq(Event) /\ handlers \in [Methods -> Seq(Subs)] /\ todo \in Seq(Subs)
        /\ queue \in [Subs -> Seq(1..MaxEvents)] /\ sent \in [Subs -> Seq(1..MaxEvents)]
    BY <2>1 DEF Init
  <2>5. Len(log) <= MaxEvents /\ \A s \in Subs : Len(queue[s]) <= Cap
    BY <2>2 DEF Init
  <2>. QED BY <2>3, <2>4, <2>5 DEF Init, TypeOK, StreamPc
<1>5. InHand
  BY DEF Init, InHand
<1>6. Registering
  BY DEF Init, Registering
<1>7. Dispatched
  <2>1. todo = <<>> /\ IsInjective(<<>>)
    BY <1>3 DEF Init, IsInjective
  <2>. QED BY <1>3, <2>1 DEF Dispatched
<1>8. Subscribed /\ InOrder
  BY <1>2, <1>3 DEF Subscribed, InOrder, Increasing
<1>9. OnlyOwnHandlers
  <2>1. \A m \in Methods : handlers[m] = <<>> /\ \A s \in Subs : m \notin regs[s]
    BY DEF Init
  <2>2. IsInjective(<<>>)
    BY <1>3 DEF IsInjective
  <2>3. \A s \in Subs : regs[s] = {}
    BY DEF Init
  <2>. QED BY <1>3, <2>1, <2>2, <2>3 DEF OnlyOwnHandlers
<1>10. AllServed
  <2>1. \A s \in Subs : Due(s) = {}
    BY DEF Init, Due
  <2>. QED BY <1>2, <1>3, <2>1 DEF AllServed, Served
<1>. QED BY <1>4, <1>5, <1>6, <1>7, <1>8, <1>9, <1>10 DEF IInv, Inv

\* Every step keeps it.
LEMMA NextIInv ==
    ASSUME IInv, [Next]_vars
    PROVE  IInv'
<1>1. TypeOK' /\ InHand' /\ Registering' /\ OnlyOwnHandlers'
  BY TypeNext, InHandNext, RegisteringNext, HandlersNext
<1>2. Dispatched' /\ Subscribed' /\ InOrder' /\ AllServed'
  BY DispatchedNext, SubscribedNext, InOrderNext, ServedNext
<1>. QED BY <1>1, <1>2 DEF IInv, Inv

\* While all that is due fits in the channel, so does what was due up to any event.
LEMMA ServedIsComplete ==
    ASSUME IInv
    PROVE  Complete
<1> SUFFICES ASSUME NEW s \in Subs, Serving(s), Cardinality(Due(s)) <= Cap, NEW i \in Due(s)
             PROVE  i \in Range(Passed(s))
  BY DEF IInv, AllServed, Served, Complete
<1>1. IsFiniteSet(Due(s))
  <2>1. Len(log) \in Nat
    BY DEF IInv, Inv, TypeOK
  <2>2. IsFiniteSet(1..Len(log))
    BY <2>1, FS_Interval
  <2>3. Due(s) \in SUBSET (1..Len(log))
    BY DEF Due
  <2>. QED BY <2>2, <2>3, FS_Subset
<1> DEFINE upTo == {j \in Due(s) : j <= i}
<1>2. upTo \in SUBSET Due(s)
  OBVIOUS
<1> HIDE DEF upTo
<1>3. /\ Cardinality(upTo) <= Cardinality(Due(s))
      /\ Cardinality(upTo) \in Nat /\ Cardinality(Due(s)) \in Nat
  BY <1>1, <1>2, FS_Subset, FS_CardinalityType
<1>4. Cardinality(upTo) <= Cap
  BY <1>3, StreamAssumption
<1>. QED BY <1>4 DEF upTo, IInv, AllServed, Served

\* A peer sees only what it subscribed to, and a handler is called for an event
\* that came after its registration, once: events may be read, and streams come
\* and go, between any two handlers.
THEOREM EventsInvariant == Spec => []Inv
<1>1. Init => IInv
  BY InitIInv
<1>2. IInv /\ [Next]_vars => IInv'
  BY NextIInv
<1>3. IInv => Inv
  BY DEF IInv
<1>. QED BY <1>1, <1>2, <1>3, PTL DEF Spec

\* A peer sees events in Chrome's order and none twice.
THEOREM EventsInOrder == Spec => []InOrder
<1>1. Init => IInv
  BY InitIInv
<1>2. IInv /\ [Next]_vars => IInv'
  BY NextIInv
<1>3. IInv => InOrder
  BY DEF IInv
<1>. QED BY <1>1, <1>2, <1>3, PTL DEF Spec

\* A blocking stream loses no event from its registration on, a dropping one none
\* that would have fitted, and then only the newest.
THEOREM NothingLostNeedlessly == Spec => []Complete
<1>1. Init => IInv
  BY InitIInv
<1>2. IInv /\ [Next]_vars => IInv'
  BY NextIInv
<1>3. IInv => Complete
  BY ServedIsComplete
<1>. QED BY <1>1, <1>2, <1>3, PTL DEF Spec

\* A stream that returned has left no handler behind, and took no other's.
THEOREM HandlersAreOwn == Spec => []OnlyOwnHandlers
<1>1. Init => IInv
  BY InitIInv
<1>2. IInv /\ [Next]_vars => IInv'
  BY NextIInv
<1>3. IInv => OnlyOwnHandlers
  BY DEF IInv
<1>. QED BY <1>1, <1>2, <1>3, PTL DEF Spec
=============================================================================
