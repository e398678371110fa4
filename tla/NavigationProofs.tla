--------------------------- MODULE NavigationProofs ---------------------------
(***************************************************************************)
(* Proofs of what a navigation promises.                                   *)
(***************************************************************************)
EXTENDS NavigationProps, FiniteSetTheorems, SequenceTheorems, TLAPS

Message == Event \cup Answer

-----------------------------------------------------------------------------
(* What is on its way to the read loop                                      *)

\* Pages are told from no page and from those of other sessions, and navigations from
\* what something else shows.
LEMMA PageFacts ==
    /\ Pages = Navs \cup Others /\ Pages \subseteq Nat
    /\ 0 \notin Pages /\ Elsewhere \notin Pages \cup {0}
    /\ \A n \in 0..MaxNav : n \notin Others \cup {Elsewhere}
  BY NavigationAssumption DEF Pages, Navs, Others, Elsewhere

\* What is left of a sequence when one element is taken out: the others, in order.
LEMMA RemoveAtFacts ==
    ASSUME NEW S, NEW s \in Seq(S), NEW i \in DOMAIN s
    PROVE  /\ RemoveAt(s, i) \in Seq(S)
           /\ Len(RemoveAt(s, i)) = Len(s) - 1
           /\ \A j \in 1..(Len(s) - 1) :
                RemoveAt(s, i)[j] = IF j < i THEN s[j] ELSE s[j + 1]
<1>1. i \in 1..Len(s) /\ Len(s) \in Nat
  OBVIOUS
<1> DEFINE a == SubSeq(s, 1, i - 1)
           b == SubSeq(s, i + 1, Len(s))
<1>2. a \in Seq(S) /\ Len(a) = i - 1 /\ \A j \in 1..(i - 1) : a[j] = s[j]
  BY <1>1
<1>3. b \in Seq(S) /\ Len(b) = Len(s) - i /\ \A j \in 1..(Len(s) - i) : b[j] = s[i + j]
  BY <1>1
<1>4. RemoveAt(s, i) = a \o b
  BY DEF RemoveAt
<1> HIDE DEF a, b
<1>5. /\ a \o b \in Seq(S) /\ Len(a \o b) = Len(s) - 1
      /\ \A j \in 1..(Len(s) - 1) : (a \o b)[j] = IF j < i THEN s[j] ELSE s[j + 1]
  <2>1. /\ a \o b \in Seq(S) /\ Len(a \o b) = Len(a) + Len(b)
        /\ \A j \in 1..(Len(a) + Len(b)) :
             (a \o b)[j] = IF j <= Len(a) THEN a[j] ELSE b[j - Len(a)]
    BY <1>2, <1>3, ConcatProperties
  <2> DEFINE c == a \o b
  <2> HIDE DEF c
  <2>2. Len(a) = i - 1 /\ Len(b) = Len(s) - i /\ Len(a) + Len(b) = Len(s) - 1
    BY <1>1, <1>2, <1>3
  <2>3. ASSUME NEW j \in 1..(Len(s) - 1)
        PROVE  c[j] = IF j < i THEN s[j] ELSE s[j + 1]
    <3>1. c[j] = IF j <= Len(a) THEN a[j] ELSE b[j - Len(a)]
      BY <2>1, <2>2 DEF c
    <3>2. CASE j < i
      <4>1. j \in 1..(i - 1) /\ j <= Len(a)
        BY <1>1, <2>2, <3>2
      <4>. QED BY <1>2, <3>1, <3>2, <4>1
    <3>3. CASE ~(j < i)
      <4> DEFINE k == j - (i - 1)
      <4>0. k = j - Len(a) /\ ~(j <= Len(a))
        BY <1>1, <2>2, <3>3
      <4>1. k \in 1..(Len(s) - i) /\ i + k = j + 1
        BY <1>1, <3>3
      <4> HIDE DEF k
      <4>2. b[k] = s[j + 1]
        BY <1>3, <4>1
      <4>3. c[j] = b[k]
        BY <3>1, <4>0
      <4>. QED BY <3>3, <4>2, <4>3
    <3>. QED BY <3>2, <3>3
  <2>. QED BY <2>1, <2>2, <2>3 DEF c
<1>. QED BY <1>4, <1>5

\* What a step makes of what is on its way: of s, the places in gone are taken out,
\* what is in new is sent, and everything else is there as often as it was.
Changed(s, t, gone, new) ==
    /\ \A j \in DOMAIN t : t[j] \in new \/ \E k \in DOMAIN s \ gone : t[j] = s[k]
    /\ \A k \in DOMAIN s \ gone : \E j \in DOMAIN t : t[j] = s[k]
    /\ \A e \in new : \E j \in DOMAIN t : t[j] = e
    /\ \A i \in DOMAIN t, j \in DOMAIN t : i # j =>
         \/ t[i] \in new /\ \E k \in DOMAIN s \ gone : t[j] = s[k]
         \/ t[j] \in new /\ \E k \in DOMAIN s \ gone : t[i] = s[k]
         \/ \E k \in DOMAIN s \ gone, l \in DOMAIN s \ gone :
              k # l /\ t[i] = s[k] /\ t[j] = s[l]

\* Nothing happens to it,
LEMMA Same == \A s : Changed(s, s, {}, {})
  BY DEF Changed

\* something is sent, and comes last,
LEMMA Sent ==
    ASSUME NEW S, NEW s \in Seq(S), NEW e \in S
    PROVE  Changed(s, Append(s, e), {}, {e}) /\ Append(s, e) \in Seq(S)
<1> DEFINE t == Append(s, e)
<1>1. /\ Len(s) \in Nat /\ DOMAIN s = 1..Len(s) /\ DOMAIN t = 1..(Len(s) + 1)
      /\ t[Len(s) + 1] = e /\ \A j \in 1..Len(s) : t[j] = s[j]
      /\ t \in Seq(S)
  OBVIOUS
<1> HIDE DEF t
<1>2. \A j \in DOMAIN t : j = Len(s) + 1 \/ j \in DOMAIN s
  BY <1>1
<1>3. Len(s) + 1 \in DOMAIN t /\ \A j \in DOMAIN s : j \in DOMAIN t
  BY <1>1
<1>4. Changed(s, t, {}, {e})
  BY <1>1, <1>2, <1>3 DEF Changed
<1>. QED BY <1>1, <1>4 DEF t

\* or somebody takes something out:
LEMMA TakenOut ==
    ASSUME NEW S, NEW s \in Seq(S), NEW i \in DOMAIN s
    PROVE  Changed(s, RemoveAt(s, i), {i}, {}) /\ RemoveAt(s, i) \in Seq(S)
<1> DEFINE t == RemoveAt(s, i)
           old(j) == IF j < i THEN j ELSE j + 1
<1>0. /\ t \in Seq(S) /\ Len(t) = Len(s) - 1
      /\ \A j \in 1..(Len(s) - 1) : t[j] = IF j < i THEN s[j] ELSE s[j + 1]
  BY RemoveAtFacts
<1>1. /\ Len(s) \in Nat /\ i \in 1..Len(s) /\ DOMAIN s = 1..Len(s)
      /\ t \in Seq(S) /\ DOMAIN t = 1..(Len(s) - 1)
      /\ \A j \in DOMAIN t : t[j] = s[old(j)]
  <2> HIDE DEF t
  <2>. QED BY <1>0
<1> HIDE DEF t
<1>2. \A j \in DOMAIN t : old(j) \in DOMAIN s \ {i}
  BY <1>1
<1>3. \A j \in DOMAIN t, k \in DOMAIN t : j # k => old(j) # old(k)
  BY <1>1
<1>4. ASSUME NEW k \in DOMAIN s \ {i}
      PROVE  \E j \in DOMAIN t : k = old(j)
  <2>1. CASE k < i
    BY <1>1, <2>1
  <2>2. CASE k > i
    <3>1. k - 1 \in DOMAIN t /\ k = old(k - 1)
      BY <1>1, <2>2
    <3>. QED BY <3>1
  <2>. QED BY <1>1, <2>1, <2>2
<1> HIDE DEF old
<1>5. Changed(s, t, {i}, {})
  BY <1>1, <1>2, <1>3, <1>4 DEF Changed
<1>. QED BY <1>1, <1>5 DEF t

\* the caller its answer, which is the first,
LEMMA HeadTaken ==
    ASSUME NEW S, NEW s \in Seq(S), s # <<>>
    PROVE  /\ 1 \in DOMAIN s /\ Head(s) = s[1]
           /\ Changed(s, Tail(s), {1}, {}) /\ Tail(s) \in Seq(S)
<1>1. 1 \in DOMAIN s /\ Head(s) = s[1] /\ Tail(s) = RemoveAt(s, 1)
  <2>1. /\ Tail(s) \in Seq(S) /\ Len(Tail(s)) = Len(s) - 1 /\ 1 \in DOMAIN s
        /\ \A j \in 1..(Len(s) - 1) : Tail(s)[j] = s[j + 1]
    OBVIOUS
  <2>2. /\ RemoveAt(s, 1) \in Seq(S) /\ Len(RemoveAt(s, 1)) = Len(s) - 1
        /\ \A j \in 1..(Len(s) - 1) :
             RemoveAt(s, 1)[j] = IF j < 1 THEN s[j] ELSE s[j + 1]
    BY <2>1, RemoveAtFacts
  <2>. QED BY <2>1, <2>2
<1>. QED BY <1>1, TakenOut

\* and perhaps sends the next command, whose answer or event comes last.
LEMMA ThenSent ==
    ASSUME NEW s, NEW r, NEW t, NEW gone, NEW new,
           Changed(s, r, gone, {}), Changed(r, t, {}, new)
    PROVE  Changed(s, t, gone, new)
  BY DEF Changed

-----------------------------------------------------------------------------
(* What each step does to it                                                *)

\* Answers are told from events, and events have a session and an id.
LEMMA MessageFacts ==
    /\ \A ok \in BOOLEAN : [kind |-> "answer", ok |-> ok] \in Message
    /\ \A e \in Message : e.kind # "answer" =>
         e.kind \in Kinds /\ e.nav \in Pages \cup {Elsewhere} /\ e.id \in 0..MaxReq
    /\ \A k \in Kinds, n \in Pages \cup {Elsewhere}, i \in 0..MaxReq :
         [kind |-> k, nav |-> n, id |-> i] \in Message
  BY DEF Message, Event, Answer

\* An event of the network is sent or not.
LEMMA Told ==
    ASSUME NEW q \in Seq(Message), NEW r \in Request, NEW k \in Kinds
    PROVE  \E new \in SUBSET Message :
             /\ Tells(k, r, q) \in Seq(Message)
             /\ Changed(q, Tells(k, r, q), {}, new)
             /\ \A e \in new : e.kind = k /\ e.nav = r.nav /\ e.id # 0
<1> DEFINE e == [kind |-> k, nav |-> r.nav, id |-> r.id]
<1>1. e \in Message /\ r.id # 0
  BY NavigationAssumption, MessageFacts DEF Request, Navs
<1> HIDE DEF e
<1>2. Changed(q, Append(q, e), {}, {e}) /\ Append(q, e) \in Seq(Message)
  BY <1>1, Sent
<1>3. e.kind = k /\ e.nav = r.nav /\ e.id # 0
  BY <1>1 DEF e
<1>4. CASE netOn
  <2>1. Tells(k, r, q) = Append(q, e)
    BY <1>4 DEF Tells, e
  <2>2. {e} \in SUBSET Message
    BY <1>1
  <2>4. \A d \in {e} : d.kind = k /\ d.nav = r.nav /\ d.id # 0
    BY <1>3
  <2>3. Tells(k, r, q) \in Seq(Message) /\ Changed(q, Tells(k, r, q), {}, {e})
    BY <1>2, <2>1
  <2>. WITNESS {e} \in SUBSET Message
  <2>. QED BY <2>3, <2>4
<1>5. CASE ~netOn
  <2>1. Tells(k, r, q) = q /\ Changed(q, q, {}, {})
    BY <1>5, Same DEF Tells
  <2>. WITNESS {} \in SUBSET Message
  <2>. QED BY <2>1
<1>. QED BY <1>4, <1>5

\* What becomes of the inbox in a step.
Effect(gone, new) ==
    /\ inbox' \in Seq(Message) /\ Changed(inbox, inbox', gone, new)
    /\ gone \subseteq DOMAIN inbox /\ new \subseteq Message

IsAnswer(e) == e.kind = "answer"
IsSent(e)   == e.kind = "sent" /\ e.id # 0

\* Read takes an event.
LEMMA ReadEffect ==
    ASSUME TypeOK, NEW i \in DOMAIN inbox, Read(i)
    PROVE  Effect({i}, {}) /\ inbox[i] \in Message /\ inbox[i].kind # "answer"
  BY TakenOut DEF TypeOK, Message, Read, Effect

\* A step that goes on, or that was refused, takes its answer.
LEMMA AnswerEffect ==
    ASSUME TypeOK, NEW ok \in BOOLEAN, Answered(ok), inbox' = Tail(inbox)
    PROVE  Effect({1}, {}) /\ 1 \in DOMAIN inbox /\ IsAnswer(inbox[1])
<1>1. inbox \in Seq(Message) /\ inbox # <<>> /\ Head(inbox).kind = "answer"
  BY DEF TypeOK, Message, Answered
<1>. QED BY <1>1, HeadTaken DEF Effect, IsAnswer

\* A command is answered, whoever asked for it and whatever came before.
LEMMA Replies ==
    ASSUME NEW q \in Seq(Message), NEW ok \in BOOLEAN
    PROVE  \E new \in SUBSET Message :
             /\ Append(q, [kind |-> "answer", ok |-> ok]) \in Seq(Message)
             /\ Changed(q, Append(q, [kind |-> "answer", ok |-> ok]), {}, new)
             /\ \A e \in new : IsAnswer(e)
<1> DEFINE e == [kind |-> "answer", ok |-> ok]
<1>1. e \in Message /\ IsAnswer(e)
  BY MessageFacts DEF IsAnswer
<1>2. {e} \in SUBSET Message
  BY <1>1
<1>3. \A d \in {e} : IsAnswer(d)
  BY <1>1
<1> HIDE DEF e
<1>4. Append(q, e) \in Seq(Message) /\ Changed(q, Append(q, e), {}, {e})
  BY <1>1, Sent
<1>. QED BY <1>2, <1>3, <1>4 DEF e

\* The navigation starts, and with it its first request, if it has one.
LEMMA Starts ==
    ASSUME TypeOK, NEW q \in Seq(Message), cur # 0, StartNavigation(cur, q)
    PROVE  \E new \in SUBSET Message :
             /\ inbox' \in Seq(Message) /\ Changed(q, inbox', {}, new)
             /\ \A e \in new : IsSent(e)
<1>1. CASE Ask(cur, q)
  <2> DEFINE r == [id |-> made + 1, nav |-> cur]
  <2>1. r \in Request
    BY <1>1, NavigationAssumption, PageFacts DEF Ask, TypeOK, Request, Navs
  <2>2. inbox' = Tells("sent", r, q) /\ "sent" \in Kinds
    BY <1>1 DEF Ask, Kinds
  <2> HIDE DEF r
  <2>. QED BY <2>1, <2>2, Told DEF IsSent
<1>2. CASE inbox' = q
  <2>. WITNESS {} \in SUBSET Message
  <2>. QED BY <1>2, Same
<1>. QED BY <1>1, <1>2 DEF StartNavigation

LEMMA EnabledEffect ==
    ASSUME TypeOK, ChromeKnows, Enabled
    PROVE  /\ 1 \in DOMAIN inbox /\ IsAnswer(inbox[1])
           /\ \E new \in SUBSET Message :
                /\ Effect({1}, new)
                /\ \A e \in new : IF mode = "networkidle" THEN IsAnswer(e) ELSE IsSent(e)
<1>1. inbox \in Seq(Message) /\ inbox # <<>> /\ Head(inbox).kind = "answer"
  BY DEF TypeOK, Message, Enabled, Answered
<1>2. /\ 1 \in DOMAIN inbox /\ IsAnswer(inbox[1])
      /\ Changed(inbox, Tail(inbox), {1}, {}) /\ Tail(inbox) \in Seq(Message)
  BY <1>1, HeadTaken DEF IsAnswer
<1>3. CASE mode = "networkidle"
  <2>1. PICK ok \in BOOLEAN : inbox' = Append(Tail(inbox), [kind |-> "answer", ok |-> ok])
    BY <1>3 DEF Enabled
  <2>2. PICK new \in SUBSET Message :
          /\ inbox' \in Seq(Message) /\ Changed(Tail(inbox), inbox', {}, new)
          /\ \A e \in new : IsAnswer(e)
    BY <1>2, <2>1, Replies
  <2>3. Effect({1}, new)
    BY <1>2, <2>2, ThenSent DEF Effect
  <2>. QED BY <1>2, <1>3, <2>2, <2>3
<1>4. CASE mode # "networkidle"
  <2>1. StartNavigation(cur, Tail(inbox)) /\ cur # 0
    BY <1>4, NavigationAssumption DEF Enabled, ChromeKnows, Started, TypeOK
  <2>2. PICK new \in SUBSET Message :
          /\ inbox' \in Seq(Message) /\ Changed(Tail(inbox), inbox', {}, new)
          /\ \A e \in new : IsSent(e)
    BY <1>2, <2>1, Starts
  <2>3. Effect({1}, new)
    BY <1>2, <2>2, ThenSent DEF Effect
  <2>. QED BY <1>2, <1>4, <2>2, <2>3
<1>. QED BY <1>3, <1>4

LEMMA TrackEffect ==
    ASSUME TypeOK, ChromeKnows, Track
    PROVE  \E new \in SUBSET Message : Effect({}, new) /\ \A e \in new : IsSent(e)
<1>1. inbox \in Seq(Message)
  BY DEF TypeOK, Message
<1>2. CASE "finished" \in reg
  <2>1. StartNavigation(cur, inbox) /\ cur # 0
    BY <1>2, NavigationAssumption DEF Track, ChromeKnows, Started, TypeOK
  <2>. QED BY <1>1, <2>1, Starts DEF Effect
<1>3. CASE "finished" \notin reg
  <2>1. Effect({}, {}) /\ {} \in SUBSET Message
    BY <1>1, <1>3, Same DEF Track, Effect
  <2>. WITNESS {} \in SUBSET Message
  <2>. QED BY <2>1
<1>. QED BY <1>2, <1>3

LEMMA CommitEffect ==
    ASSUME TypeOK, Commit
    PROVE  \E new \in SUBSET Message :
             /\ Effect({}, new) /\ \A e \in new : IsAnswer(e)
             /\ new # {} => target = cur /\ pc = "navigate"
<1>1. inbox \in Seq(Message)
  BY DEF TypeOK, Message
<1>2. CASE target = cur /\ pc = "navigate"
  <2>1. PICK ok \in BOOLEAN : inbox' = Append(inbox, [kind |-> "answer", ok |-> ok])
    BY <1>2 DEF Commit
  <2>. QED BY <1>1, <1>2, <2>1, Replies DEF Effect
<1>3. CASE ~(target = cur /\ pc = "navigate")
  <2>1. Effect({}, {})
    BY <1>1, <1>3, Same DEF Commit, Effect
  <2>. WITNESS {} \in SUBSET Message
  <2>. QED BY <2>1
<1>. QED BY <1>2, <1>3

LEMMA BeginEffect ==
    ASSUME TypeOK, Begin
    PROVE  \E new \in SUBSET Message : Effect({}, new) /\ \A e \in new : IsAnswer(e)
<1>1. inbox \in Seq(Message)
  BY DEF TypeOK, Message
<1>2. PICK ok \in BOOLEAN : inbox' = Append(inbox, [kind |-> "answer", ok |-> ok])
  BY DEF Begin
<1>. QED BY <1>1, <1>2, Replies DEF Effect

\* A request of a page starts, starts again or ends.
LEMMA RequestEffect ==
    ASSUME TypeOK, NEW r, AskMore \/ EndRequest(r) \/ Redirect(r)
    PROVE  \E new \in SUBSET Message :
             Effect({}, new) /\ \A e \in new : e.kind \in Kinds \ {"load"} /\ e.id # 0
<1>1. inbox \in Seq(Message) /\ Kinds = {"load", "sent", "finished", "failed"}
  BY DEF TypeOK, Message, Kinds
<1>2. PICK k \in Kinds \ {"load"}, q \in Request : inbox' = Tells(k, q, inbox)
  <2>1. CASE AskMore
    <3>1. [id |-> made + 1, nav |-> doc] \in Request
      BY <2>1, NavigationAssumption, PageFacts DEF AskMore, Ask, TypeOK, Request
    <3>. QED BY <1>1, <2>1, <3>1 DEF AskMore, Ask
  <2>2. CASE EndRequest(r)
    BY <1>1, <2>2 DEF EndRequest, TypeOK
  <2>3. CASE Redirect(r)
    BY <1>1, <2>3 DEF Redirect, TypeOK
  <2>. QED BY <2>1, <2>2, <2>3
<1>3. PICK new \in SUBSET Message :
        /\ inbox' \in Seq(Message) /\ Changed(inbox, inbox', {}, new)
        /\ \A e \in new : e.kind = k /\ e.id # 0
  <2>1. inbox \in Seq(Message) /\ k \in Kinds
    BY <1>1, <1>2
  <2>2. PICK new \in SUBSET Message :
          /\ Tells(k, q, inbox) \in Seq(Message)
          /\ Changed(inbox, Tells(k, q, inbox), {}, new)
          /\ \A e \in new : e.kind = k /\ e.id # 0
    BY <2>1, Told
  <2>. QED BY <1>2, <2>2
<1>. QED BY <1>2, <1>3 DEF Effect

LEMMA LoadEffect ==
    ASSUME TypeOK, Load
    PROVE  \E new \in SUBSET Message :
             Effect({}, new) /\ new # {} /\ \A e \in new : e.kind = "load" /\ e.nav = doc
<1> DEFINE e == [kind |-> "load", nav |-> doc, id |-> 0]
<1>1. inbox \in Seq(Message) /\ e \in Message
  BY MessageFacts, NavigationAssumption, PageFacts DEF Load, TypeOK, Message, Kinds
<1>2. \A d \in {e} : d.kind = "load" /\ d.nav = doc
  OBVIOUS
<1>3. Effect({}, {e})
  BY <1>1, Sent DEF Load, Effect
<1> HIDE DEF e
<1>. QED BY <1>1, <1>2, <1>3

LEMMA ForeignEffect ==
    ASSUME TypeOK, Foreign
    PROVE  \E new \in SUBSET Message :
             /\ Effect({}, new)
             /\ \A e \in new : e.kind \in {"load", "finished"} /\ e.nav = Elsewhere
<1>1. PICK k \in {"load", "finished"} :
        inbox' = Append(inbox, [kind |-> k, nav |-> Elsewhere, id |-> 0])
  BY DEF Foreign
<1> DEFINE e == [kind |-> k, nav |-> Elsewhere, id |-> 0]
<1>2. inbox \in Seq(Message) /\ e \in Message
  BY MessageFacts, NavigationAssumption, PageFacts DEF TypeOK, Message, Kinds, Elsewhere
<1>3. \A d \in {e} : d.kind \in {"load", "finished"} /\ d.nav = Elsewhere
  OBVIOUS
<1> HIDE DEF e
<1>4. Effect({}, {e})
  BY <1>1, <1>2, Sent DEF Effect, e
<1>. QED BY <1>2, <1>3, <1>4

\* Nothing is left of the answer of a step that failed.
LEMMA FailsEffect ==
    ASSUME TypeOK, OneAnswer, Fails
    PROVE  \E gone \in SUBSET DOMAIN inbox :
             Effect(gone, {}) /\ \A i \in DOMAIN inbox : IsAnswer(inbox[i]) <=> i \in gone
<1>1. inbox \in Seq(Message)
  BY DEF TypeOK, Message
<1>2. CASE Answered(FALSE) /\ inbox' = Tail(inbox)
  <2>1. Effect({1}, {}) /\ 1 \in DOMAIN inbox /\ IsAnswer(inbox[1])
    BY <1>2, AnswerEffect
  <2>2. {1} \in SUBSET DOMAIN inbox
    BY <2>1
  <2>. WITNESS {1} \in SUBSET DOMAIN inbox
  <2>. QED BY <2>1 DEF OneAnswer, AnswersApart, IsAnswer
<1>3. CASE inbox' = inbox /\ \A i \in DOMAIN inbox : inbox[i].kind # "answer"
  <2>1. Effect({}, {})
    BY <1>1, <1>3, Same DEF Effect
  <2>. WITNESS {} \in SUBSET DOMAIN inbox
  <2>. QED BY <1>3, <2>1 DEF IsAnswer
<1>4. ASSUME NEW i \in DOMAIN inbox, inbox[i].kind = "answer", inbox' = RemoveAt(inbox, i)
      PROVE  \E gone \in SUBSET DOMAIN inbox :
               Effect(gone, {}) /\ \A k \in DOMAIN inbox : IsAnswer(inbox[k]) <=> k \in gone
  <2>1. Effect({i}, {})
    BY <1>1, <1>4, TakenOut DEF Effect
  <2>. WITNESS {i} \in SUBSET DOMAIN inbox
  <2>. QED BY <1>4, <2>1 DEF OneAnswer, AnswersApart, IsAnswer
<1>. QED BY <1>2, <1>3, <1>4 DEF Fails, Forgets

-----------------------------------------------------------------------------
(* What that says of requests, answers and load events                      *)

LEMMA IdsKept ==
    ASSUME SentHaveIds, NEW gone, NEW new, Effect(gone, new),
           \A e \in new : e.kind = "sent" => e.id # 0
    PROVE  SentHaveIds'
  BY DEF SentHaveIds, Effect, Changed

\* No answer is sent, or the one that there was is taken.
LEMMA AnswersKept ==
    ASSUME AnswersApart, NEW gone, NEW new, Effect(gone, new),
           \A e \in new : ~IsAnswer(e)
    PROVE  /\ AnswersApart' /\ (AnswerComing' => AnswerComing)
           /\ (\E i \in gone : IsAnswer(inbox[i])) => ~AnswerComing'
  BY DEF AnswersApart, AnswerComing, Effect, Changed, IsAnswer

LEMMA AnswerSent ==
    ASSUME AnswersApart, NEW gone, NEW new, Effect(gone, new),
           ~AnswerComing \/ \E i \in gone : IsAnswer(inbox[i])
    PROVE  AnswersApart'
  BY DEF AnswersApart, AnswerComing, Effect, Changed, IsAnswer

\* Load events that are left are still apart.
LEMMA LoadsLeft ==
    ASSUME LoadsApart, fired \subseteq fired', NEW gone, NEW new, Effect(gone, new),
           \A e \in new : e.kind # "load"
    PROVE  LoadsApart'
<1>1. ASSUME NEW i \in DOMAIN inbox', inbox'[i].kind = "load"
      PROVE  \E k \in DOMAIN inbox : inbox'[i] = inbox[k]
  BY <1>1 DEF Effect, Changed
<1>2. ASSUME NEW i \in DOMAIN inbox', NEW j \in DOMAIN inbox', i # j,
             inbox'[i].kind = "load", inbox'[j].kind = "load"
      PROVE  \E k \in DOMAIN inbox, l \in DOMAIN inbox :
               k # l /\ inbox'[i] = inbox[k] /\ inbox'[j] = inbox[l]
  BY <1>2 DEF Effect, Changed
<1>. QED BY <1>1, <1>2 DEF LoadsApart

\* No load event is sent or taken.
LEMMA LoadsKept ==
    ASSUME LoadsApart, fired \subseteq fired', NEW gone, NEW new, Effect(gone, new),
           \A e \in new : e.kind # "load", \A i \in gone : inbox[i].kind # "load"
    PROVE  LoadsApart' /\ \A n : LoadComing(n)' <=> LoadComing(n)
<1>1. LoadsApart'
  BY LoadsLeft
<1>2. \A n : LoadComing(n)' <=> LoadComing(n)
  BY DEF LoadComing, Effect, Changed
<1>. QED BY <1>1, <1>2

-----------------------------------------------------------------------------
(* Each step preserves each part                                            *)

\* Types: requests have ids as long as there may be one for each navigation to come.
LEMMA TypeNext ==
    ASSUME Inv, [Next]_vars
    PROVE  TypeOK'
<1>1. ASSUME NEW i \in DOMAIN inbox, Read(i)
      PROVE  TypeOK'
  <2>1. Effect({i}, {}) /\ inbox[i] \in Message /\ inbox[i].kind # "answer"
    BY <1>1, ReadEffect DEF Inv
  <2>2. /\ inbox[i].nav \in Pages \cup {Elsewhere} /\ inbox[i].id \in 0..MaxReq
        /\ inbox[i].kind \in Kinds
    BY <2>1, MessageFacts
  <2>3. inbox' \in Seq(Event \cup Answer)
    BY <2>1 DEF Effect, Message
  <2>4. loadedBy' \in Pages \cup {0, Elsewhere}
    BY <1>1, <2>2 DEF Read, Inv, TypeOK
  <2>5. inflight' \in Nat
    BY <1>1 DEF Read, Counted, Inv, TypeOK
  <2>6. rested' \in BOOLEAN
    BY <1>1 DEF Read
  <2>7. seen' \subseteq 1..MaxReq
    <3>1. CASE inbox[i].kind = "sent"
      <4>1. inbox[i].id \in 1..MaxReq
        BY <2>2, <3>1, NavigationAssumption DEF Inv, SentHaveIds
      <4>. QED BY <1>1, <4>1 DEF Read, Inv, TypeOK
    <3>2. CASE inbox[i].kind # "sent"
      BY <1>1, <3>2 DEF Read, Inv, TypeOK
    <3>. QED BY <3>1, <3>2
  <2>8. odd' \subseteq {"left", "redirect", "missed"}
    BY <1>1 DEF Read, Disturbance, Inv, TypeOK
  <2>. QED BY <1>1, <2>3, <2>4, <2>5, <2>6, <2>7, <2>8 DEF Read, step_vars, chrome_vars,
       Inv, TypeOK
<1>2. ASSUME Enabled
      PROVE  TypeOK'
  <2>1. PICK new \in SUBSET Message :
        /\ 1 \in DOMAIN inbox /\ IsAnswer(inbox[1]) /\ Effect({1}, new)
        /\ \A e \in new : IF mode = "networkidle" THEN IsAnswer(e) ELSE IsSent(e)
    BY <1>2, EnabledEffect DEF Inv
  <2>2. inbox' \in Seq(Event \cup Answer)
    BY <2>1 DEF Effect, Message
  <2>0. alone' \in BOOLEAN
    BY <1>2 DEF Enabled, Settled
  <2>3. CASE mode = "networkidle"
    BY <1>2, <2>0, <2>2, <2>3 DEF Enabled, Answered, StartNavigation, Ask, step_vars,
       count_vars,
       Armed, Kinds, Waits, Inv, TypeOK
  <2>4. CASE mode # "networkidle"
    <3>1. cur \in Navs
      BY <1>2, NavigationAssumption DEF Enabled, Inv, TypeOK, ChromeKnows, Navs
    <3>2. StartNavigation(cur, Tail(inbox))
      BY <1>2, <2>4 DEF Enabled
    <3>3. reqs' \subseteq Request /\ made' \in 0..MaxReq
      BY <3>1, <3>2, NavigationAssumption, PageFacts DEF StartNavigation, Ask, Inv,
         TypeOK, Request
    <3>. QED BY <1>2, <2>0, <2>2, <2>4, <3>1, <3>2, <3>3 DEF Enabled, Answered,
         StartNavigation,
         step_vars, count_vars, Armed, Kinds, Waits, Inv, TypeOK
  <2>. QED BY <2>3, <2>4
<1>3. ASSUME NetEnabled
      PROVE  TypeOK'
  <2>1. Effect({1}, {}) /\ 1 \in DOMAIN inbox /\ IsAnswer(inbox[1])
    BY <1>3, AnswerEffect DEF Inv, NetEnabled
  <2>. QED BY <1>3, <2>1, NavigationAssumption, MessageFacts, PageFacts
       DEF NetEnabled, Answered, step_vars, count_vars, chrome_vars, Inv, TypeOK,
          Message, Request, Navs, Kinds, Waits, ChromeKnows, Started, Ends,
          Counted, Disturbance, Armed, Effect, Changed, IsAnswer, IsSent
<1>4. ASSUME Track
      PROVE  TypeOK'
  <2>1. PICK new \in SUBSET Message : Effect({}, new) /\ \A e \in new : IsSent(e)
    BY <1>4, TrackEffect DEF Inv
  <2>2. inbox' \in Seq(Event \cup Answer)
    BY <2>1 DEF Effect, Message
  <2>3. reg' \subseteq Kinds
    BY <1>4 DEF Track, Kinds, Inv, TypeOK
  <2>4. CASE "finished" \in reg
    <3>1. cur \in Navs
      BY <1>4, NavigationAssumption DEF Track, Inv, TypeOK, ChromeKnows, Navs
    <3>2. StartNavigation(cur, inbox)
      BY <1>4, <2>4 DEF Track
    <3>3. reqs' \subseteq Request /\ made' \in 0..MaxReq
      BY <3>1, <3>2, NavigationAssumption, PageFacts DEF StartNavigation, Ask, Inv,
         TypeOK, Request
    <3>. QED BY <1>4, <2>2, <2>3, <2>4, <3>1, <3>2, <3>3 DEF Track, StartNavigation,
         step_vars, count_vars, chrome_vars, Waits, Inv, TypeOK
  <2>5. CASE "finished" \notin reg
    BY <1>4, <2>2, <2>3, <2>5 DEF Track, StartNavigation, Ask, step_vars, count_vars,
       chrome_vars, Inv, TypeOK
  <2>. QED BY <2>4, <2>5
<1>5. ASSUME Navigated
      PROVE  TypeOK'
  <2>1. Effect({1}, {}) /\ 1 \in DOMAIN inbox /\ IsAnswer(inbox[1])
    BY <1>5, AnswerEffect DEF Inv, Navigated
  <2>2. inbox' \in Seq(Event \cup Answer)
    BY <2>1 DEF Effect, Message
  <2>3. reg' \subseteq Kinds /\ pc' \in {"idle", "load"}
    BY <1>5 DEF Navigated, Returns, Unregistered, Inv, TypeOK
  <2>4. UNCHANGED <<step_vars, count_vars, chrome_vars, alone>>
    BY <1>5 DEF Navigated, Returns
  <2>. QED BY <2>2, <2>3, <2>4 DEF step_vars, count_vars, chrome_vars, Inv, TypeOK
<1>6. ASSUME AfterLoad
      PROVE  TypeOK'
  BY <1>6 DEF AfterLoad, Returns, Unregistered, step_vars, count_vars, chrome_vars,
     Inv, TypeOK
<1>7. ASSUME IdleEnds
      PROVE  TypeOK'
  BY <1>7 DEF IdleEnds, Returns, Unregistered, step_vars, count_vars, chrome_vars,
     Inv, TypeOK
<1>8. ASSUME QuietExpires
      PROVE  TypeOK'
  BY <1>8 DEF QuietExpires, Returns, Unregistered, step_vars, count_vars, chrome_vars,
     Inv, TypeOK
<1>9. ASSUME Rest
      PROVE  TypeOK'
  BY <1>9, NavigationAssumption, MessageFacts, PageFacts
  DEF Rest, step_vars, chrome_vars, Inv, TypeOK, Message, Request, Navs, Kinds, Waits,
     ChromeKnows, Started, Ends, Counted, Disturbance, Armed
<1>10. ASSUME Commit
      PROVE  TypeOK'
  <2>1. PICK new \in SUBSET Message :
        /\ Effect({}, new) /\ \A e \in new : IsAnswer(e)
        /\ new # {} => target = cur /\ pc = "navigate"
    BY <1>10, CommitEffect DEF Inv
  <2>. QED BY <1>10, <2>1, NavigationAssumption, MessageFacts, PageFacts
       DEF Commit, StepsStay, step_vars, count_vars, Inv, TypeOK, Message, Request,
          Navs, Kinds, Waits, ChromeKnows, Started, Ends, Counted,
          Disturbance, Armed, Effect, Changed, IsAnswer, IsSent
<1>11. ASSUME Load
      PROVE  TypeOK'
  <2>1. PICK new \in SUBSET Message :
        /\ Effect({}, new) /\ new # {} /\ \A e \in new : e.kind = "load" /\ e.nav = doc
    BY <1>11, LoadEffect DEF Inv
  <2>. QED BY <1>11, <2>1, NavigationAssumption, MessageFacts, PageFacts
       DEF Load, StepsStay, step_vars, count_vars, Inv, TypeOK, Message, Request, Navs,
          Kinds, Waits, ChromeKnows, Started, Ends, Counted, Disturbance,
          Armed, Effect, Changed, IsAnswer, IsSent
<1>12. ASSUME NEW r \in reqs, EndRequest(r)
      PROVE  TypeOK'
  <2>1. PICK new \in SUBSET Message :
        Effect({}, new) /\ \A e \in new : e.kind \in Kinds \ {"load"} /\ e.id # 0
    BY <1>12, RequestEffect DEF Inv
  <2>. QED BY <1>12, <2>1, NavigationAssumption, MessageFacts, PageFacts
       DEF EndRequest, StepsStay, step_vars, count_vars, Inv, TypeOK, Message, Request,
          Navs, Kinds, Waits, ChromeKnows, Started, Ends, Counted,
          Disturbance, Armed, Effect, Changed, IsAnswer, IsSent
<1>13. ASSUME Begin
      PROVE  TypeOK'
  <2>1. PICK new \in SUBSET Message : Effect({}, new) /\ \A e \in new : IsAnswer(e)
    BY <1>13, BeginEffect DEF Inv
  <2>2. inbox' \in Seq(Event \cup Answer)
    BY <2>1 DEF Effect, Message
  <2>3. cur' \in 0..MaxNav /\ mode' \in Modes /\ pc' \in Waits
    BY <1>13, NavigationAssumption DEF Begin, Waits, Inv, TypeOK
  <2>6. rested' \in BOOLEAN
    BY <1>13 DEF Begin
  <2>4. /\ loadedBy' \in Pages \cup {0, Elsewhere} /\ inflight' \in Nat
        /\ seen' \subseteq 1..MaxReq /\ odd' \subseteq {"left", "redirect", "missed"}
    BY <1>13, NavigationAssumption DEF Begin
  <2>5. UNCHANGED <<reg, netOn, target, doc, reqs, made, fired>>
    BY <1>13 DEF Begin, chrome_vars
  <2>7. alone' \in BOOLEAN
    BY <1>13 DEF Begin
  <2>. QED BY <2>2, <2>3, <2>4, <2>5, <2>6, <2>7 DEF Inv, TypeOK
<1>14. ASSUME Fails
      PROVE  TypeOK'
  <2>1. PICK gone \in SUBSET DOMAIN inbox :
        Effect(gone, {}) /\ \A i \in DOMAIN inbox : IsAnswer(inbox[i]) <=> i \in gone
    BY <1>14, FailsEffect DEF Inv
  <2>. QED BY <1>14, <2>1, NavigationAssumption, MessageFacts, PageFacts
       DEF Fails, Returns, Unregistered, step_vars, count_vars, chrome_vars, Inv,
          TypeOK, Message,
          Request, Navs, Kinds, Waits, ChromeKnows, Started, Ends, Counted,
          Disturbance, Armed, Effect, Changed, IsAnswer, IsSent
<1>15. ASSUME AskMore
      PROVE  TypeOK'
  <2>1. PICK new \in SUBSET Message :
        Effect({}, new) /\ \A e \in new : e.kind \in Kinds \ {"load"} /\ e.id # 0
    BY <1>15, RequestEffect DEF Inv
  <2>. QED BY <1>15, <2>1, NavigationAssumption, MessageFacts, PageFacts
       DEF AskMore, Ask, StepsStay, step_vars, count_vars, Inv, TypeOK, Message, Request,
          Navs, Kinds, Waits, ChromeKnows, Started, Ends, Counted,
          Disturbance, Armed, Effect, Changed, IsAnswer, IsSent
<1>16. ASSUME Foreign
      PROVE  TypeOK'
  <2>1. PICK new \in SUBSET Message :
        /\ Effect({}, new)
        /\ \A e \in new : e.kind \in {"load", "finished"} /\ e.nav = Elsewhere
    BY <1>16, ForeignEffect DEF Inv
  <2>. QED BY <1>16, <2>1, NavigationAssumption, MessageFacts, PageFacts
       DEF Foreign, StepsStay, step_vars, count_vars, chrome_vars, Inv, TypeOK, Message,
          Request, Navs, Kinds, Waits, ChromeKnows, Started, Ends, Counted,
          Disturbance, Armed, Effect, Changed, IsAnswer, IsSent
<1>17. ASSUME NEW r \in reqs, Redirect(r)
      PROVE  TypeOK'
  <2>1. PICK new \in SUBSET Message :
        Effect({}, new) /\ \A e \in new : e.kind \in Kinds \ {"load"} /\ e.id # 0
    BY <1>17, RequestEffect DEF Inv
  <2>. QED BY <1>17, <2>1, NavigationAssumption, MessageFacts, PageFacts
       DEF Redirect, StepsStay, step_vars, count_vars, chrome_vars, Inv, TypeOK,
          Message, Request, Navs, Kinds, Waits, ChromeKnows, Started, Ends,
          Counted, Disturbance, Armed, Effect, Changed, IsAnswer, IsSent
<1>18. ASSUME Replace
      PROVE  TypeOK'
  <2>1. doc' \in Pages /\ fired' \subseteq Pages /\ ~alone'
    BY <1>18, PageFacts DEF Replace, Inv, TypeOK
  <2>. QED BY <1>18, <2>1 DEF Replace, StepsStay, step_vars, count_vars, Inv, TypeOK
<1>19. CASE UNCHANGED vars
  BY <1>19 DEF vars, Inv, TypeOK, Message, Request, Navs, Kinds, Waits,
     ChromeKnows, Started, Ends, Counted, Disturbance, Armed, step_vars, count_vars,
     chrome_vars
<1>. QED BY <1>1, <1>2, <1>3, <1>4, <1>5, <1>6, <1>7, <1>8, <1>9, <1>10, <1>11, <1>12,
     <1>13, <1>14, <1>15, <1>16, <1>17, <1>18, <1>19 DEF Next, NavigateStep, ChromeStep,
     ReadEvent

\* The handlers there are go with where the step is.
LEMMA HandlersNext ==
    ASSUME Inv, [Next]_vars
    PROVE  HandlersGone'
<1>1. ASSUME NEW i \in DOMAIN inbox, Read(i)
      PROVE  HandlersGone'
  BY <1>1
  DEF Read, Handled, step_vars, chrome_vars, Inv, HandlersGone, Waits, Armed, TypeOK
<1>2. ASSUME Enabled
      PROVE  HandlersGone'
  BY <1>2
  DEF Enabled, Answered, StartNavigation, Ask, step_vars, count_vars, Inv, HandlersGone,
     Waits, Armed, TypeOK
<1>3. ASSUME NetEnabled
      PROVE  HandlersGone'
  BY <1>3
  DEF NetEnabled, Answered, step_vars, count_vars, chrome_vars, Inv, HandlersGone,
     Waits, Armed, TypeOK
<1>4. ASSUME Track
      PROVE  HandlersGone'
  BY <1>4
  DEF Track, StartNavigation, Ask, step_vars, count_vars, chrome_vars, Inv, HandlersGone,
     Waits, Armed, TypeOK
<1>5. ASSUME Navigated
      PROVE  HandlersGone'
  BY <1>5
  DEF Navigated, Answered, Returns, Unregistered, step_vars, count_vars, chrome_vars,
     Inv, HandlersGone, Waits, Armed, TypeOK
<1>6. ASSUME AfterLoad
      PROVE  HandlersGone'
  BY <1>6, NavigationAssumption
  DEF AfterLoad, Loaded, GivesUp, Returns, Unregistered, step_vars, count_vars,
     chrome_vars, Inv,
     HandlersGone, Waits, Armed, TypeOK, ChromeKnows
<1>7. ASSUME IdleEnds
      PROVE  HandlersGone'
  BY <1>7
  DEF IdleEnds, Returns, Unregistered, step_vars, count_vars, chrome_vars, Inv,
     HandlersGone,
     Waits, Armed, TypeOK
<1>8. ASSUME QuietExpires
      PROVE  HandlersGone'
  BY <1>8
  DEF QuietExpires, Returns, Unregistered, step_vars, count_vars, chrome_vars, Inv,
     HandlersGone,
     Waits, Armed, TypeOK
<1>9. ASSUME Rest
      PROVE  HandlersGone'
  BY <1>9
  DEF Rest, step_vars, chrome_vars, Inv, HandlersGone, Waits, Armed, TypeOK
<1>10. ASSUME Commit
      PROVE  HandlersGone'
  BY <1>10
  DEF Commit, StepsStay, step_vars, count_vars, Inv, HandlersGone, Waits, Armed, TypeOK
<1>11. ASSUME Load
      PROVE  HandlersGone'
  BY <1>11
  DEF Load, StepsStay, step_vars, count_vars, Inv, HandlersGone, Waits, Armed, TypeOK
<1>12. ASSUME NEW r \in reqs, EndRequest(r)
      PROVE  HandlersGone'
  BY <1>12
  DEF EndRequest, StepsStay, step_vars, count_vars, Inv, HandlersGone, Waits, Armed,
     TypeOK
<1>13. ASSUME Begin
      PROVE  HandlersGone'
  BY <1>13
  DEF Begin, chrome_vars, Inv, HandlersGone, Waits, Armed, TypeOK
<1>14. ASSUME Fails
      PROVE  HandlersGone'
  BY <1>14
  DEF Fails, Returns, Unregistered, step_vars, count_vars, chrome_vars, Inv,
     HandlersGone, Waits,
     Armed, TypeOK
<1>15. ASSUME AskMore
      PROVE  HandlersGone'
  BY <1>15
  DEF AskMore, Ask, StepsStay, step_vars, count_vars, Inv, HandlersGone, Waits, Armed,
     TypeOK
<1>16. ASSUME Foreign
      PROVE  HandlersGone'
  BY <1>16
  DEF Foreign, StepsStay, step_vars, count_vars, chrome_vars, Inv, HandlersGone, Waits,
     Armed, TypeOK
<1>17. ASSUME NEW r \in reqs, Redirect(r)
      PROVE  HandlersGone'
  BY <1>17
  DEF Redirect, StepsStay, step_vars, count_vars, chrome_vars, Inv, HandlersGone, Waits,
     Armed, TypeOK
<1>18. ASSUME Replace
      PROVE  HandlersGone'
  BY <1>18
  DEF Replace, StepsStay, step_vars, count_vars, Inv, HandlersGone
<1>19. CASE UNCHANGED vars
  BY <1>19 DEF vars, Inv, HandlersGone, Waits, Armed, TypeOK, step_vars, count_vars,
     chrome_vars
<1>. QED BY <1>1, <1>2, <1>3, <1>4, <1>5, <1>6, <1>7, <1>8, <1>9, <1>10, <1>11, <1>12,
     <1>13, <1>14, <1>15, <1>16, <1>17, <1>18, <1>19 DEF Next, NavigateStep, ChromeStep,
     ReadEvent

\* Chrome knows of no navigation that has not been asked for.
LEMMA ChromeNext ==
    ASSUME Inv, TypeOK', [Next]_vars
    PROVE  ChromeKnows'
<1>1. ASSUME NEW i \in DOMAIN inbox, Read(i)
      PROVE  ChromeKnows'
  BY <1>1, NavigationAssumption, PageFacts
  DEF Read, Handled, step_vars, chrome_vars, Inv, TypeOK, Request, Navs, ChromeKnows,
     Known, Started, Waits
<1>2. ASSUME Enabled
      PROVE  ChromeKnows'
  <2>1. cur \in 1..MaxNav /\ Started = cur - 1
    BY <1>2 DEF Enabled, Inv, TypeOK, ChromeKnows, Known, Started
  <2>2. CASE mode = "networkidle"
    BY <1>2, <2>1, <2>2 DEF Enabled, Answered, StartNavigation, Ask, step_vars,
       count_vars,
       Inv, ChromeKnows, Known, Started
  <2>3. CASE mode # "networkidle"
    <3>1. /\ Started' = cur /\ target' = cur
          /\ UNCHANGED <<doc, fired>>
      BY <1>2, <2>3 DEF Enabled, Answered, StartNavigation, Ask, step_vars, count_vars,
         Started
    <3>. QED BY <1>2, <2>1, <3>1, NavigationAssumption, PageFacts DEF Enabled, Answered,
         StartNavigation, Ask, step_vars, count_vars, Inv, TypeOK, ChromeKnows, Known, Navs
  <2>. QED BY <2>2, <2>3
<1>3. ASSUME NetEnabled
      PROVE  ChromeKnows'
  BY <1>3, NavigationAssumption, PageFacts
  DEF NetEnabled, Answered, step_vars, count_vars, chrome_vars, Inv, TypeOK, Request,
     Navs, ChromeKnows, Known, Started, Waits
<1>4. ASSUME Track
      PROVE  ChromeKnows'
  <2>1. cur \in 1..MaxNav /\ Started = cur - 1
    BY <1>4 DEF Track, Inv, TypeOK, ChromeKnows, Known, Started
  <2>2. CASE "finished" \notin reg
    BY <1>4, <2>1, <2>2 DEF Track, StartNavigation, Ask, step_vars, count_vars,
       chrome_vars,
       Inv, ChromeKnows, Known, Started
  <2>3. CASE "finished" \in reg
    <3>1. /\ Started' = cur /\ target' = cur
          /\ UNCHANGED <<doc, fired>>
      BY <1>4, <2>3 DEF Track, StartNavigation, Ask, step_vars, count_vars, chrome_vars,
         Started
    <3>. QED BY <1>4, <2>1, <3>1, NavigationAssumption, PageFacts DEF Track,
         StartNavigation, Ask,
         step_vars, count_vars, chrome_vars, Inv, TypeOK, ChromeKnows, Known, Navs
  <2>. QED BY <2>2, <2>3
<1>5. ASSUME Navigated
      PROVE  ChromeKnows'
  BY <1>5, NavigationAssumption, PageFacts
  DEF Navigated, Answered, Returns, Unregistered, step_vars, count_vars, chrome_vars,
     Inv, TypeOK, Request, Navs, ChromeKnows, Known, Started, Waits
<1>6. ASSUME AfterLoad
      PROVE  ChromeKnows'
  BY <1>6, NavigationAssumption, PageFacts
  DEF AfterLoad, Loaded, GivesUp, Returns, Unregistered, step_vars, count_vars,
     chrome_vars, Inv,
     TypeOK, Request, Navs, ChromeKnows, Known, Started, Waits
<1>7. ASSUME IdleEnds
      PROVE  ChromeKnows'
  BY <1>7, NavigationAssumption, PageFacts
  DEF IdleEnds, Returns, Unregistered, step_vars, count_vars, chrome_vars, Inv, TypeOK,
     Request,
     Navs, ChromeKnows, Known, Started, Waits
<1>8. ASSUME QuietExpires
      PROVE  ChromeKnows'
  BY <1>8, NavigationAssumption, PageFacts
  DEF QuietExpires, Returns, Unregistered, step_vars, count_vars, chrome_vars, Inv,
     TypeOK,
     Request, Navs, ChromeKnows, Known, Started, Waits
<1>9. ASSUME Rest
      PROVE  ChromeKnows'
  BY <1>9, NavigationAssumption, PageFacts
  DEF Rest, step_vars, chrome_vars, Inv, TypeOK, Request, Navs, ChromeKnows, Known,
     Started,
     Waits
<1>10. ASSUME Commit
      PROVE  ChromeKnows'
  BY <1>10, NavigationAssumption, PageFacts
  DEF Commit, StepsStay, step_vars, count_vars, Inv, TypeOK, Request, Navs, ChromeKnows,
     Known, Started, Waits
<1>11. ASSUME Load
      PROVE  ChromeKnows'
  BY <1>11, NavigationAssumption, PageFacts
  DEF Load, StepsStay, step_vars, count_vars, Inv, TypeOK, Request, Navs, ChromeKnows,
     Known, Started, Waits
<1>12. ASSUME NEW r \in reqs, EndRequest(r)
      PROVE  ChromeKnows'
  BY <1>12, NavigationAssumption, PageFacts
  DEF EndRequest, StepsStay, step_vars, count_vars, Inv, TypeOK, Request, Navs,
     ChromeKnows, Known, Started, Waits
<1>13. ASSUME Begin
      PROVE  ChromeKnows'
  BY <1>13, NavigationAssumption, PageFacts
  DEF Begin, chrome_vars, Inv, TypeOK, Request, Navs, ChromeKnows, Known, Started, Waits
<1>14. ASSUME Fails
      PROVE  ChromeKnows'
  BY <1>14, NavigationAssumption, PageFacts
  DEF Fails, Returns, Unregistered, step_vars, count_vars, chrome_vars, Inv, TypeOK,
     Request, Navs,
     ChromeKnows, Known, Started, Waits
<1>15. ASSUME AskMore
      PROVE  ChromeKnows'
  BY <1>15, NavigationAssumption, PageFacts
  DEF AskMore, Ask, StepsStay, step_vars, count_vars, Inv, TypeOK, Request, Navs,
     ChromeKnows, Known, Started, Waits
<1>16. ASSUME Foreign
      PROVE  ChromeKnows'
  BY <1>16, NavigationAssumption, PageFacts
  DEF Foreign, StepsStay, step_vars, count_vars, chrome_vars, Inv, TypeOK, Request,
     Navs, ChromeKnows, Known, Started, Waits
<1>17. ASSUME NEW r \in reqs, Redirect(r)
      PROVE  ChromeKnows'
  BY <1>17, NavigationAssumption, PageFacts
  DEF Redirect, StepsStay, step_vars, count_vars, chrome_vars, Inv, TypeOK, Request,
     Navs, ChromeKnows, Known, Started, Waits
<1>18. ASSUME Replace
      PROVE  ChromeKnows'
  <2>1. UNCHANGED <<pc, cur, mode, target, made>> /\ Started' = Started /\ Known' = Known
    BY <1>18 DEF Replace, StepsStay, step_vars, Started, Known
  <2>2. PICK p \in Others : doc' = p /\ fired' \subseteq fired \cup {p}
    BY <1>18 DEF Replace
  <2>3. p \in Known /\ target \notin Others
    BY PageFacts DEF Known, Inv, TypeOK
  <2>. QED BY <2>1, <2>2, <2>3 DEF Inv, ChromeKnows
<1>19. CASE UNCHANGED vars
  BY <1>19 DEF vars, Inv, TypeOK, Request, Navs, ChromeKnows, Known, Started, Waits,
     step_vars,
     count_vars, chrome_vars
<1>. QED BY <1>1, <1>2, <1>3, <1>4, <1>5, <1>6, <1>7, <1>8, <1>9, <1>10, <1>11, <1>12,
     <1>13, <1>14, <1>15, <1>16, <1>17, <1>18, <1>19 DEF Next, NavigateStep, ChromeStep,
     ReadEvent

\* Every request that is announced has an id.
LEMMA SentNext ==
    ASSUME Inv, [Next]_vars
    PROVE  SentHaveIds'
<1>1. ASSUME NEW i \in DOMAIN inbox, Read(i)
      PROVE  SentHaveIds'
  <2>1. Effect({i}, {}) /\ inbox[i] \in Message /\ inbox[i].kind # "answer"
    BY <1>1, ReadEffect DEF Inv
  <2>. QED BY <2>1, IdsKept DEF Inv, Kinds, IsAnswer, IsSent
<1>2. ASSUME Enabled
      PROVE  SentHaveIds'
  <2>1. PICK new \in SUBSET Message :
        /\ 1 \in DOMAIN inbox /\ IsAnswer(inbox[1]) /\ Effect({1}, new)
        /\ \A e \in new : IF mode = "networkidle" THEN IsAnswer(e) ELSE IsSent(e)
    BY <1>2, EnabledEffect DEF Inv
  <2>. QED BY <2>1, IdsKept DEF Inv, Kinds, IsAnswer, IsSent
<1>3. ASSUME NetEnabled
      PROVE  SentHaveIds'
  <2>1. Effect({1}, {}) /\ 1 \in DOMAIN inbox /\ IsAnswer(inbox[1])
    BY <1>3, AnswerEffect DEF Inv, NetEnabled
  <2>. QED BY <2>1, IdsKept DEF Inv, Kinds, IsAnswer, IsSent
<1>4. ASSUME Track
      PROVE  SentHaveIds'
  <2>1. PICK new \in SUBSET Message : Effect({}, new) /\ \A e \in new : IsSent(e)
    BY <1>4, TrackEffect DEF Inv
  <2>. QED BY <2>1, IdsKept DEF Inv, Kinds, IsAnswer, IsSent
<1>5. ASSUME Navigated
      PROVE  SentHaveIds'
  <2>1. Effect({1}, {}) /\ 1 \in DOMAIN inbox /\ IsAnswer(inbox[1])
    BY <1>5, AnswerEffect DEF Inv, Navigated
  <2>. QED BY <2>1, IdsKept DEF Inv, Kinds, IsAnswer, IsSent
<1>6. ASSUME AfterLoad
      PROVE  SentHaveIds'
  BY <1>6
  DEF AfterLoad, Loaded, GivesUp, Returns, Unregistered, step_vars, count_vars,
     chrome_vars, Inv,
     SentHaveIds
<1>7. ASSUME IdleEnds
      PROVE  SentHaveIds'
  BY <1>7
  DEF IdleEnds, Returns, Unregistered, step_vars, count_vars, chrome_vars, Inv,
     SentHaveIds
<1>8. ASSUME QuietExpires
      PROVE  SentHaveIds'
  BY <1>8
  DEF QuietExpires, Returns, Unregistered, step_vars, count_vars, chrome_vars, Inv,
     SentHaveIds
<1>9. ASSUME Rest
      PROVE  SentHaveIds'
  BY <1>9
  DEF Rest, step_vars, chrome_vars, Inv, SentHaveIds
<1>10. ASSUME Commit
      PROVE  SentHaveIds'
  <2>1. PICK new \in SUBSET Message :
        /\ Effect({}, new) /\ \A e \in new : IsAnswer(e)
        /\ new # {} => target = cur /\ pc = "navigate"
    BY <1>10, CommitEffect DEF Inv
  <2>. QED BY <2>1, IdsKept DEF Inv, Kinds, IsAnswer, IsSent
<1>11. ASSUME Load
      PROVE  SentHaveIds'
  <2>1. PICK new \in SUBSET Message :
        /\ Effect({}, new) /\ new # {} /\ \A e \in new : e.kind = "load" /\ e.nav = doc
    BY <1>11, LoadEffect DEF Inv
  <2>. QED BY <2>1, IdsKept DEF Inv, Kinds, IsAnswer, IsSent
<1>12. ASSUME NEW r \in reqs, EndRequest(r)
      PROVE  SentHaveIds'
  <2>1. PICK new \in SUBSET Message :
        Effect({}, new) /\ \A e \in new : e.kind \in Kinds \ {"load"} /\ e.id # 0
    BY <1>12, RequestEffect DEF Inv
  <2>. QED BY <2>1, IdsKept DEF Inv, Kinds, IsAnswer, IsSent
<1>13. ASSUME Begin
      PROVE  SentHaveIds'
  <2>1. PICK new \in SUBSET Message : Effect({}, new) /\ \A e \in new : IsAnswer(e)
    BY <1>13, BeginEffect DEF Inv
  <2>. QED BY <2>1, IdsKept DEF Inv, Kinds, IsAnswer, IsSent
<1>14. ASSUME Fails
      PROVE  SentHaveIds'
  <2>1. PICK gone \in SUBSET DOMAIN inbox :
        Effect(gone, {}) /\ \A i \in DOMAIN inbox : IsAnswer(inbox[i]) <=> i \in gone
    BY <1>14, FailsEffect DEF Inv
  <2>. QED BY <2>1, IdsKept DEF Inv, Kinds, IsAnswer, IsSent
<1>15. ASSUME AskMore
      PROVE  SentHaveIds'
  <2>1. PICK new \in SUBSET Message :
        Effect({}, new) /\ \A e \in new : e.kind \in Kinds \ {"load"} /\ e.id # 0
    BY <1>15, RequestEffect DEF Inv
  <2>. QED BY <2>1, IdsKept DEF Inv, Kinds, IsAnswer, IsSent
<1>16. ASSUME Foreign
      PROVE  SentHaveIds'
  <2>1. PICK new \in SUBSET Message :
        /\ Effect({}, new)
        /\ \A e \in new : e.kind \in {"load", "finished"} /\ e.nav = Elsewhere
    BY <1>16, ForeignEffect DEF Inv
  <2>. QED BY <2>1, IdsKept DEF Inv, Kinds, IsAnswer, IsSent
<1>17. ASSUME NEW r \in reqs, Redirect(r)
      PROVE  SentHaveIds'
  <2>1. PICK new \in SUBSET Message :
        Effect({}, new) /\ \A e \in new : e.kind \in Kinds \ {"load"} /\ e.id # 0
    BY <1>17, RequestEffect DEF Inv
  <2>. QED BY <2>1, IdsKept DEF Inv, Kinds, IsAnswer, IsSent
<1>18. ASSUME Replace
      PROVE  SentHaveIds'
  BY <1>18 DEF Replace, Inv, SentHaveIds
<1>19. CASE UNCHANGED vars
  BY <1>19 DEF vars, Inv, SentHaveIds, step_vars, count_vars, chrome_vars
<1>. QED BY <1>1, <1>2, <1>3, <1>4, <1>5, <1>6, <1>7, <1>8, <1>9, <1>10, <1>11, <1>12,
     <1>13, <1>14, <1>15, <1>16, <1>17, <1>18, <1>19 DEF Next, NavigateStep, ChromeStep,
     ReadEvent

\* A command is answered once, and its answer does not outlive the wait for it.
LEMMA AnswerNext ==
    ASSUME Inv, TypeOK', [Next]_vars
    PROVE  OneAnswer'
<1>1. ASSUME NEW i \in DOMAIN inbox, Read(i)
      PROVE  OneAnswer'
  <2>1. Effect({i}, {}) /\ inbox[i] \in Message /\ inbox[i].kind # "answer"
    BY <1>1, ReadEffect DEF Inv
  <2>2. AnswersApart' /\ (AnswerComing' => AnswerComing)
    BY <2>1, AnswersKept DEF Inv, OneAnswer, IsAnswer, IsSent, Kinds
  <2>. QED BY <1>1, <2>2 DEF Read, Handled, step_vars, chrome_vars, Inv, OneAnswer,
       Waits, TypeOK
<1>2. ASSUME Enabled
      PROVE  OneAnswer'
  <2>1. PICK new \in SUBSET Message :
        /\ 1 \in DOMAIN inbox /\ IsAnswer(inbox[1]) /\ Effect({1}, new)
        /\ \A e \in new : IF mode = "networkidle" THEN IsAnswer(e) ELSE IsSent(e)
    BY <1>2, EnabledEffect DEF Inv
  <2>2. AnswersApart'
    BY <2>1, AnswerSent DEF Inv, OneAnswer
  <2>3. mode # "networkidle" => ~AnswerComing'
    BY <2>1, AnswersKept DEF Inv, OneAnswer, IsAnswer, IsSent
  <2>. QED BY <1>2, <2>2, <2>3 DEF Enabled, Answered, StartNavigation, Ask, step_vars,
       count_vars, Inv, OneAnswer, Waits
<1>3. ASSUME NetEnabled
      PROVE  OneAnswer'
  <2>1. Effect({1}, {}) /\ 1 \in DOMAIN inbox /\ IsAnswer(inbox[1])
    BY <1>3, AnswerEffect DEF Inv, NetEnabled
  <2>2. AnswersApart' /\ ~AnswerComing'
    BY <2>1, AnswersKept DEF Inv, OneAnswer, IsAnswer, IsSent, Kinds, AnswerComing
  <2>. QED BY <1>3, <2>2 DEF NetEnabled, Answered, step_vars, count_vars, chrome_vars,
       Inv, OneAnswer, Waits, TypeOK
<1>4. ASSUME Track
      PROVE  OneAnswer'
  <2>1. PICK new \in SUBSET Message : Effect({}, new) /\ \A e \in new : IsSent(e)
    BY <1>4, TrackEffect DEF Inv
  <2>2. AnswersApart' /\ (AnswerComing' => AnswerComing)
    BY <2>1, AnswersKept DEF Inv, OneAnswer, IsAnswer, IsSent, Kinds
  <2>. QED BY <1>4, <2>2 DEF Track, StartNavigation, Ask, step_vars, count_vars,
       chrome_vars,
       Inv, OneAnswer, Waits, TypeOK
<1>5. ASSUME Navigated
      PROVE  OneAnswer'
  <2>1. Effect({1}, {}) /\ 1 \in DOMAIN inbox /\ IsAnswer(inbox[1])
    BY <1>5, AnswerEffect DEF Inv, Navigated
  <2>2. AnswersApart' /\ ~AnswerComing'
    BY <2>1, AnswersKept DEF Inv, OneAnswer, IsAnswer, IsSent, Kinds, AnswerComing
  <2>. QED BY <1>5, <2>2 DEF Navigated, Answered, Returns, Unregistered, step_vars,
       count_vars, chrome_vars, Inv, OneAnswer, Waits, TypeOK
<1>6. ASSUME AfterLoad
      PROVE  OneAnswer'
  BY <1>6, NavigationAssumption
  DEF AfterLoad, Loaded, GivesUp, Returns, Unregistered, step_vars, count_vars,
     chrome_vars, Inv,
     OneAnswer, AnswerComing, AnswersApart, Waits, TypeOK, Started, ChromeKnows
<1>7. ASSUME IdleEnds
      PROVE  OneAnswer'
  BY <1>7, NavigationAssumption
  DEF IdleEnds, Returns, Unregistered, step_vars, count_vars, chrome_vars, Inv, OneAnswer,
     AnswerComing, AnswersApart, Waits, TypeOK, Started, ChromeKnows
<1>8. ASSUME QuietExpires
      PROVE  OneAnswer'
  BY <1>8, NavigationAssumption
  DEF QuietExpires, Returns, Unregistered, step_vars, count_vars, chrome_vars, Inv,
     OneAnswer,
     AnswerComing, AnswersApart, Waits, TypeOK, Started, ChromeKnows
<1>9. ASSUME Rest
      PROVE  OneAnswer'
  BY <1>9, NavigationAssumption
  DEF Rest, step_vars, chrome_vars, Inv, OneAnswer, AnswerComing, AnswersApart, Waits,
     TypeOK, Started, ChromeKnows
<1>10. ASSUME Commit
      PROVE  OneAnswer'
  <2>1. PICK new \in SUBSET Message :
        /\ Effect({}, new) /\ \A e \in new : IsAnswer(e)
        /\ new # {} => target = cur /\ pc = "navigate"
    BY <1>10, CommitEffect DEF Inv
  <2>2. AnswersApart'
    <3>1. CASE new = {}
      BY <2>1, <3>1, AnswersKept DEF Inv, OneAnswer
    <3>2. CASE new # {}
      BY <2>1, <3>2, AnswerSent DEF Inv, OneAnswer
    <3>. QED BY <3>1, <3>2
  <2>3. new = {} => (AnswerComing' => AnswerComing)
    BY <2>1, AnswersKept DEF Inv, OneAnswer
  <2>. QED BY <1>10, <2>1, <2>2, <2>3, NavigationAssumption
       DEF Commit, StepsStay, step_vars, count_vars, Inv, OneAnswer, Waits, TypeOK,
          ChromeKnows, Started
<1>11. ASSUME Load
      PROVE  OneAnswer'
  <2>1. PICK new \in SUBSET Message :
        /\ Effect({}, new) /\ new # {} /\ \A e \in new : e.kind = "load" /\ e.nav = doc
    BY <1>11, LoadEffect DEF Inv
  <2>2. AnswersApart' /\ (AnswerComing' => AnswerComing)
    BY <2>1, AnswersKept DEF Inv, OneAnswer, IsAnswer, IsSent, Kinds
  <2>. QED BY <1>11, <2>2 DEF Load, StepsStay, step_vars, count_vars, Inv, OneAnswer,
       Waits, TypeOK
<1>12. ASSUME NEW r \in reqs, EndRequest(r)
      PROVE  OneAnswer'
  <2>1. PICK new \in SUBSET Message :
        Effect({}, new) /\ \A e \in new : e.kind \in Kinds \ {"load"} /\ e.id # 0
    BY <1>12, RequestEffect DEF Inv
  <2>2. AnswersApart' /\ (AnswerComing' => AnswerComing)
    BY <2>1, AnswersKept DEF Inv, OneAnswer, IsAnswer, IsSent, Kinds
  <2>. QED BY <1>12, <2>2 DEF EndRequest, StepsStay, step_vars, count_vars, Inv,
       OneAnswer, Waits, TypeOK
<1>13. ASSUME Begin
      PROVE  OneAnswer'
  <2>1. PICK new \in SUBSET Message : Effect({}, new) /\ \A e \in new : IsAnswer(e)
    BY <1>13, BeginEffect DEF Inv
  <2>2. AnswersApart'
    BY <1>13, <2>1, AnswerSent, NavigationAssumption DEF Inv, OneAnswer, Begin, Waits
  <2>. QED BY <1>13, <2>1, <2>2, NavigationAssumption
       DEF Begin, chrome_vars, Inv, OneAnswer, AnswerComing, AnswersApart, Waits,
          TypeOK, Started, ChromeKnows, Effect, Changed, IsAnswer, IsSent
<1>14. ASSUME Fails
      PROVE  OneAnswer'
  <2>1. PICK gone \in SUBSET DOMAIN inbox :
        Effect(gone, {}) /\ \A i \in DOMAIN inbox : IsAnswer(inbox[i]) <=> i \in gone
    BY <1>14, FailsEffect DEF Inv
  <2>2. AnswersApart' /\ ~AnswerComing'
    BY <2>1, AnswersKept DEF Inv, OneAnswer, IsAnswer, IsSent, Kinds, AnswerComing
  <2>. QED BY <1>14, <2>2 DEF Fails, Returns, Unregistered, step_vars, count_vars,
       chrome_vars,
       Inv, OneAnswer, Waits, TypeOK
<1>15. ASSUME AskMore
      PROVE  OneAnswer'
  <2>1. PICK new \in SUBSET Message :
        Effect({}, new) /\ \A e \in new : e.kind \in Kinds \ {"load"} /\ e.id # 0
    BY <1>15, RequestEffect DEF Inv
  <2>2. AnswersApart' /\ (AnswerComing' => AnswerComing)
    BY <2>1, AnswersKept DEF Inv, OneAnswer, IsAnswer, IsSent, Kinds
  <2>. QED BY <1>15, <2>2 DEF AskMore, Ask, StepsStay, step_vars, count_vars, Inv,
       OneAnswer,
       Waits, TypeOK
<1>16. ASSUME Foreign
      PROVE  OneAnswer'
  <2>1. PICK new \in SUBSET Message :
        /\ Effect({}, new)
        /\ \A e \in new : e.kind \in {"load", "finished"} /\ e.nav = Elsewhere
    BY <1>16, ForeignEffect DEF Inv
  <2>2. AnswersApart' /\ (AnswerComing' => AnswerComing)
    BY <2>1, AnswersKept DEF Inv, OneAnswer, IsAnswer, IsSent, Kinds
  <2>. QED BY <1>16, <2>2 DEF Foreign, StepsStay, step_vars, count_vars, chrome_vars,
       Inv, OneAnswer, Waits, TypeOK
<1>17. ASSUME NEW r \in reqs, Redirect(r)
      PROVE  OneAnswer'
  <2>1. PICK new \in SUBSET Message :
        Effect({}, new) /\ \A e \in new : e.kind \in Kinds \ {"load"} /\ e.id # 0
    BY <1>17, RequestEffect DEF Inv
  <2>2. AnswersApart' /\ (AnswerComing' => AnswerComing)
    BY <2>1, AnswersKept DEF Inv, OneAnswer, IsAnswer, IsSent, Kinds
  <2>. QED BY <1>17, <2>2 DEF Redirect, StepsStay, step_vars, count_vars, chrome_vars,
       Inv, OneAnswer, Waits, TypeOK
<1>18. ASSUME Replace
      PROVE  OneAnswer'
  BY <1>18
  DEF Replace, StepsStay, step_vars, count_vars, Inv, OneAnswer, AnswerComing,
     AnswersApart
<1>19. CASE UNCHANGED vars
  BY <1>19 DEF vars, Inv, OneAnswer, AnswerComing, AnswersApart, Waits, TypeOK, Started,
     ChromeKnows, step_vars, count_vars, chrome_vars
<1>. QED BY <1>1, <1>2, <1>3, <1>4, <1>5, <1>6, <1>7, <1>8, <1>9, <1>10, <1>11, <1>12,
     <1>13, <1>14, <1>15, <1>16, <1>17, <1>18, <1>19 DEF Next, NavigateStep, ChromeStep,
     ReadEvent

\* No load event is to come but those of other sessions.
LEMMA SettledIs ==
    Settled <=> /\ target = 0 /\ doc \in fired \cup {0}
                /\ \A n : LoadComing(n) => n = Elsewhere
  BY DEF Settled, LoadComing

LEMMA SettledNext ==
    Settled' <=> /\ target' = 0 /\ doc' \in fired' \cup {0}
                 /\ \A n : LoadComing(n)' => n = Elsewhere
  BY DEF Settled, LoadComing

\* A step that shows no page and has nothing to do with load events changes nothing here.
LEMMA LoadsStay ==
    ASSUME LoadsOnce, LoadIsOwn, LoadsApart',
           \A n : n # Elsewhere => (LoadComing(n)' <=> LoadComing(n)),
           UNCHANGED <<cur, loadedBy, target, doc, fired, alone>>,
           pc' = "enable" => pc = "enable"
    PROVE  LoadsOnce' /\ LoadIsOwn'
<1>1. Settled => Settled'
  BY SettledIs, SettledNext
<1>2. NoOther'
  BY PageFacts DEF LoadsOnce, NoOther
<1>. QED BY <1>1, <1>2 DEF LoadsOnce, LoadIsOwn

\* A load event is sent once; one that ends the wait is of the page navigated to, or
\* something else was shown.
LEMMA LoadsNext ==
    ASSUME Inv, LoadIsOwn, TypeOK', [Next]_vars
    PROVE  LoadsOnce' /\ LoadIsOwn'
<1>1. ASSUME NEW i \in DOMAIN inbox, Read(i)
      PROVE  LoadsOnce' /\ LoadIsOwn'
  <2> DEFINE n == inbox[i].nav
  <2>1. Effect({i}, {}) /\ inbox[i] \in Message /\ inbox[i].kind # "answer"
    BY <1>1, ReadEffect DEF Inv
  <2>2. LoadsApart'
    <3>1. fired' = fired
      BY <1>1 DEF Read, chrome_vars
    <3>. QED BY <2>1, <3>1, LoadsLeft DEF Inv, LoadsOnce
  <2>3. \A m : LoadComing(m)' => LoadComing(m)
    BY <2>1 DEF Effect, Changed, LoadComing
  <2>4. n \in Pages \cup {Elsewhere}
    BY <2>1, MessageFacts
  <2>5. /\ UNCHANGED <<cur, pc, target, doc, fired, alone>>
        /\ \/ loadedBy' = loadedBy
           \/ /\ loadedBy = 0 /\ loadedBy' = n
              /\ inbox[i].kind = "load" /\ n # Elsewhere /\ "load" \in reg
    BY <1>1 DEF Read, Handled, step_vars, chrome_vars
  <2>6. NoOther'
    BY <2>3, <2>5 DEF Inv, LoadsOnce, NoOther, HandlersGone
  <2>7. CASE loadedBy' = loadedBy
    <3>1. Settled => Settled'
      BY <2>3, <2>5, SettledIs, SettledNext
    <3>. QED BY <2>2, <2>5, <2>6, <2>7, <3>1 DEF LoadsOnce, LoadIsOwn
  <2>8. CASE loadedBy' # loadedBy /\ alone
    <3>1. n \in Pages /\ inbox[i].kind = "load" /\ LoadComing(n) /\ n \in fired
      BY <2>4, <2>5, <2>8 DEF Inv, LoadsOnce, LoadsApart, LoadComing
    <3>2. n = cur /\ cur # 0
      BY <2>8, <3>1, PageFacts DEF Inv, LoadsOnce, NoOther
    <3>3. target = 0 /\ doc \in fired \cup {0}
      BY <2>8, <3>1, <3>2 DEF Inv, LoadsOnce, NoOther, ChromeKnows
    <3>4. ASSUME NEW k \in DOMAIN inbox',
                 inbox'[k].kind = "load", inbox'[k].nav # Elsewhere
          PROVE  FALSE
      <4>1. PICK l \in DOMAIN inbox \ {i} : inbox'[k] = inbox[l]
        BY <2>1 DEF Effect, Changed
      <4>2. inbox[l] \in Message
        BY DEF Inv, TypeOK, Message
      <4>3. inbox[l].kind = "load" /\ inbox[l].nav \in Pages
        BY <3>4, <4>1, <4>2, MessageFacts DEF Kinds
      <4>4. LoadComing(inbox[l].nav)
        BY <4>3 DEF LoadComing
      <4>5. inbox[l].nav = n
        BY <2>8, <3>2, <4>3, <4>4 DEF Inv, LoadsOnce, NoOther
      <4>. QED BY <3>1, <4>1, <4>3, <4>5 DEF Inv, LoadsOnce, LoadsApart
    <3>5. Settled'
      BY <2>5, <3>3, <3>4 DEF Settled
    <3>. QED BY <2>2, <2>5, <2>6, <2>8, <3>1, <3>2, <3>5 DEF LoadsOnce, LoadIsOwn
  <2>. QED BY <2>2, <2>5, <2>6, <2>7, <2>8 DEF LoadsOnce, LoadIsOwn
<1>2. ASSUME Enabled
      PROVE  LoadsOnce' /\ LoadIsOwn'
  <2>1. PICK new \in SUBSET Message :
        /\ 1 \in DOMAIN inbox /\ IsAnswer(inbox[1]) /\ Effect({1}, new)
        /\ \A e \in new : IF mode = "networkidle" THEN IsAnswer(e) ELSE IsSent(e)
    BY <1>2, EnabledEffect DEF Inv
  <2>2. fired' = fired
    BY <1>2 DEF Enabled, StartNavigation, Ask
  <2>3. LoadsApart' /\ \A n : LoadComing(n)' <=> LoadComing(n)
    BY <2>1, <2>2, LoadsKept DEF Inv, LoadsOnce, IsAnswer, IsSent
  <2>4. loadedBy' = 0
    BY <1>2 DEF Enabled, count_vars, Inv, LoadsOnce, NoOther
  <2>5. alone' = Settled /\ target' \in {target, cur} /\ doc' = doc /\ cur' = cur
    BY <1>2 DEF Enabled, StartNavigation, Ask, step_vars
  <2>6. NoOther'
    BY <2>2, <2>3, <2>4, <2>5, SettledIs, PageFacts DEF NoOther
  <2>. QED BY <2>3, <2>4, <2>6 DEF LoadsOnce, LoadIsOwn
<1>3. ASSUME NetEnabled
      PROVE  LoadsOnce' /\ LoadIsOwn'
  <2>1. Effect({1}, {}) /\ 1 \in DOMAIN inbox /\ IsAnswer(inbox[1])
    BY <1>3, AnswerEffect DEF Inv, NetEnabled
  <2>2. LoadsApart' /\ \A n : LoadComing(n)' <=> LoadComing(n)
    BY <1>3, <2>1, LoadsKept
    DEF NetEnabled, Answered, step_vars, count_vars, chrome_vars, Inv, LoadsOnce,
       IsAnswer, IsSent, Kinds
  <2>. QED BY <1>3, <2>2, LoadsStay DEF NetEnabled, Answered, step_vars, count_vars,
       chrome_vars, Inv, Waits
<1>4. ASSUME Track
      PROVE  LoadsOnce' /\ LoadIsOwn'
  <2>1. PICK new \in SUBSET Message : Effect({}, new) /\ \A e \in new : IsSent(e)
    BY <1>4, TrackEffect DEF Inv
  <2>2. UNCHANGED <<cur, loadedBy, doc, fired, alone>> /\ target' \in {target, cur}
    BY <1>4 DEF Track, StartNavigation, Ask, step_vars, count_vars, chrome_vars
  <2>3. LoadsApart' /\ \A n : LoadComing(n)' <=> LoadComing(n)
    BY <2>1, <2>2, LoadsKept DEF Inv, LoadsOnce, IsSent
  <2>4. cur \in Navs /\ cur \notin fired
    BY <1>4, PageFacts, NavigationAssumption
    DEF Track, Inv, TypeOK, ChromeKnows, Known, Started, Navs
  <2>5. alone => loadedBy = 0
    BY <2>4 DEF LoadIsOwn
  <2>6. NoOther'
    BY <1>4, <2>2, <2>3 DEF Track, Inv, LoadsOnce, NoOther
  <2>. QED BY <2>2, <2>3, <2>5, <2>6 DEF LoadsOnce, LoadIsOwn
<1>5. ASSUME Navigated
      PROVE  LoadsOnce' /\ LoadIsOwn'
  <2>1. Effect({1}, {}) /\ 1 \in DOMAIN inbox /\ IsAnswer(inbox[1])
    BY <1>5, AnswerEffect DEF Inv, Navigated
  <2>2. LoadsApart' /\ \A n : LoadComing(n)' <=> LoadComing(n)
    BY <1>5, <2>1, LoadsKept
    DEF Navigated, Answered, Returns, Unregistered, step_vars, count_vars, chrome_vars,
       Inv, LoadsOnce, IsAnswer, IsSent, Kinds
  <2>. QED BY <1>5, <2>2, LoadsStay DEF Navigated, Answered, Returns, Unregistered,
       step_vars, count_vars, chrome_vars, Inv, Waits
<1>6. ASSUME AfterLoad
      PROVE  LoadsOnce' /\ LoadIsOwn'
  <2>1. LoadsApart' /\ \A n : LoadComing(n)' <=> LoadComing(n)
    BY <1>6 DEF AfterLoad, Loaded, GivesUp, Returns, Unregistered, step_vars,
       count_vars, chrome_vars, Inv, LoadsOnce, LoadsApart, LoadComing
  <2>. QED BY <1>6, <2>1, LoadsStay DEF AfterLoad, Loaded, GivesUp, Returns,
       Unregistered, step_vars, count_vars, chrome_vars, Inv, Waits
<1>7. ASSUME IdleEnds
      PROVE  LoadsOnce' /\ LoadIsOwn'
  <2>1. LoadsApart' /\ \A n : LoadComing(n)' <=> LoadComing(n)
    BY <1>7 DEF IdleEnds, Returns, Unregistered, step_vars, count_vars, chrome_vars,
       Inv, LoadsOnce, LoadsApart, LoadComing
  <2>. QED BY <1>7, <2>1, LoadsStay DEF IdleEnds, Returns, Unregistered, step_vars,
       count_vars, chrome_vars, Inv, Waits
<1>8. ASSUME QuietExpires
      PROVE  LoadsOnce' /\ LoadIsOwn'
  <2>1. LoadsApart' /\ \A n : LoadComing(n)' <=> LoadComing(n)
    BY <1>8 DEF QuietExpires, Returns, Unregistered, step_vars, count_vars, chrome_vars,
       Inv, LoadsOnce, LoadsApart, LoadComing
  <2>. QED BY <1>8, <2>1, LoadsStay DEF QuietExpires, Returns, Unregistered, step_vars,
       count_vars, chrome_vars, Inv, Waits
<1>9. ASSUME Rest
      PROVE  LoadsOnce' /\ LoadIsOwn'
  <2>1. LoadsApart' /\ \A n : LoadComing(n)' <=> LoadComing(n)
    BY <1>9 DEF Rest, step_vars, chrome_vars, Inv, LoadsOnce, LoadsApart, LoadComing
  <2>. QED BY <1>9, <2>1, LoadsStay DEF Rest, step_vars, chrome_vars, Inv, Waits
<1>10. ASSUME Commit
      PROVE  LoadsOnce' /\ LoadIsOwn'
  <2>1. PICK new \in SUBSET Message :
        /\ Effect({}, new) /\ \A e \in new : IsAnswer(e)
        /\ new # {} => target = cur /\ pc = "navigate"
    BY <1>10, CommitEffect DEF Inv
  <2>2. /\ UNCHANGED <<cur, pc, loadedBy, fired, alone>>
        /\ target # 0 /\ target' = 0 /\ doc' \in {doc, target}
    BY <1>10 DEF Commit, StepsStay, step_vars, count_vars
  <2>3. LoadsApart' /\ \A n : LoadComing(n)' <=> LoadComing(n)
    BY <2>1, <2>2, LoadsKept DEF Inv, LoadsOnce, IsAnswer
  <2>4. alone => loadedBy = 0
    BY <2>2 DEF LoadIsOwn, Settled
  <2>5. NoOther'
    BY <2>2, <2>3 DEF Inv, LoadsOnce, NoOther
  <2>. QED BY <2>2, <2>3, <2>4, <2>5 DEF LoadsOnce, LoadIsOwn
<1>11. ASSUME Load
      PROVE  LoadsOnce' /\ LoadIsOwn'
  <2>1. PICK new \in SUBSET Message :
        /\ Effect({}, new) /\ new # {} /\ \A e \in new : e.kind = "load" /\ e.nav = doc
    BY <1>11, LoadEffect DEF Inv
  <2>2. /\ UNCHANGED <<cur, pc, loadedBy, target, doc, alone>>
        /\ doc # 0 /\ doc \notin fired /\ fired' = fired \cup {doc}
    BY <1>11 DEF Load, StepsStay, step_vars, count_vars
  <2>3. LoadsApart'
    <3> SUFFICES ASSUME NEW i \in DOMAIN inbox', inbox'[i].kind = "load",
                        inbox'[i].nav \in Pages
                 PROVE  /\ inbox'[i].nav \in fired'
                        /\ \A j \in DOMAIN inbox' : inbox'[j].kind = "load"
                             /\ inbox'[j].nav = inbox'[i].nav => i = j
      BY DEF LoadsApart
    <3>1. ASSUME NEW k \in DOMAIN inbox, inbox[k].kind = "load", doc \in Pages
          PROVE  inbox[k].nav # doc
      BY <2>2, <3>1 DEF Inv, LoadsOnce, LoadsApart
    <3>2. inbox'[i].nav \in fired'
      BY <2>1, <2>2 DEF Inv, LoadsOnce, LoadsApart, Effect, Changed
    <3>3. ASSUME NEW j \in DOMAIN inbox', inbox'[j].kind = "load",
                 inbox'[j].nav = inbox'[i].nav, i # j
          PROVE  FALSE
      <4>1. CASE inbox'[i] \in new /\ \E k \in DOMAIN inbox : inbox'[j] = inbox[k]
        BY <2>1, <3>1, <3>3, <4>1
      <4>2. CASE inbox'[j] \in new /\ \E k \in DOMAIN inbox : inbox'[i] = inbox[k]
        BY <2>1, <3>1, <3>3, <4>2
      <4>3. CASE \E k \in DOMAIN inbox, l \in DOMAIN inbox :
                   k # l /\ inbox'[i] = inbox[k] /\ inbox'[j] = inbox[l]
        BY <3>3, <4>3 DEF Inv, LoadsOnce, LoadsApart
      <4>. QED BY <2>1, <3>3, <4>1, <4>2, <4>3 DEF Effect, Changed
    <3>. QED BY <3>2, <3>3
  <2>4. \A n : LoadComing(n)' => LoadComing(n) \/ n = doc
    BY <2>1 DEF LoadComing, Effect, Changed
  <2>5. alone => doc = cur /\ loadedBy = 0
    BY <2>2 DEF Inv, LoadsOnce, NoOther, LoadIsOwn, Settled
  <2>6. NoOther'
    BY <2>2, <2>4, <2>5 DEF Inv, LoadsOnce, NoOther
  <2>. QED BY <2>2, <2>3, <2>5, <2>6 DEF LoadsOnce, LoadIsOwn
<1>12. ASSUME NEW r \in reqs, EndRequest(r)
      PROVE  LoadsOnce' /\ LoadIsOwn'
  <2>1. PICK new \in SUBSET Message :
        Effect({}, new) /\ \A e \in new : e.kind \in Kinds \ {"load"} /\ e.id # 0
    BY <1>12, RequestEffect DEF Inv
  <2>2. LoadsApart' /\ \A n : LoadComing(n)' <=> LoadComing(n)
    BY <1>12, <2>1, LoadsKept
    DEF EndRequest, StepsStay, step_vars, count_vars, Inv, LoadsOnce, IsAnswer, IsSent,
       Kinds
  <2>. QED BY <1>12, <2>2, LoadsStay DEF EndRequest, StepsStay, step_vars, count_vars,
       Inv, Waits
<1>13. ASSUME Begin
      PROVE  LoadsOnce' /\ LoadIsOwn'
  <2>1. PICK new \in SUBSET Message : Effect({}, new) /\ \A e \in new : IsAnswer(e)
    BY <1>13, BeginEffect DEF Inv
  <2>2. fired' = fired /\ loadedBy' = 0 /\ ~alone'
    BY <1>13 DEF Begin, chrome_vars
  <2>3. LoadsApart'
    BY <2>1, <2>2, LoadsKept DEF Inv, LoadsOnce, IsAnswer
  <2>. QED BY <2>2, <2>3 DEF LoadsOnce, NoOther, LoadIsOwn
<1>14. ASSUME Fails
      PROVE  LoadsOnce' /\ LoadIsOwn'
  <2>1. PICK gone \in SUBSET DOMAIN inbox :
        Effect(gone, {}) /\ \A i \in DOMAIN inbox : IsAnswer(inbox[i]) <=> i \in gone
    BY <1>14, FailsEffect DEF Inv
  <2>2. LoadsApart' /\ \A n : LoadComing(n)' <=> LoadComing(n)
    BY <1>14, <2>1, LoadsKept
    DEF Fails, Returns, Unregistered, step_vars, count_vars, chrome_vars, Inv,
       LoadsOnce, IsAnswer, IsSent, Kinds
  <2>. QED BY <1>14, <2>2, LoadsStay DEF Fails, Returns, Unregistered, step_vars,
       count_vars, chrome_vars, Inv, Waits
<1>15. ASSUME AskMore
      PROVE  LoadsOnce' /\ LoadIsOwn'
  <2>1. PICK new \in SUBSET Message :
        Effect({}, new) /\ \A e \in new : e.kind \in Kinds \ {"load"} /\ e.id # 0
    BY <1>15, RequestEffect DEF Inv
  <2>2. LoadsApart' /\ \A n : LoadComing(n)' <=> LoadComing(n)
    BY <1>15, <2>1, LoadsKept
    DEF AskMore, Ask, StepsStay, step_vars, count_vars, Inv, LoadsOnce, IsAnswer,
       IsSent, Kinds
  <2>. QED BY <1>15, <2>2, LoadsStay DEF AskMore, Ask, StepsStay, step_vars, count_vars,
       Inv,
       Waits
<1>16. ASSUME Foreign
      PROVE  LoadsOnce' /\ LoadIsOwn'
  <2>1. PICK new \in SUBSET Message :
        /\ Effect({}, new)
        /\ \A e \in new : e.kind \in {"load", "finished"} /\ e.nav = Elsewhere
    BY <1>16, ForeignEffect DEF Inv
  <2>2. LoadsApart' /\ \A n : n # Elsewhere => (LoadComing(n)' <=> LoadComing(n))
    BY <1>16, <2>1, PageFacts DEF Foreign, chrome_vars, Effect, Changed, Inv, LoadsOnce,
       LoadsApart, LoadComing
  <2>. QED BY <1>16, <2>2, LoadsStay DEF Foreign, StepsStay, step_vars, count_vars,
       chrome_vars, Inv
<1>17. ASSUME NEW r \in reqs, Redirect(r)
      PROVE  LoadsOnce' /\ LoadIsOwn'
  <2>1. PICK new \in SUBSET Message :
        Effect({}, new) /\ \A e \in new : e.kind \in Kinds \ {"load"} /\ e.id # 0
    BY <1>17, RequestEffect DEF Inv
  <2>2. LoadsApart' /\ \A n : LoadComing(n)' <=> LoadComing(n)
    BY <1>17, <2>1, LoadsKept
    DEF Redirect, StepsStay, step_vars, count_vars, chrome_vars, Inv, LoadsOnce,
       IsAnswer, IsSent, Kinds
  <2>. QED BY <1>17, <2>2, LoadsStay DEF Redirect, StepsStay, step_vars, count_vars,
       chrome_vars, Inv, Waits
<1>18. ASSUME Replace
      PROVE  LoadsOnce' /\ LoadIsOwn'
  <2>1. fired \subseteq fired' /\ UNCHANGED <<pc, loadedBy, inbox>> /\ ~alone'
    BY <1>18 DEF Replace, StepsStay, count_vars
  <2>. QED BY <2>1 DEF Inv, LoadsOnce, LoadsApart, NoOther, LoadIsOwn
<1>19. CASE UNCHANGED vars
  <2>1. LoadsApart' /\ \A n : LoadComing(n)' <=> LoadComing(n)
    BY <1>19 DEF vars, chrome_vars, Inv, LoadsOnce, LoadsApart, LoadComing
  <2>. QED BY <1>19, <2>1, LoadsStay DEF vars, step_vars, count_vars, chrome_vars, Inv
<1>. QED BY <1>1, <1>2, <1>3, <1>4, <1>5, <1>6, <1>7, <1>8, <1>9, <1>10, <1>11, <1>12,
     <1>13, <1>14, <1>15, <1>16, <1>17, <1>18, <1>19 DEF Next, NavigateStep, ChromeStep,
     ReadEvent

\* The load event of the page is on its way until the handler has it.
LEMMA NotMissedNext ==
    ASSUME Inv, TypeOK', [Next]_vars
    PROVE  LoadNotMissed'
<1>1. ASSUME NEW i \in DOMAIN inbox, Read(i)
      PROVE  LoadNotMissed'
  <2>1. Effect({i}, {}) /\ inbox[i] \in Message /\ inbox[i].kind # "answer"
    BY <1>1, ReadEffect DEF Inv
  <2>2. ASSUME NEW n, LoadComing(n)
        PROVE  LoadComing(n)' \/ (inbox[i].kind = "load" /\ inbox[i].nav = n)
    <3>1. PICK k \in DOMAIN inbox : inbox[k].kind = "load" /\ inbox[k].nav = n
      BY <2>2 DEF LoadComing
    <3>2. k # i => \E j \in DOMAIN inbox' : inbox'[j] = inbox[k]
      BY <2>1 DEF Effect, Changed
    <3>3. CASE k = i
      BY <3>1, <3>3
    <3>4. CASE k # i
      <4>1. PICK j \in DOMAIN inbox' : inbox'[j] = inbox[k]
        BY <3>2, <3>4
      <4>2. j \in DOMAIN inbox' /\ inbox'[j].kind = "load" /\ inbox'[j].nav = n
        BY <3>1, <4>1
      <4>. QED BY <4>2 DEF LoadComing
    <3>. QED BY <3>3, <3>4
  <2>3. /\ UNCHANGED <<cur, mode, pc, fired>> /\ (loadedBy # 0 => loadedBy' # 0)
        /\ Handled(inbox[i]) /\ inbox[i].kind = "load" => loadedBy' # 0
    BY <1>1, <2>1, MessageFacts, PageFacts DEF Read, Handled, step_vars, chrome_vars
  <2>4. pc \in {"navigate", "load"} /\ mode # "commit" => cur # 0 /\ "load" \in reg
    BY DEF Inv, HandlersGone, ChromeKnows
  <2>5. cur # Elsewhere
    BY PageFacts DEF Inv, TypeOK
  <2>. QED BY <2>2, <2>3, <2>4, <2>5 DEF Inv, LoadNotMissed, Handled
<1>2. ASSUME Enabled
      PROVE  LoadNotMissed'
  <2>1. PICK new \in SUBSET Message :
        /\ 1 \in DOMAIN inbox /\ IsAnswer(inbox[1]) /\ Effect({1}, new)
        /\ \A e \in new : IF mode = "networkidle" THEN IsAnswer(e) ELSE IsSent(e)
    BY <1>2, EnabledEffect DEF Inv
  <2>2. LoadsApart' /\ \A n : LoadComing(n)' <=> LoadComing(n)
    BY <1>2, <2>1, LoadsKept
    DEF Enabled, Answered, StartNavigation, Ask, step_vars, count_vars, Inv, LoadsOnce,
       IsAnswer, IsSent, Kinds
  <2>. QED BY <1>2, <2>2, NavigationAssumption, PageFacts
       DEF Enabled, Answered, StartNavigation, Ask, step_vars, count_vars, Inv,
          LoadNotMissed, HandlersGone, TypeOK, Started, Known, ChromeKnows, Waits
<1>3. ASSUME NetEnabled
      PROVE  LoadNotMissed'
  <2>1. Effect({1}, {}) /\ 1 \in DOMAIN inbox /\ IsAnswer(inbox[1])
    BY <1>3, AnswerEffect DEF Inv, NetEnabled
  <2>2. LoadsApart' /\ \A n : LoadComing(n)' <=> LoadComing(n)
    BY <1>3, <2>1, LoadsKept
    DEF NetEnabled, Answered, step_vars, count_vars, chrome_vars, Inv, LoadsOnce,
       IsAnswer, IsSent, Kinds
  <2>. QED BY <1>3, <2>2, NavigationAssumption, PageFacts
       DEF NetEnabled, Answered, step_vars, count_vars, chrome_vars, Inv, LoadNotMissed,
          HandlersGone, TypeOK, Started, Known, ChromeKnows, Waits
<1>4. ASSUME Track
      PROVE  LoadNotMissed'
  <2>1. PICK new \in SUBSET Message : Effect({}, new) /\ \A e \in new : IsSent(e)
    BY <1>4, TrackEffect DEF Inv
  <2>2. LoadsApart' /\ \A n : LoadComing(n)' <=> LoadComing(n)
    BY <1>4, <2>1, LoadsKept
    DEF Track, StartNavigation, Ask, step_vars, count_vars, chrome_vars, Inv, LoadsOnce,
       IsAnswer, IsSent, Kinds
  <2>. QED BY <1>4, <2>2, NavigationAssumption, PageFacts
       DEF Track, StartNavigation, Ask, step_vars, count_vars, chrome_vars, Inv,
          LoadNotMissed, HandlersGone, TypeOK, Started, Known, ChromeKnows, Waits
<1>5. ASSUME Navigated
      PROVE  LoadNotMissed'
  <2>1. Effect({1}, {}) /\ 1 \in DOMAIN inbox /\ IsAnswer(inbox[1])
    BY <1>5, AnswerEffect DEF Inv, Navigated
  <2>2. LoadsApart' /\ \A n : LoadComing(n)' <=> LoadComing(n)
    BY <1>5, <2>1, LoadsKept
    DEF Navigated, Answered, Returns, Unregistered, step_vars, count_vars, chrome_vars,
       Inv, LoadsOnce, IsAnswer, IsSent, Kinds
  <2>. QED BY <1>5, <2>2, NavigationAssumption, PageFacts
       DEF Navigated, Answered, Returns, Unregistered, step_vars, count_vars,
          chrome_vars, Inv, LoadNotMissed, HandlersGone, TypeOK, Started, Known, ChromeKnows,
          Waits
<1>6. ASSUME AfterLoad
      PROVE  LoadNotMissed'
  BY <1>6, NavigationAssumption, PageFacts
  DEF AfterLoad, Loaded, GivesUp, Returns, Unregistered, step_vars, count_vars,
     chrome_vars, Inv, LoadNotMissed, LoadComing, HandlersGone, TypeOK, Started, Known,
     ChromeKnows, Message,
     Kinds, Waits
<1>7. ASSUME IdleEnds
      PROVE  LoadNotMissed'
  BY <1>7, NavigationAssumption, PageFacts
  DEF IdleEnds, Returns, Unregistered, step_vars, count_vars, chrome_vars, Inv,
     LoadNotMissed,
     LoadComing, HandlersGone, TypeOK, Started, Known, ChromeKnows, Message, Kinds,
     Waits
<1>8. ASSUME QuietExpires
      PROVE  LoadNotMissed'
  BY <1>8, NavigationAssumption, PageFacts
  DEF QuietExpires, Returns, Unregistered, step_vars, count_vars, chrome_vars, Inv,
     LoadNotMissed,
     LoadComing, HandlersGone, TypeOK, Started, Known, ChromeKnows, Message, Kinds,
     Waits
<1>9. ASSUME Rest
      PROVE  LoadNotMissed'
  BY <1>9, NavigationAssumption, PageFacts
  DEF Rest, step_vars, chrome_vars, Inv, LoadNotMissed, LoadComing, HandlersGone,
     TypeOK, Started, Known, ChromeKnows, Message, Kinds, Waits
<1>10. ASSUME Commit
      PROVE  LoadNotMissed'
  <2>1. PICK new \in SUBSET Message :
        /\ Effect({}, new) /\ \A e \in new : IsAnswer(e)
        /\ new # {} => target = cur /\ pc = "navigate"
    BY <1>10, CommitEffect DEF Inv
  <2>2. LoadsApart' /\ \A n : LoadComing(n)' <=> LoadComing(n)
    BY <1>10, <2>1, LoadsKept
    DEF Commit, StepsStay, step_vars, count_vars, Inv, LoadsOnce, IsAnswer, IsSent, Kinds
  <2>. QED BY <1>10, <2>2, NavigationAssumption, PageFacts
       DEF Commit, StepsStay, step_vars, count_vars, Inv, LoadNotMissed, HandlersGone,
          TypeOK, Started, Known, ChromeKnows, Waits
<1>11. ASSUME Load
      PROVE  LoadNotMissed'
  <2>1. PICK new \in SUBSET Message :
        /\ Effect({}, new) /\ new # {} /\ \A e \in new : e.kind = "load" /\ e.nav = doc
    BY <1>11, LoadEffect DEF Inv
  <2>2. ASSUME NEW n, n = doc \/ LoadComing(n)
        PROVE  LoadComing(n)'
    BY <2>1, <2>2 DEF Effect, Changed, LoadComing
  <2>. QED BY <1>11, <2>2 DEF Load, StepsStay, step_vars, count_vars, Inv, LoadNotMissed
<1>12. ASSUME NEW r \in reqs, EndRequest(r)
      PROVE  LoadNotMissed'
  <2>1. PICK new \in SUBSET Message :
        Effect({}, new) /\ \A e \in new : e.kind \in Kinds \ {"load"} /\ e.id # 0
    BY <1>12, RequestEffect DEF Inv
  <2>2. LoadsApart' /\ \A n : LoadComing(n)' <=> LoadComing(n)
    BY <1>12, <2>1, LoadsKept
    DEF EndRequest, StepsStay, step_vars, count_vars, Inv, LoadsOnce, IsAnswer, IsSent,
       Kinds
  <2>. QED BY <1>12, <2>2, NavigationAssumption, PageFacts
       DEF EndRequest, StepsStay, step_vars, count_vars, Inv, LoadNotMissed,
          HandlersGone, TypeOK, Started, Known, ChromeKnows, Waits
<1>13. ASSUME Begin
      PROVE  LoadNotMissed'
  <2>1. PICK new \in SUBSET Message : Effect({}, new) /\ \A e \in new : IsAnswer(e)
    BY <1>13, BeginEffect DEF Inv
  <2>2. LoadsApart' /\ \A n : LoadComing(n)' <=> LoadComing(n)
    BY <1>13, <2>1, LoadsKept
    DEF Begin, chrome_vars, Inv, LoadsOnce, IsAnswer, IsSent, Kinds
  <2>. QED BY <1>13, <2>2, NavigationAssumption, PageFacts
       DEF Begin, chrome_vars, Inv, LoadNotMissed, HandlersGone, TypeOK, Started,
          Known, ChromeKnows, Waits
<1>14. ASSUME Fails
      PROVE  LoadNotMissed'
  <2>1. PICK gone \in SUBSET DOMAIN inbox :
        Effect(gone, {}) /\ \A i \in DOMAIN inbox : IsAnswer(inbox[i]) <=> i \in gone
    BY <1>14, FailsEffect DEF Inv
  <2>2. LoadsApart' /\ \A n : LoadComing(n)' <=> LoadComing(n)
    BY <1>14, <2>1, LoadsKept
    DEF Fails, Returns, Unregistered, step_vars, count_vars, chrome_vars, Inv,
       LoadsOnce, IsAnswer,
       IsSent, Kinds
  <2>. QED BY <1>14, <2>2, NavigationAssumption, PageFacts
       DEF Fails, Returns, Unregistered, step_vars, count_vars, chrome_vars, Inv,
          LoadNotMissed,
          HandlersGone, TypeOK, Started, Known, ChromeKnows, Waits
<1>15. ASSUME AskMore
      PROVE  LoadNotMissed'
  <2>1. PICK new \in SUBSET Message :
        Effect({}, new) /\ \A e \in new : e.kind \in Kinds \ {"load"} /\ e.id # 0
    BY <1>15, RequestEffect DEF Inv
  <2>2. LoadsApart' /\ \A n : LoadComing(n)' <=> LoadComing(n)
    BY <1>15, <2>1, LoadsKept
    DEF AskMore, Ask, StepsStay, step_vars, count_vars, Inv, LoadsOnce, IsAnswer,
       IsSent, Kinds
  <2>. QED BY <1>15, <2>2, NavigationAssumption, PageFacts
       DEF AskMore, Ask, StepsStay, step_vars, count_vars, Inv, LoadNotMissed,
          HandlersGone,
          TypeOK, Started, Known, ChromeKnows, Waits
<1>16. ASSUME Foreign
      PROVE  LoadNotMissed'
  <2>1. PICK new \in SUBSET Message :
        /\ Effect({}, new)
        /\ \A e \in new : e.kind \in {"load", "finished"} /\ e.nav = Elsewhere
    BY <1>16, ForeignEffect DEF Inv
  <2>. QED BY <1>16, <2>1, NavigationAssumption, PageFacts
       DEF Foreign, StepsStay, step_vars, count_vars, chrome_vars, Inv, LoadNotMissed,
          LoadComing, HandlersGone, TypeOK, Started, Known, ChromeKnows, Message, Kinds,
          Elsewhere, Waits, Effect, Changed, IsAnswer, IsSent
<1>17. ASSUME NEW r \in reqs, Redirect(r)
      PROVE  LoadNotMissed'
  <2>1. PICK new \in SUBSET Message :
        Effect({}, new) /\ \A e \in new : e.kind \in Kinds \ {"load"} /\ e.id # 0
    BY <1>17, RequestEffect DEF Inv
  <2>2. LoadsApart' /\ \A n : LoadComing(n)' <=> LoadComing(n)
    BY <1>17, <2>1, LoadsKept
    DEF Redirect, StepsStay, step_vars, count_vars, chrome_vars, Inv, LoadsOnce,
       IsAnswer, IsSent, Kinds
  <2>. QED BY <1>17, <2>2, NavigationAssumption, PageFacts
       DEF Redirect, StepsStay, step_vars, count_vars, chrome_vars, Inv, LoadNotMissed,
          HandlersGone, TypeOK, Started, Known, ChromeKnows, Waits
<1>18. ASSUME Replace
      PROVE  LoadNotMissed'
  <2>1. cur \in fired' => cur \in fired
    BY <1>18, PageFacts DEF Replace, Inv, TypeOK
  <2>. QED BY <1>18, <2>1
       DEF Replace, StepsStay, step_vars, count_vars, Inv, LoadNotMissed, LoadComing
<1>19. CASE UNCHANGED vars
  BY <1>19 DEF vars, Inv, LoadNotMissed, LoadComing, HandlersGone, TypeOK, Started,
     Known, ChromeKnows, Message, Kinds, Waits, step_vars, count_vars, chrome_vars
<1>. QED BY <1>1, <1>2, <1>3, <1>4, <1>5, <1>6, <1>7, <1>8, <1>9, <1>10, <1>11, <1>12,
     <1>13, <1>14, <1>15, <1>16, <1>17, <1>18, <1>19 DEF Next, NavigateStep, ChromeStep,
     ReadEvent

\* Every request that is counted in seen is counted in inflight.
LEMMA CountNext ==
    ASSUME Inv, TypeOK', [Next]_vars
    PROVE  Counts'
<1> Counts
  BY DEF Inv
<1>1. ASSUME NEW i \in DOMAIN inbox, Read(i)
      PROVE  Counts'
  <2>1. Effect({i}, {}) /\ inbox[i] \in Message /\ inbox[i].kind # "answer"
    BY <1>1, ReadEffect DEF Inv
  <2> DEFINE e == inbox[i]
  <2>2. seen \in SUBSET (1..MaxReq) /\ IsFiniteSet(seen) /\ Cardinality(seen) \in Nat
    <3>1. seen \in SUBSET (1..MaxReq)
      BY DEF Inv, TypeOK
    <3>2. IsFiniteSet(1..MaxReq)
      BY NavigationAssumption, FS_Interval
    <3>. QED BY <3>1, <3>2, FS_Subset, FS_CardinalityType
  <2>3. UNCHANGED <<mode, pc>> /\ odd \subseteq odd' /\ inflight \in Nat
    BY <1>1 DEF Read, Handled, step_vars, chrome_vars, Inv, TypeOK
  <2>4. CASE Handled(e) /\ e.kind = "sent"
    <3>1. seen' = seen \cup {e.id} /\ inflight' = inflight + 1
      BY <1>1, <2>4 DEF Read, Counted, Ends
    <3>2. ASSUME NEW x
          PROVE  /\ Cardinality(seen \cup {x}) \in Nat
                 /\ Cardinality(seen \cup {x}) <= Cardinality(seen) + 1
      <4>1. Cardinality(seen \cup {x}) =
              IF x \in seen THEN Cardinality(seen) ELSE Cardinality(seen) + 1
        BY <2>2, FS_AddElement
      <4>. QED BY <2>2, <4>1
    <3>3. Cardinality(seen)' \in Nat /\ Cardinality(seen)' <= Cardinality(seen) + 1
      BY <3>1, <3>2
    <3>. QED BY <2>2, <2>3, <3>1, <3>3 DEF Counts
  <2>5. CASE Handled(e) /\ e.kind \in {"finished", "failed"}
    <3>1. /\ seen' = seen \ {e.id}
          /\ inflight' = IF inflight > 0 THEN inflight - 1 ELSE inflight
      BY <1>1, <2>5 DEF Read, Ends
    <3>2. CASE e.id \in seen
      <4>1. Cardinality(seen') = Cardinality(seen) - 1 /\ Cardinality(seen) > 0
        BY <2>2, <3>1, <3>2, FS_RemoveElement, FS_CardinalityType, FS_Subset
      <4>. QED BY <2>2, <2>3, <3>1, <4>1 DEF Counts
    <3>3. CASE e.id \notin seen
      <4>1. mode = "networkidle" => "left" \in odd'
        BY <1>1, <2>5, <3>3 DEF Read, Disturbance, Ends
      <4>. QED BY <2>3, <4>1 DEF Counts
    <3>. QED BY <3>2, <3>3
  <2>6. CASE ~Handled(e) \/ e.kind = "load"
    <3>1. inflight' = inflight /\ seen' \in {seen, seen \ {e.id}}
      BY <1>1, <2>6 DEF Read, Ends
    <3>2. Cardinality(seen') <= Cardinality(seen) /\ Cardinality(seen') \in Nat
      BY <2>2, <3>1, FS_Subset, FS_CardinalityType
    <3>. QED BY <2>2, <2>3, <3>1, <3>2 DEF Counts
  <2>. QED BY <2>1, <2>4, <2>5, <2>6, MessageFacts DEF Kinds
<1>2. ASSUME Enabled
      PROVE  Counts'
  BY <1>2, NavigationAssumption
  DEF Enabled, Answered, StartNavigation, Ask, step_vars, count_vars, Inv, Counts, TypeOK,
     Waits
<1>3. ASSUME NetEnabled
      PROVE  Counts'
  BY <1>3, NavigationAssumption
  DEF NetEnabled, Answered, step_vars, count_vars, chrome_vars, Inv, Counts, TypeOK, Waits
<1>4. ASSUME Track
      PROVE  Counts'
  BY <1>4, NavigationAssumption
  DEF Track, StartNavigation, Ask, step_vars, count_vars, chrome_vars, Inv, Counts,
     TypeOK,
     Waits
<1>5. ASSUME Navigated
      PROVE  Counts'
  BY <1>5, NavigationAssumption
  DEF Navigated, Answered, Returns, Unregistered, step_vars, count_vars, chrome_vars,
     Inv, Counts, TypeOK, Waits
<1>6. ASSUME AfterLoad
      PROVE  Counts'
  BY <1>6, NavigationAssumption
  DEF AfterLoad, Loaded, GivesUp, Returns, Unregistered, step_vars, count_vars,
     chrome_vars, Inv,
     Counts, TypeOK, Waits
<1>7. ASSUME IdleEnds
      PROVE  Counts'
  BY <1>7, NavigationAssumption
  DEF IdleEnds, Returns, Unregistered, step_vars, count_vars, chrome_vars, Inv, Counts,
     TypeOK, Waits
<1>8. ASSUME QuietExpires
      PROVE  Counts'
  BY <1>8, NavigationAssumption
  DEF QuietExpires, Returns, Unregistered, step_vars, count_vars, chrome_vars, Inv,
     Counts, TypeOK,
     Waits
<1>9. ASSUME Rest
      PROVE  Counts'
  BY <1>9, NavigationAssumption
  DEF Rest, step_vars, chrome_vars, Inv, Counts, TypeOK, Waits
<1>10. ASSUME Commit
      PROVE  Counts'
  BY <1>10, NavigationAssumption
  DEF Commit, StepsStay, step_vars, count_vars, Inv, Counts, TypeOK, Waits
<1>11. ASSUME Load
      PROVE  Counts'
  BY <1>11, NavigationAssumption
  DEF Load, StepsStay, step_vars, count_vars, Inv, Counts, TypeOK, Waits
<1>12. ASSUME NEW r \in reqs, EndRequest(r)
      PROVE  Counts'
  BY <1>12, NavigationAssumption
  DEF EndRequest, StepsStay, step_vars, count_vars, Inv, Counts, TypeOK, Waits
<1>13. ASSUME Begin
      PROVE  Counts'
  BY <1>13, FS_EmptySet DEF Begin, chrome_vars, Inv, Counts, TypeOK, Waits
<1>14. ASSUME Fails
      PROVE  Counts'
  BY <1>14, NavigationAssumption
  DEF Fails, Returns, Unregistered, step_vars, count_vars, chrome_vars, Inv, Counts,
     TypeOK, Waits
<1>15. ASSUME AskMore
      PROVE  Counts'
  BY <1>15, NavigationAssumption
  DEF AskMore, Ask, StepsStay, step_vars, count_vars, Inv, Counts, TypeOK, Waits
<1>16. ASSUME Foreign
      PROVE  Counts'
  BY <1>16, NavigationAssumption
  DEF Foreign, StepsStay, step_vars, count_vars, chrome_vars, Inv, Counts, TypeOK, Waits
<1>17. ASSUME NEW r \in reqs, Redirect(r)
      PROVE  Counts'
  BY <1>17, NavigationAssumption
  DEF Redirect, StepsStay, step_vars, count_vars, chrome_vars, Inv, Counts, TypeOK, Waits
<1>18. ASSUME Replace
      PROVE  Counts'
  BY <1>18
  DEF Replace, StepsStay, step_vars, count_vars, Counts
<1>19. CASE UNCHANGED vars
  BY <1>19 DEF vars, Inv, Counts, TypeOK, Waits, step_vars, count_vars, chrome_vars
<1>. QED BY <1>1, <1>2, <1>3, <1>4, <1>5, <1>6, <1>7, <1>8, <1>9, <1>10, <1>11, <1>12,
     <1>13, <1>14, <1>15, <1>16, <1>17, <1>18, <1>19 DEF Next, NavigateStep, ChromeStep,
     ReadEvent

-----------------------------------------------------------------------------
(* Theorems                                                                 *)

\* Nothing is under way at first, and all of this holds from one step to the next.
LEMMA InitInv == Init => Inv /\ LoadIsOwn
<1> SUFFICES ASSUME Init PROVE Inv /\ LoadIsOwn
  OBVIOUS
<1>1. TypeOK
  <2>1. /\ cur \in 0..MaxNav /\ inflight \in Nat
        /\ target \in 0..MaxNav /\ made \in 0..MaxReq
    BY NavigationAssumption DEF Init
  <2>2. rested \in BOOLEAN /\ netOn \in BOOLEAN /\ alone \in BOOLEAN
    BY DEF Init
  <2>3. inbox \in Seq(Event \cup Answer)
    BY DEF Init
  <2>. QED BY <2>1, <2>2, <2>3 DEF Init, TypeOK
<1>2. DOMAIN inbox = {}
  BY DEF Init
<1>3. LoadNotMissed /\ HandlersGone /\ ChromeKnows /\ SentHaveIds
  BY <1>2, NavigationAssumption
  DEF Init, LoadNotMissed, HandlersGone, ChromeKnows, Started, SentHaveIds
<1>4. OneAnswer /\ LoadsOnce
  BY <1>2 DEF Init, OneAnswer, AnswersApart, AnswerComing, LoadsOnce, LoadsApart, NoOther
<1>5. LoadIsOwn /\ Counts
  BY DEF Init, LoadIsOwn, Counts
<1>. QED BY <1>1, <1>3, <1>4, <1>5 DEF Inv

LEMMA NextInv ==
    Inv /\ LoadIsOwn /\ [Next]_vars => (Inv /\ LoadIsOwn)'
<1> SUFFICES ASSUME Inv, LoadIsOwn, [Next]_vars
             PROVE  (Inv /\ LoadIsOwn)'
  OBVIOUS
<1>1. TypeOK'
  BY TypeNext
<1>2. LoadNotMissed' /\ HandlersGone' /\ ChromeKnows'
  BY <1>1, NotMissedNext, HandlersNext, ChromeNext
<1>3. SentHaveIds' /\ OneAnswer'
  BY <1>1, SentNext, AnswerNext
<1>4. LoadsOnce' /\ LoadIsOwn' /\ Counts'
  BY <1>1, LoadsNext, CountNext
<1>. QED BY <1>1, <1>2, <1>3, <1>4 DEF Inv

\* The inductive invariant: what Chrome has sent and the step has not read, against
\* what both know (doNavigate, headlessbrowser.go:455-520).
THEOREM NavigationInvariant == Spec => [](Inv /\ LoadIsOwn)
  BY InitInv, NextInv, PTL DEF Spec

\* A fast load event is not missed, no handler outlives its step (:461, :478), and the
\* tracker counts no fewer requests than are in flight, unless it has counted the end of
\* one of before (:541-570).
THEOREM LoadsAreNotMissed == Spec => []Inv
  BY NavigationInvariant, PTL

\* The wait for the load event ends by that of its own page, if all earlier pages had
\* loaded when its handler was registered and nothing else was shown since (:471-478).
THEOREM WaitsEndForTheirOwn == Spec => []LoadIsOwn
  BY NavigationInvariant, PTL
=============================================================================
