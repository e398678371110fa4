-------------------------- MODULE ChromeProxyProofs --------------------------
(***************************************************************************)
(* Proofs of what chrome-proxy promises its requests and dashboards.       *)
(***************************************************************************)
EXTENDS ChromeProxyProps, FiniteSetTheorems, SequenceTheorems, TLAPS

\* The inductive invariant: what the runs check, all of it.
IInv == Inv /\ OwnAnswers /\ CaughtUp

-----------------------------------------------------------------------------
(* Lists of calls, and the messages that extend them                        *)

\* A list that is extended by the next call remains without gaps.
LEMMA NextCall ==
    ASSUME NEW q \in Seq(Steps), Consecutive(q), NEW n \in Steps, Latest(q) = n - 1
    PROVE  /\ Append(q, n) \in Seq(Steps)
           /\ Consecutive(Append(q, n)) /\ Latest(Append(q, n)) = n
<1>1. Len(q) \in Nat /\ (q = <<>> <=> Len(q) = 0)
  OBVIOUS
<1>2. /\ Append(q, n) \in Seq(Steps) /\ Append(q, n) # <<>>
      /\ Len(Append(q, n)) = Len(q) + 1 /\ Append(q, n)[Len(q) + 1] = n
      /\ \A i \in 1..Len(q) : Append(q, n)[i] = q[i]
  BY AppendProperties
<1>3. Latest(Append(q, n)) = n
  BY <1>2 DEF Latest
<1>4. ASSUME NEW i \in 1..Len(q)
      PROVE  Append(q, n)[i + 1] = Append(q, n)[i] + 1
  <2>1. CASE i = Len(q)
    BY <1>1, <1>2, <2>1 DEF Latest, Steps
  <2>2. CASE i # Len(q)
    BY <1>1, <1>2, <2>2 DEF Consecutive
  <2>. QED BY <2>1, <2>2
<1>. QED BY <1>1, <1>2, <1>3, <1>4 DEF Consecutive

\* Only the oldest call leaves the ring.
LEMMA RingKeepsLast ==
    ASSUME NEW q \in Seq(Steps), Consecutive(q), NEW n \in Steps, Latest(q) = n - 1,
           Len(q) = IF n - 1 < MaxCalls THEN n - 1 ELSE MaxCalls
    PROVE  /\ Ring(Append(q, n)) \in Seq(Steps)
           /\ Consecutive(Ring(Append(q, n))) /\ Latest(Ring(Append(q, n))) = n
           /\ Len(Ring(Append(q, n))) = IF n < MaxCalls THEN n ELSE MaxCalls
<1> DEFINE a == Append(q, n)
<1>1. /\ a \in Seq(Steps) /\ Consecutive(a) /\ Latest(a) = n
      /\ Len(a) = Len(q) + 1 /\ Len(q) \in Nat /\ MaxCalls \in Nat \ {0} /\ n \in Nat \ {0}
  BY NextCall, ProxyAssumption DEF Steps
<1> HIDE DEF a
<1>2. CASE Len(a) > MaxCalls
  <2> DEFINE t == SubSeq(a, Len(a) - MaxCalls + 1, Len(a))
             k == Len(a) - MaxCalls
  <2>1. Len(q) = MaxCalls /\ Len(a) = MaxCalls + 1 /\ k = 1 /\ n > MaxCalls
    BY <1>1, <1>2
  <2>2. \A i \in (k + 1)..Len(a) : a[i] \in Steps
    BY <1>1, <2>1
  <2>3. /\ t \in Seq(Steps) /\ Len(t) = MaxCalls
        /\ \A i \in 1..MaxCalls : t[i] = a[i + 1]
    BY <1>1, <2>1, <2>2, SubSeqProperties
  <2> HIDE DEF t
  <2>4. Consecutive(t) /\ Latest(t) = n
    BY <1>1, <2>1, <2>3 DEF Consecutive, Latest
  <2>5. Ring(a) = t
    BY <1>2 DEF Ring, LastCalls, t
  <2>6. Len(t) = IF n < MaxCalls THEN n ELSE MaxCalls
    BY <1>1, <2>1, <2>3
  <2>. QED BY <2>3, <2>4, <2>5, <2>6 DEF a
<1>3. CASE Len(a) <= MaxCalls
  BY <1>1, <1>3 DEF Ring, a
<1>. QED BY <1>1, <1>2, <1>3

\* No messages lead nowhere.
LEMMA LeadsNowhere ==
    ASSUME NEW a \in Nat
    PROVE  Leads(<<>>, a, a)
<1> DEFINE upto == [i \in 0..Len(<<>>) |-> a]
<1>1. upto \in [0..Len(<<>>) -> 0..a] /\ upto[0] = a
  OBVIOUS
<1> HIDE DEF upto
<1>2. Len(<<>>) = 0
  OBVIOUS
<1>. QED BY <1>1, <1>2 DEF Leads

\* A message with the next call leads there, one without a call leads nowhere else.
LEMMA LeadsOn ==
    ASSUME NEW q \in Seq(History), NEW a \in Nat, NEW b \in Nat, Leads(q, a, b),
           NEW m \in History, NEW c \in Nat,
           (m.calls = <<>> /\ c = b) \/ (m.calls = <<c>> /\ c = b + 1)
    PROVE  Leads(Append(q, m), a, c)
<1>1. PICK upto \in [0..Len(q) -> 0..b] :
         /\ upto[0] = a /\ upto[Len(q)] = b
         /\ \A i \in 1..Len(q) :
               \/ q[i].calls = <<>> /\ upto[i] = upto[i - 1]
               \/ q[i].calls = <<upto[i]>> /\ upto[i] = upto[i - 1] + 1
  BY DEF Leads
<1> DEFINE r == Append(q, m)
           u == [i \in 0..(Len(q) + 1) |-> IF i = Len(q) + 1 THEN c ELSE upto[i]]
<1>2. /\ Len(q) \in Nat /\ Len(r) = Len(q) + 1 /\ r[Len(q) + 1] = m
      /\ \A i \in 1..Len(q) : r[i] = q[i]
  BY AppendProperties
<1>3. u \in [0..Len(r) -> 0..c]
  BY <1>1, <1>2
<1>4. u[0] = a /\ u[Len(r)] = c /\ u[Len(q)] = b
  BY <1>1, <1>2
<1>5. ASSUME NEW i \in 1..Len(r)
      PROVE  \/ r[i].calls = <<>> /\ u[i] = u[i - 1]
             \/ r[i].calls = <<u[i]>> /\ u[i] = u[i - 1] + 1
  <2>1. CASE i = Len(q) + 1
    BY <1>2, <1>4, <2>1
  <2>2. CASE i # Len(q) + 1
    <3>1. i \in 1..Len(q) /\ u[i] = upto[i] /\ u[i - 1] = upto[i - 1] /\ r[i] = q[i]
      BY <1>2, <2>2
    <3>. QED BY <1>1, <3>1
  <2>. QED BY <2>1, <2>2
<1> HIDE DEF r, u
<1>6. Leads(r, a, c)
  BY <1>3, <1>4, <1>5 DEF Leads
<1>. QED BY <1>6 DEF r

\* The first message has the next call or none, and the others lead on from there.
LEMMA LeadsFrom ==
    ASSUME NEW q \in Seq(History), q # <<>>, NEW a \in Nat, NEW b \in Nat, Leads(q, a, b)
    PROVE  \/ Head(q).calls = <<>> /\ Leads(Tail(q), a, b)
           \/ Head(q).calls = <<a + 1>> /\ Leads(Tail(q), a + 1, b)
<1>1. PICK upto \in [0..Len(q) -> 0..b] :
         /\ upto[0] = a /\ upto[Len(q)] = b
         /\ \A i \in 1..Len(q) :
               \/ q[i].calls = <<>> /\ upto[i] = upto[i - 1]
               \/ q[i].calls = <<upto[i]>> /\ upto[i] = upto[i - 1] + 1
  BY DEF Leads
<1> DEFINE t == Tail(q)
           u == [i \in 0..(Len(q) - 1) |-> upto[i + 1]]
<1>2. /\ Len(q) \in Nat \ {0} /\ Head(q) = q[1] /\ Len(t) = Len(q) - 1
      /\ \A i \in 1..Len(t) : t[i] = q[i + 1]
  BY HeadTailProperties
<1>3. u \in [0..Len(t) -> 0..b] /\ u[Len(t)] = b /\ u[0] = upto[1]
  BY <1>1, <1>2
<1>4. ASSUME NEW i \in 1..Len(t)
      PROVE  \/ t[i].calls = <<>> /\ u[i] = u[i - 1]
             \/ t[i].calls = <<u[i]>> /\ u[i] = u[i - 1] + 1
  <2>1. i + 1 \in 1..Len(q) /\ (i + 1) - 1 = i /\ (i - 1) + 1 = i
    BY <1>2
  <2>2. u[i] = upto[i + 1] /\ u[i - 1] = upto[i] /\ t[i] = q[i + 1]
    BY <1>2, <2>1
  <2>. QED BY <1>1, <2>1, <2>2
<1> HIDE DEF t, u
<1>5. Leads(t, upto[1], b)
  BY <1>3, <1>4 DEF Leads
<1>6. \/ Head(q).calls = <<>> /\ upto[1] = a
      \/ Head(q).calls = <<upto[1]>> /\ upto[1] = a + 1
  BY <1>1, <1>2, 1 \in 1..Len(q), 1 - 1 = 0
<1>. QED BY <1>5, <1>6 DEF t

-----------------------------------------------------------------------------
(* What a change of the history does to the channels                        *)

\* The message is the last in the channel of every page that remains registered;
\* no other channel changes but for being closed, and none that is closed is used.
LEMMA BroadcastFacts ==
    ASSUME TypeOK, ChannelsClosedOnce, NEW msg \in History, Broadcast(msg)
    PROVE  /\ subs' \subseteq subs /\ panicked' = FALSE
           /\ queue' \in [Pages -> Seq(History)] /\ chClosed' \in [Pages -> BOOLEAN]
           /\ \A p \in subs' : ~chClosed'[p]
           /\ \A p \in Pages :
                /\ Len(queue'[p]) <= Cap
                /\ queue'[p] = IF p \in subs' THEN Append(queue[p], msg) ELSE queue[p]
<1> USE DEF Broadcast, ChannelsClosedOnce, Dropped, Full
<1>1. subs' \subseteq subs /\ subs' = {p \in subs : ~(Len(queue[p]) >= Cap)}
  OBVIOUS
<1>2. panicked' = FALSE
  OBVIOUS
<1>3. chClosed' \in [Pages -> BOOLEAN] /\ \A p \in subs' : ~chClosed'[p]
  <2>1. \A p \in Pages : chClosed'[p] <=> chClosed[p] \/ p \in subs \ subs'
    BY <1>1 DEF TypeOK
  <2>2. chClosed' \in [Pages -> BOOLEAN]
    BY Zenon DEF TypeOK
  <2>. QED BY <1>1, <2>1, <2>2 DEF TypeOK
<1>4. ASSUME NEW p \in Pages
      PROVE  /\ queue'[p] = IF p \in subs' THEN Append(queue[p], msg) ELSE queue[p]
             /\ queue'[p] \in Seq(History) /\ Len(queue'[p]) <= Cap
  <2>1. queue'[p] = IF p \in subs' THEN Append(queue[p], msg) ELSE queue[p]
    BY <1>1
  <2>2. queue[p] \in Seq(History) /\ Len(queue[p]) \in Nat /\ Len(queue[p]) <= Cap
    BY DEF TypeOK
  <2>3. CASE p \in subs'
    BY <1>1, <2>1, <2>2, <2>3, AppendProperties, ProxyAssumption
  <2>4. CASE p \notin subs'
    BY <2>1, <2>2, <2>4
  <2>. QED BY <2>1, <2>3, <2>4
<1>5. queue' \in [Pages -> Seq(History)]
  <2>1. DOMAIN queue' = Pages /\ queue' = [p \in Pages |-> queue'[p]]
    OBVIOUS
  <2>. QED BY <1>4, <2>1
<1>. QED BY <1>1, <1>2, <1>3, <1>4, <1>5

\* A page that was up to date with what is on its way remains so.
LEMMA BroadcastLeadsOn ==
    ASSUME TypeOK, ChannelsClosedOnce, CaughtUp, NEW msg \in History, Broadcast(msg),
           state' = msg.state, UNCHANGED <<stepN, ws, seed, fed, shown>>,
           NEW c \in 0..stepN, Latest(calls') = c, Latest(calls) \in Nat,
           \/ msg.calls = <<>> /\ c = Latest(calls)
           \/ msg.calls = <<c>> /\ c = Latest(calls) + 1
    PROVE  CaughtUp'
<1> SUFFICES ASSUME NEW p \in Pages, ws[p] \in {"seed", "feed"}
             PROVE  /\ \E b \in 0..stepN :
                         /\ Leads(queue'[p], Latest(Brought(p)), b)
                         /\ p \in subs' => b = Latest(calls')
                    /\ p \in subs' =>
                         state' = IF queue'[p] # <<>> THEN queue'[p][Len(queue'[p])].state
                                  ELSE IF ws[p] = "seed" THEN seed[p].state ELSE shown[p].state
  BY DEF CaughtUp, Brought
<1>1. /\ queue[p] \in Seq(History) /\ subs' \subseteq subs
      /\ queue'[p] = IF p \in subs' THEN Append(queue[p], msg) ELSE queue[p]
  BY BroadcastFacts DEF TypeOK
<1>2. PICK b \in 0..stepN :
        Leads(queue[p], Latest(Brought(p)), b) /\ (p \in subs => b = Latest(calls))
  BY DEF CaughtUp
<1>3. Latest(Brought(p)) \in Nat
  <2>1. Brought(p) \in Seq(Steps)
    BY DEF TypeOK, Brought, History
  <2>. QED BY <2>1 DEF Latest, Steps
<1>4. CASE p \in subs'
  <2>1. b = Latest(calls) /\ b \in Nat /\ queue'[p] = Append(queue[p], msg)
    BY <1>1, <1>2, <1>4
  <2>2. Leads(queue'[p], Latest(Brought(p)), c)
    <3>1. c \in Nat
      BY DEF TypeOK
    <3>2. Leads(queue[p], Latest(Brought(p)), b)
      BY <1>2
    <3>. QED BY <1>1, <1>3, <2>1, <3>1, <3>2, LeadsOn
  <2>3. queue'[p] # <<>> /\ queue'[p][Len(queue'[p])] = msg
    BY <1>1, <2>1, AppendProperties
  <2>. QED BY <2>2, <2>3
<1>5. CASE p \notin subs'
  BY <1>1, <1>2, <1>5
<1>. QED BY <1>4, <1>5

\* A page that takes the next message of its channel, or its snapshot.
LEMMA Upserted ==
    ASSUME NEW q \in Seq(Steps), Consecutive(q), NEW t \in Seq(Steps),
           t = <<>> \/ (q = <<>> /\ Consecutive(t)) \/ t = <<Latest(q) + 1>>
    PROVE  /\ q \o t \in Seq(Steps) /\ Consecutive(q \o t)
           /\ Latest(q \o t) = IF t = <<>> THEN Latest(q) ELSE t[Len(t)]
<1>1. CASE t = <<>>
  BY <1>1, ConcatEmptySeq
<1>2. CASE q = <<>> /\ Consecutive(t)
  <2>1. q \o t = t
    BY <1>2, ConcatEmptySeq
  <2>. QED BY <1>2, <2>1 DEF Latest
<1>3. CASE t = <<Latest(q) + 1>>
  <2>1. Latest(q) + 1 \in Steps /\ Len(t) = 1 /\ t[1] = Latest(q) + 1
    BY <1>3 DEF Latest, Steps
  <2>2. q \o t = Append(q, Latest(q) + 1)
    BY <1>3, <2>1, AppendIsConcat
  <2>3. Latest(q) \in Nat /\ Latest(q) = (Latest(q) + 1) - 1
    BY DEF Latest, Steps
  <2>4. /\ Append(q, Latest(q) + 1) \in Seq(Steps) /\ Consecutive(Append(q, Latest(q) + 1))
        /\ Latest(Append(q, Latest(q) + 1)) = Latest(q) + 1
    BY <2>1, <2>3, NextCall
  <2>. QED BY <1>3, <2>1, <2>2, <2>4
<1>. QED BY <1>1, <1>2, <1>3

\* Where at most one is, there is one or none.
LEMMA OneOrNone ==
    ASSUME NEW S, NEW x, S \subseteq {x}
    PROVE  IsFiniteSet(S) /\ Cardinality(S) = IF x \in S THEN 1 ELSE 0
<1>1. CASE x \in S
  <2>1. S = {x}
    BY <1>1
  <2>. QED BY <1>1, <2>1, FS_Singleton
<1>2. CASE x \notin S
  <2>1. S = {}
    BY <1>2
  <2>. QED BY <1>2, <2>1, FS_EmptySet
<1>. QED BY <1>1, <1>2

\* At most one step is underway.
LEMMA UnderwayCount ==
    ASSUME IInv
    PROVE  Cardinality(Underway) \in Nat
<1>1. Underway \subseteq {mu}
  BY DEF Underway, IInv, Inv, OneAtATime, Holds
<1>. QED BY <1>1, OneOrNone

\* mu keeps the steps apart: the one that is recorded is the only one underway, and
\* the last that was made.
LEMMA RecordsTheLast ==
    ASSUME IInv, NEW r \in Requests, Record(r)
    PROVE  /\ seq[r] = stepN /\ stepN \in Steps /\ Latest(calls) = stepN - 1
           /\ calls' \in Seq(Steps) /\ Consecutive(calls') /\ Latest(calls') = stepN
           /\ Len(calls') = IF stepN < MaxCalls THEN stepN ELSE MaxCalls
           /\ Underway' = {} /\ Latest(calls) \in Nat
<1>1. /\ pc[r] = "record" /\ calls' = Ring(Append(calls, seq[r]))
      /\ \E next \in {"fail", "done", "send", "lock"} : pc' = [pc EXCEPT ![r] = next]
  BY DEF Record, Goto, AppendCall, AfterRecord
<1>2. \A q \in Requests : pc[q] \in {"recv", "record"} => q = r
  BY <1>1 DEF IInv, Inv, OneAtATime, Holds
<1>3. Underway = {r} /\ Cardinality(Underway) = 1
  <2>1. Underway = {r}
    BY <1>1, <1>2 DEF Underway
  <2>. QED BY <2>1, FS_Singleton
<1>4. Underway' = {}
  BY <1>1, <1>2 DEF Underway, IInv, Inv, TypeOK
<1>5. seq[r] = stepN
  BY <1>1 DEF IInv, OwnAnswers
<1>6. Latest(calls) = stepN - 1 /\ Latest(calls) \in Nat /\ stepN \in Steps
  BY <1>3 DEF IInv, Inv, TypeOK, NothingUnrecorded, Made, Latest, Steps
<1>7. Len(calls) = IF stepN - 1 < MaxCalls THEN stepN - 1 ELSE MaxCalls
  BY <1>3 DEF IInv, Inv, NothingUnrecorded, Made
<1>. QED BY <1>1, <1>4, <1>5, <1>6, <1>7, RingKeepsLast DEF IInv, Inv, TypeOK,
     NothingUnrecorded

\* A step that goes on or ends within the same section of mu leaves the count alone.
LEMMA StillUnderway ==
    ASSUME IInv, Underway' = Underway, UNCHANGED <<stepN, calls>>
    PROVE  NothingUnrecorded'
  BY DEF IInv, Inv, NothingUnrecorded, Made

-----------------------------------------------------------------------------
(* The inductive invariant, part by part                                     *)

\* Every step keeps the types.
LEMMA TypeNext ==
    ASSUME IInv, [Next]_vars
    PROVE  TypeOK'
<1>1. ASSUME NEW r \in Requests, Arrive(r)
      PROVE  TypeOK'
  BY <1>1 DEF Arrive, Goto, store_vars, chan_vars, page_vars, IInv, Inv, TypeOK
<1>2. ASSUME NEW r \in Requests, Lock(r)
      PROVE  TypeOK'
  BY <1>2 DEF Lock, Goto, store_vars, chan_vars, page_vars, MuFree, IInv, Inv, TypeOK
<1>3. ASSUME NEW r \in Requests, SendStep(r)
      PROVE  TypeOK'
  <2>1. stepN' \in Nat /\ stepN + 1 \in Steps
    BY <1>3 DEF SendStep, IInv, Inv, TypeOK, Steps
  <2>2. asked' \in Seq(Steps)
    BY <1>3, <2>1 DEF SendStep, IInv, Inv, TypeOK
  <2>3. seq' \in [Requests -> Nat] /\ got' \in [Requests -> Nat]
    BY <1>3, <2>1 DEF SendStep, IInv, Inv, TypeOK, Steps
  <2>. QED BY <1>3, <2>1, <2>2, <2>3 DEF SendStep, Goto, store_vars, chan_vars,
       page_vars, IInv, Inv, TypeOK
<1>4. ASSUME NEW r \in Requests, RecvAnswer(r)
      PROVE  TypeOK'
  <2>1. Head(answers) \in Steps /\ Tail(answers) \in Seq(Steps)
    BY <1>4 DEF RecvAnswer, IInv, Inv, TypeOK
  <2>2. got' \in [Requests -> Nat]
    BY <1>4, <2>1 DEF RecvAnswer, IInv, Inv, TypeOK, Steps
  <2>. QED BY <1>4, <2>1, <2>2 DEF RecvAnswer, Goto, store_vars, chan_vars, page_vars,
       IInv, Inv, TypeOK
<1>5. ASSUME NEW r \in Requests, RecvFails(r)
      PROVE  TypeOK'
  BY <1>5 DEF RecvFails, Goto, store_vars, chan_vars, page_vars, IInv, Inv, TypeOK
<1>6. ASSUME NEW r \in Requests, Record(r)
      PROVE  TypeOK'
  <2>0. /\ seq[r] = stepN /\ stepN \in Steps /\ Latest(calls) = stepN - 1
        /\ calls' \in Seq(Steps) /\ Latest(calls') = stepN /\ Latest(calls) \in Nat
        /\ Len(calls') <= MaxCalls
    BY <1>6, RecordsTheLast, ProxyAssumption DEF Steps
  <2>1. Broadcast([state |-> state, calls |-> <<seq[r]>>]) /\ state' = state
    BY <1>6 DEF Record, AppendCall
  <2>2. [state |-> state, calls |-> <<seq[r]>>] \in History
    BY <1>6, <2>0 DEF Record, AppendCall, IInv, Inv, TypeOK, History, States
  <2>3. /\ subs' \subseteq subs /\ panicked' = FALSE /\ queue' \in [Pages -> Seq(History)]
        /\ chClosed' \in [Pages -> BOOLEAN] /\ \A p \in Pages : Len(queue'[p]) <= Cap
    BY <2>1, <2>2, BroadcastFacts DEF IInv, Inv
  <2>4. pc' \in [Requests -> {"idle", "lock", "send", "recv", "record", "fail", "done"}]
    BY <1>6 DEF Record, Goto, AfterRecord, IInv, Inv, TypeOK
  <2>5. left' \in [Requests -> 0..NSteps]
    <3>1. left[r] # 0 /\ left[r] \in 0..NSteps /\ NSteps \in Nat
      BY <1>6, ProxyAssumption DEF Record, Goto, IInv, Inv, TypeOK, OneAtATime
    <3>2. left[r] - 1 \in 0..NSteps
      BY <3>1
    <3>. QED BY <1>6, <3>2 DEF Record, IInv, Inv, TypeOK
  <2>6. mu' \in Requests \cup {NoRequest}
    BY <1>6 DEF Record, IInv, Inv, TypeOK
  <2>. QED BY <1>6, <2>0, <2>1, <2>2, <2>3, <2>4, <2>5, <2>6
       DEF Record, AppendCall, page_vars, IInv, Inv, TypeOK
<1>7. ASSUME NEW r \in Requests, Fail(r)
      PROVE  TypeOK'
  <2>1. Broadcast([state |-> "ERRORED", calls |-> <<>>]) /\ state' = "ERRORED"
    BY <1>7 DEF Fail, SetState
  <2>2. [state |-> "ERRORED", calls |-> <<>>] \in History
    BY <1>7 DEF Fail, SetState, IInv, Inv, TypeOK, History, States
  <2>3. /\ subs' \subseteq subs /\ panicked' = FALSE /\ queue' \in [Pages -> Seq(History)]
        /\ chClosed' \in [Pages -> BOOLEAN] /\ \A p \in Pages : Len(queue'[p]) <= Cap
    BY <2>1, <2>2, BroadcastFacts DEF IInv, Inv
  <2>. QED BY <1>7, <2>1, <2>2, <2>3 DEF Fail, SetState, Goto, States, page_vars, IInv,
       Inv, TypeOK
<1>8. ASSUME NEW k \in Closes, CloseSend(k)
      PROVE  TypeOK'
  BY <1>8 DEF CloseSend, MuFree, store_vars, chan_vars, page_vars, IInv, Inv, TypeOK
<1>9. ASSUME NEW k \in Closes, SetClosed(k)
      PROVE  TypeOK'
  <2>1. Broadcast([state |-> "CLOSED", calls |-> <<>>]) /\ state' = "CLOSED"
    BY <1>9 DEF SetClosed, SetState
  <2>2. [state |-> "CLOSED", calls |-> <<>>] \in History
    BY <1>9 DEF SetClosed, SetState, IInv, Inv, TypeOK, History, States
  <2>3. /\ subs' \subseteq subs /\ panicked' = FALSE /\ queue' \in [Pages -> Seq(History)]
        /\ chClosed' \in [Pages -> BOOLEAN] /\ \A p \in Pages : Len(queue'[p]) <= Cap
    BY <2>1, <2>2, BroadcastFacts DEF IInv, Inv
  <2>. QED BY <1>9, <2>1, <2>2, <2>3 DEF SetClosed, SetState, States, page_vars, IInv,
       Inv, TypeOK
<1>10. ASSUME RemoteAnswers
      PROVE  TypeOK'
  <2>1. Head(asked) \in Steps /\ Tail(asked) \in Seq(Steps)
    BY <1>10 DEF RemoteAnswers, IInv, Inv, TypeOK
  <2>2. asked' \in Seq(Steps) /\ answers' \in Seq(Steps)
    BY <1>10, <2>1 DEF RemoteAnswers, IInv, Inv, TypeOK
  <2>. QED BY <1>10, <2>2 DEF RemoteAnswers, store_vars, chan_vars, page_vars, IInv,
       Inv, TypeOK
<1>11. ASSUME StreamBreaks
      PROVE  TypeOK'
  <2>1. asked' \in Seq(Steps)
    BY <1>11 DEF StreamBreaks
  <2>. QED BY <1>11, <2>1 DEF StreamBreaks, store_vars, chan_vars, page_vars, IInv, Inv,
       TypeOK
<1>12. ASSUME NEW p \in Pages, Subscribe(p)
      PROVE  TypeOK'
  <2>1. seed' \in [Pages -> History]
    BY <1>12 DEF Subscribe, IInv, Inv, TypeOK, History
  <2>2. queue' \in [Pages -> Seq(History)] /\ \A q \in Pages : Len(queue'[q]) <= Cap
    BY <1>12, ProxyAssumption DEF Subscribe, IInv, Inv, TypeOK
  <2>3. fed' \in [Pages -> Seq(Steps)] /\ subs' \subseteq Pages
    BY <1>12 DEF Subscribe, IInv, Inv, TypeOK
  <2>4. nSubs' \in [Pages -> 0..MaxSubs]
    <3>1. nSubs[p] + 1 \in 0..MaxSubs
      <4>1. nSubs[p] < MaxSubs /\ nSubs[p] \in 0..MaxSubs
        BY <1>12 DEF Subscribe, IInv, Inv, TypeOK
      <4>. QED BY <4>1, ProxyAssumption
    <3>. QED BY <1>12, <3>1 DEF Subscribe, IInv, Inv, TypeOK
  <2>5. chClosed' \in [Pages -> BOOLEAN]
    BY <1>12, Zenon DEF Subscribe, IInv, Inv, TypeOK
  <2>6. ws' \in [Pages -> {"off", "seed", "feed", "cancel"}]
    BY <1>12 DEF Subscribe, At, IInv, Inv, TypeOK
  <2>. QED BY <1>12, <2>1, <2>2, <2>3, <2>4, <2>5, <2>6
       DEF Subscribe, steer_vars, store_vars, IInv, Inv, TypeOK
<1>13. ASSUME NEW p \in Pages, SendSeed(p)
      PROVE  TypeOK'
  <2> DEFINE msg == seed[p]
  <2>1. msg \in History
    BY <1>13 DEF SendSeed, IInv, Inv, TypeOK
  <2>2. fed[p] \o msg.calls \in Seq(Steps) /\ shown[p].calls \o msg.calls \in Seq(Steps)
    BY <2>1, ConcatProperties DEF IInv, Inv, TypeOK, History
  <2>3. Upsert(p, msg)
    BY <1>13 DEF SendSeed
  <2>4. fed' \in [Pages -> Seq(Steps)] /\ shown' \in [Pages -> History]
    BY <2>1, <2>2, <2>3 DEF Upsert, IInv, Inv, TypeOK, History
  <2>. QED BY <1>13, <2>4 DEF SendSeed, At, steer_vars, store_vars, chan_vars, IInv,
       Inv, TypeOK
<1>14. ASSUME NEW p \in Pages, Forward(p)
      PROVE  TypeOK'
  <2> DEFINE msg == Head(queue[p])
  <2>1. msg \in History
    BY <1>14 DEF Forward, IInv, Inv, TypeOK
  <2>2. fed[p] \o msg.calls \in Seq(Steps) /\ shown[p].calls \o msg.calls \in Seq(Steps)
    BY <2>1, ConcatProperties DEF IInv, Inv, TypeOK, History
  <2>3. Upsert(p, msg)
    BY <1>14 DEF Forward
  <2>4. fed' \in [Pages -> Seq(Steps)] /\ shown' \in [Pages -> History]
    BY <2>1, <2>2, <2>3 DEF Upsert, IInv, Inv, TypeOK, History
  <2>5. queue' \in [Pages -> Seq(History)] /\ \A q \in Pages : Len(queue'[q]) <= Cap
    <3>1. Tail(queue[p]) \in Seq(History) /\ Len(Tail(queue[p])) = Len(queue[p]) - 1
      BY <1>14 DEF Forward, IInv, Inv, TypeOK
    <3>2. Len(queue[p]) \in Nat
      BY DEF IInv, Inv, TypeOK
    <3>. QED BY <1>14, <3>1, <3>2, ProxyAssumption DEF Forward, IInv, Inv, TypeOK
  <2>. QED BY <1>14, <2>4, <2>5 DEF Forward, At, steer_vars, store_vars, IInv, Inv, TypeOK
<1>15. ASSUME NEW p \in Pages, FeedEnds(p)
      PROVE  TypeOK'
  BY <1>15 DEF FeedEnds, At, steer_vars, store_vars, chan_vars, IInv, Inv, TypeOK
<1>16. ASSUME NEW p \in Pages, SocketLost(p)
      PROVE  TypeOK'
  BY <1>16 DEF SocketLost, At, steer_vars, store_vars, chan_vars, IInv, Inv, TypeOK
<1>17. ASSUME NEW p \in Pages, Cancel(p)
      PROVE  TypeOK'
  BY <1>17 DEF Cancel, At, StillRegistered, steer_vars, store_vars, IInv, Inv, TypeOK
<1>18. CASE UNCHANGED vars
  BY <1>18 DEF vars, steer_vars, store_vars, chan_vars, page_vars, IInv, Inv, TypeOK,
     History, States, Steps
<1>. QED BY <1>1, <1>2, <1>3, <1>4, <1>5, <1>6, <1>7, <1>8, <1>9, <1>10, <1>11, <1>12,
     <1>13, <1>14, <1>15, <1>16, <1>17, <1>18 DEF Next, RequestStep, PageStep

\* mu is taken when it is free, and given back at the end of a step.
LEMMA OneAtATimeNext ==
    ASSUME IInv, [Next]_vars
    PROVE  OneAtATime'
<1>1. ASSUME NEW r \in Requests, Arrive(r)
      PROVE  OneAtATime'
  BY <1>1, ProxyAssumption
  DEF Arrive, Goto, store_vars, chan_vars, page_vars, IInv, Inv, TypeOK, OneAtATime, Holds
<1>2. ASSUME NEW r \in Requests, Lock(r)
      PROVE  OneAtATime'
  BY <1>2, ProxyAssumption
  DEF Lock, Goto, store_vars, chan_vars, page_vars, MuFree, IInv, Inv, TypeOK,
     OneAtATime, Holds
<1>3. ASSUME NEW r \in Requests, SendStep(r)
      PROVE  OneAtATime'
  BY <1>3, ProxyAssumption
  DEF SendStep, Goto, store_vars, chan_vars, page_vars, IInv, Inv, TypeOK, OneAtATime,
     Holds
<1>4. ASSUME NEW r \in Requests, RecvAnswer(r)
      PROVE  OneAtATime'
  BY <1>4, ProxyAssumption
  DEF RecvAnswer, Goto, store_vars, chan_vars, page_vars, IInv, Inv, TypeOK, OneAtATime,
     Holds
<1>5. ASSUME NEW r \in Requests, RecvFails(r)
      PROVE  OneAtATime'
  BY <1>5, ProxyAssumption
  DEF RecvFails, Goto, store_vars, chan_vars, page_vars, IInv, Inv, TypeOK, OneAtATime,
     Holds
<1>6. ASSUME NEW r \in Requests, Record(r)
      PROVE  OneAtATime'
  <2>1. PICK next \in AfterRecord(r) :
          /\ pc[r] = "record" /\ pc' = [pc EXCEPT ![r] = next]
          /\ mu' = IF next \in {"fail", "send"} THEN mu ELSE NoRequest
    BY <1>6 DEF Record, Goto
  <2>2. left' = [left EXCEPT ![r] = @ - 1] /\ left[r] \in 0..NSteps /\ NSteps \in Nat
    BY <1>6, ProxyAssumption DEF Record, IInv, Inv, TypeOK
  <2>3. /\ next \in {"fail", "done", "send", "lock"}
        /\ next \notin {"fail", "done"} => left[r] # 1
    BY <2>1 DEF AfterRecord
  <2>4. mu = r /\ \A q \in Requests \ {r} : ~Holds(q)
    BY <2>1 DEF IInv, Inv, OneAtATime, Holds
  <2>5. \A q \in Requests : Holds(q)' <=> mu' = q
    BY <2>1, <2>3, <2>4, ProxyAssumption DEF Holds, IInv, Inv, TypeOK
  <2>6. \A q \in Requests : pc'[q] \notin {"fail", "done"} => left'[q] # 0
    <3>1. left[r] # 0
      BY <2>1 DEF IInv, Inv, OneAtATime
    <3>2. next \notin {"fail", "done"} => left[r] - 1 # 0
      BY <2>2, <2>3, <3>1
    <3>. QED BY <2>1, <2>2, <3>2 DEF IInv, Inv, TypeOK, OneAtATime
  <2>. QED BY <2>5, <2>6 DEF OneAtATime
<1>7. ASSUME NEW r \in Requests, Fail(r)
      PROVE  OneAtATime'
  BY <1>7, ProxyAssumption
  DEF Fail, Goto, SetState, Broadcast, page_vars, IInv, Inv, TypeOK, OneAtATime, Holds
<1>8. ASSUME NEW k \in Closes, CloseSend(k)
      PROVE  OneAtATime'
  BY <1>8, ProxyAssumption
  DEF CloseSend, MuFree, store_vars, chan_vars, page_vars, IInv, Inv, TypeOK,
     OneAtATime, Holds
<1>9. ASSUME NEW k \in Closes, SetClosed(k)
      PROVE  OneAtATime'
  BY <1>9, ProxyAssumption
  DEF SetClosed, SetState, Broadcast, page_vars, IInv, Inv, TypeOK, OneAtATime, Holds
<1>10. ASSUME RemoteAnswers
      PROVE  OneAtATime'
  BY <1>10, ProxyAssumption
  DEF RemoteAnswers, store_vars, chan_vars, page_vars, IInv, Inv, TypeOK, OneAtATime,
     Holds
<1>11. ASSUME StreamBreaks
      PROVE  OneAtATime'
  BY <1>11, ProxyAssumption
  DEF StreamBreaks, store_vars, chan_vars, page_vars, IInv, Inv, TypeOK, OneAtATime, Holds
<1>12. ASSUME NEW p \in Pages, Subscribe(p)
      PROVE  OneAtATime'
  BY <1>12, ProxyAssumption
  DEF Subscribe, At, steer_vars, store_vars, IInv, Inv, TypeOK, OneAtATime, Holds
<1>13. ASSUME NEW p \in Pages, SendSeed(p)
      PROVE  OneAtATime'
  BY <1>13, ProxyAssumption
  DEF SendSeed, At, Upsert, steer_vars, store_vars, chan_vars, IInv, Inv, TypeOK,
     OneAtATime, Holds
<1>14. ASSUME NEW p \in Pages, Forward(p)
      PROVE  OneAtATime'
  BY <1>14, ProxyAssumption
  DEF Forward, At, Upsert, steer_vars, store_vars, IInv, Inv, TypeOK, OneAtATime, Holds
<1>15. ASSUME NEW p \in Pages, FeedEnds(p)
      PROVE  OneAtATime'
  BY <1>15, ProxyAssumption
  DEF FeedEnds, At, steer_vars, store_vars, chan_vars, IInv, Inv, TypeOK, OneAtATime,
     Holds
<1>16. ASSUME NEW p \in Pages, SocketLost(p)
      PROVE  OneAtATime'
  BY <1>16, ProxyAssumption
  DEF SocketLost, At, steer_vars, store_vars, chan_vars, IInv, Inv, TypeOK, OneAtATime,
     Holds
<1>17. ASSUME NEW p \in Pages, Cancel(p)
      PROVE  OneAtATime'
  BY <1>17, ProxyAssumption
  DEF Cancel, At, StillRegistered, steer_vars, store_vars, IInv, Inv, TypeOK,
     OneAtATime, Holds
<1>18. CASE UNCHANGED vars
  BY <1>18 DEF vars, steer_vars, store_vars, chan_vars, page_vars, IInv, Inv, TypeOK,
     OneAtATime, Holds
<1>. QED BY <1>1, <1>2, <1>3, <1>4, <1>5, <1>6, <1>7, <1>8, <1>9, <1>10, <1>11, <1>12,
     <1>13, <1>14, <1>15, <1>16, <1>17, <1>18 DEF Next, RequestStep, PageStep

\* Only the holder of mu sends and receives.
LEMMA OnTheStreamNext ==
    ASSUME IInv, [Next]_vars
    PROVE  OnTheStream'
<1>1. ASSUME NEW r \in Requests, Arrive(r)
      PROVE  OnTheStream'
  BY <1>1, ProxyAssumption
  DEF Arrive, Goto, store_vars, chan_vars, page_vars, IInv, Inv, TypeOK, OneAtATime,
     Holds, OnTheStream
<1>2. ASSUME NEW r \in Requests, Lock(r)
      PROVE  OnTheStream'
  BY <1>2, ProxyAssumption
  DEF Lock, Goto, store_vars, chan_vars, page_vars, MuFree, IInv, Inv, TypeOK,
     OneAtATime, Holds, OnTheStream
<1>3. ASSUME NEW r \in Requests, SendStep(r)
      PROVE  OnTheStream'
  <2>1. \A q \in Requests : Holds(q) => q = r
    BY <1>3 DEF SendStep, Goto, IInv, Inv, OneAtATime, Holds
  <2>2. /\ asked = <<>> /\ answers = <<>>
        /\ \A q \in Requests : pc'[q] = "recv" => q = r /\ stream = "open"
    BY <1>3, <2>1 DEF SendStep, Goto, IInv, Inv, TypeOK, OnTheStream, Holds
  <2>3. asked' = IF stream = "open" THEN <<stepN + 1>> ELSE <<>>
    BY <1>3, <2>2 DEF SendStep
  <2>4. pc'[r] = "recv" <=> stream = "open"
    BY <1>3 DEF SendStep, Goto, IInv, Inv, TypeOK
  <2>. QED BY <1>3, <2>2, <2>3, <2>4 DEF SendStep, IInv, Inv, TypeOK, OnTheStream
<1>4. ASSUME NEW r \in Requests, RecvAnswer(r)
      PROVE  OnTheStream'
  <2>1. \A q \in Requests : pc[q] = "recv" => q = r
    BY <1>4 DEF RecvAnswer, Goto, IInv, Inv, OneAtATime, Holds
  <2>2. asked = <<>> /\ answers = <<stepN>>
    BY <1>4 DEF RecvAnswer, Goto, IInv, Inv, OnTheStream
  <2>3. answers' = <<>> /\ asked' = <<>>
    BY <1>4, <2>2 DEF RecvAnswer
  <2>4. \A q \in Requests : pc'[q] # "recv"
    BY <1>4, <2>1 DEF RecvAnswer, Goto, IInv, Inv, TypeOK
  <2>. QED BY <2>3, <2>4 DEF OnTheStream
<1>5. ASSUME NEW r \in Requests, RecvFails(r)
      PROVE  OnTheStream'
  BY <1>5, ProxyAssumption
  DEF RecvFails, Goto, store_vars, chan_vars, page_vars, IInv, Inv, TypeOK, OneAtATime,
     Holds, OnTheStream
<1>6. ASSUME NEW r \in Requests, Record(r)
      PROVE  OnTheStream'
  BY <1>6, ProxyAssumption
  DEF Record, Goto, AfterRecord, AppendCall, Broadcast, page_vars, IInv, Inv, TypeOK,
     OneAtATime, Holds, OnTheStream
<1>7. ASSUME NEW r \in Requests, Fail(r)
      PROVE  OnTheStream'
  BY <1>7, ProxyAssumption
  DEF Fail, Goto, SetState, Broadcast, page_vars, IInv, Inv, TypeOK, OneAtATime, Holds,
     OnTheStream
<1>8. ASSUME NEW k \in Closes, CloseSend(k)
      PROVE  OnTheStream'
  BY <1>8, ProxyAssumption
  DEF CloseSend, MuFree, store_vars, chan_vars, page_vars, IInv, Inv, TypeOK,
     OneAtATime, Holds, OnTheStream
<1>9. ASSUME NEW k \in Closes, SetClosed(k)
      PROVE  OnTheStream'
  BY <1>9, ProxyAssumption
  DEF SetClosed, SetState, Broadcast, page_vars, IInv, Inv, TypeOK, OneAtATime, Holds,
     OnTheStream
<1>10. ASSUME RemoteAnswers
      PROVE  OnTheStream'
  <2>1. PICK q \in Requests : pc[q] = "recv"
    BY <1>10 DEF RemoteAnswers, IInv, Inv, OnTheStream
  <2>2. asked = <<stepN>> /\ answers = <<>>
    BY <1>10, <2>1 DEF RemoteAnswers, IInv, Inv, OnTheStream
  <2>3. asked' = <<>> /\ answers' = <<stepN>>
    BY <1>10, <2>2 DEF RemoteAnswers
  <2>. QED BY <1>10, <2>1, <2>3 DEF RemoteAnswers, IInv, Inv, OnTheStream
<1>11. ASSUME StreamBreaks
      PROVE  OnTheStream'
  BY <1>11, ProxyAssumption
  DEF StreamBreaks, store_vars, chan_vars, page_vars, IInv, Inv, TypeOK, OneAtATime,
     Holds, OnTheStream
<1>12. ASSUME NEW p \in Pages, Subscribe(p)
      PROVE  OnTheStream'
  BY <1>12, ProxyAssumption
  DEF Subscribe, At, steer_vars, store_vars, IInv, Inv, TypeOK, OneAtATime, Holds,
     OnTheStream
<1>13. ASSUME NEW p \in Pages, SendSeed(p)
      PROVE  OnTheStream'
  BY <1>13, ProxyAssumption
  DEF SendSeed, At, Upsert, steer_vars, store_vars, chan_vars, IInv, Inv, TypeOK,
     OneAtATime, Holds, OnTheStream
<1>14. ASSUME NEW p \in Pages, Forward(p)
      PROVE  OnTheStream'
  BY <1>14, ProxyAssumption
  DEF Forward, At, Upsert, steer_vars, store_vars, IInv, Inv, TypeOK, OneAtATime, Holds,
     OnTheStream
<1>15. ASSUME NEW p \in Pages, FeedEnds(p)
      PROVE  OnTheStream'
  BY <1>15, ProxyAssumption
  DEF FeedEnds, At, steer_vars, store_vars, chan_vars, IInv, Inv, TypeOK, OneAtATime,
     Holds, OnTheStream
<1>16. ASSUME NEW p \in Pages, SocketLost(p)
      PROVE  OnTheStream'
  BY <1>16, ProxyAssumption
  DEF SocketLost, At, steer_vars, store_vars, chan_vars, IInv, Inv, TypeOK, OneAtATime,
     Holds, OnTheStream
<1>17. ASSUME NEW p \in Pages, Cancel(p)
      PROVE  OnTheStream'
  BY <1>17, ProxyAssumption
  DEF Cancel, At, StillRegistered, steer_vars, store_vars, IInv, Inv, TypeOK,
     OneAtATime, Holds, OnTheStream
<1>18. CASE UNCHANGED vars
  BY <1>18 DEF vars, steer_vars, store_vars, chan_vars, page_vars, IInv, Inv, TypeOK,
     OneAtATime, Holds, OnTheStream
<1>. QED BY <1>1, <1>2, <1>3, <1>4, <1>5, <1>6, <1>7, <1>8, <1>9, <1>10, <1>11, <1>12,
     <1>13, <1>14, <1>15, <1>16, <1>17, <1>18 DEF Next, RequestStep, PageStep

\* So the answer is its own.
LEMMA OwnAnswersNext ==
    ASSUME IInv, [Next]_vars
    PROVE  OwnAnswers'
<1>1. ASSUME NEW r \in Requests, Arrive(r)
      PROVE  OwnAnswers'
  BY <1>1, ProxyAssumption
  DEF Arrive, Goto, store_vars, chan_vars, page_vars, IInv, Inv, TypeOK, OneAtATime,
     Holds, OnTheStream, OwnAnswers
<1>2. ASSUME NEW r \in Requests, Lock(r)
      PROVE  OwnAnswers'
  BY <1>2, ProxyAssumption
  DEF Lock, Goto, store_vars, chan_vars, page_vars, MuFree, IInv, Inv, TypeOK,
     OneAtATime, Holds, OnTheStream, OwnAnswers
<1>3. ASSUME NEW r \in Requests, SendStep(r)
      PROVE  OwnAnswers'
  BY <1>3, ProxyAssumption
  DEF SendStep, Goto, store_vars, chan_vars, page_vars, IInv, Inv, TypeOK, OneAtATime,
     Holds, OnTheStream, OwnAnswers
<1>4. ASSUME NEW r \in Requests, RecvAnswer(r)
      PROVE  OwnAnswers'
  BY <1>4, ProxyAssumption
  DEF RecvAnswer, Goto, store_vars, chan_vars, page_vars, IInv, Inv, TypeOK, OneAtATime,
     Holds, OnTheStream, OwnAnswers
<1>5. ASSUME NEW r \in Requests, RecvFails(r)
      PROVE  OwnAnswers'
  BY <1>5, ProxyAssumption
  DEF RecvFails, Goto, store_vars, chan_vars, page_vars, IInv, Inv, TypeOK, OneAtATime,
     Holds, OnTheStream, OwnAnswers
<1>6. ASSUME NEW r \in Requests, Record(r)
      PROVE  OwnAnswers'
  BY <1>6, ProxyAssumption
  DEF Record, Goto, AfterRecord, AppendCall, Broadcast, page_vars, IInv, Inv, TypeOK,
     OneAtATime, Holds, OnTheStream, OwnAnswers
<1>7. ASSUME NEW r \in Requests, Fail(r)
      PROVE  OwnAnswers'
  BY <1>7, ProxyAssumption
  DEF Fail, Goto, SetState, Broadcast, page_vars, IInv, Inv, TypeOK, OneAtATime, Holds,
     OnTheStream, OwnAnswers
<1>8. ASSUME NEW k \in Closes, CloseSend(k)
      PROVE  OwnAnswers'
  BY <1>8, ProxyAssumption
  DEF CloseSend, MuFree, store_vars, chan_vars, page_vars, IInv, Inv, TypeOK,
     OneAtATime, Holds, OnTheStream, OwnAnswers
<1>9. ASSUME NEW k \in Closes, SetClosed(k)
      PROVE  OwnAnswers'
  BY <1>9, ProxyAssumption
  DEF SetClosed, SetState, Broadcast, page_vars, IInv, Inv, TypeOK, OneAtATime, Holds,
     OnTheStream, OwnAnswers
<1>10. ASSUME RemoteAnswers
      PROVE  OwnAnswers'
  BY <1>10, ProxyAssumption
  DEF RemoteAnswers, store_vars, chan_vars, page_vars, IInv, Inv, TypeOK, OneAtATime,
     Holds, OnTheStream, OwnAnswers
<1>11. ASSUME StreamBreaks
      PROVE  OwnAnswers'
  BY <1>11, ProxyAssumption
  DEF StreamBreaks, store_vars, chan_vars, page_vars, IInv, Inv, TypeOK, OneAtATime,
     Holds, OnTheStream, OwnAnswers
<1>12. ASSUME NEW p \in Pages, Subscribe(p)
      PROVE  OwnAnswers'
  BY <1>12, ProxyAssumption
  DEF Subscribe, At, steer_vars, store_vars, IInv, Inv, TypeOK, OneAtATime, Holds,
     OnTheStream, OwnAnswers
<1>13. ASSUME NEW p \in Pages, SendSeed(p)
      PROVE  OwnAnswers'
  BY <1>13, ProxyAssumption
  DEF SendSeed, At, Upsert, steer_vars, store_vars, chan_vars, IInv, Inv, TypeOK,
     OneAtATime, Holds, OnTheStream, OwnAnswers
<1>14. ASSUME NEW p \in Pages, Forward(p)
      PROVE  OwnAnswers'
  BY <1>14, ProxyAssumption
  DEF Forward, At, Upsert, steer_vars, store_vars, IInv, Inv, TypeOK, OneAtATime, Holds,
     OnTheStream, OwnAnswers
<1>15. ASSUME NEW p \in Pages, FeedEnds(p)
      PROVE  OwnAnswers'
  BY <1>15, ProxyAssumption
  DEF FeedEnds, At, steer_vars, store_vars, chan_vars, IInv, Inv, TypeOK, OneAtATime,
     Holds, OnTheStream, OwnAnswers
<1>16. ASSUME NEW p \in Pages, SocketLost(p)
      PROVE  OwnAnswers'
  BY <1>16, ProxyAssumption
  DEF SocketLost, At, steer_vars, store_vars, chan_vars, IInv, Inv, TypeOK, OneAtATime,
     Holds, OnTheStream, OwnAnswers
<1>17. ASSUME NEW p \in Pages, Cancel(p)
      PROVE  OwnAnswers'
  BY <1>17, ProxyAssumption
  DEF Cancel, At, StillRegistered, steer_vars, store_vars, IInv, Inv, TypeOK,
     OneAtATime, Holds, OnTheStream, OwnAnswers
<1>18. CASE UNCHANGED vars
  BY <1>18 DEF vars, steer_vars, store_vars, chan_vars, page_vars, IInv, Inv, TypeOK,
     OneAtATime, Holds, OnTheStream, OwnAnswers
<1>. QED BY <1>1, <1>2, <1>3, <1>4, <1>5, <1>6, <1>7, <1>8, <1>9, <1>10, <1>11, <1>12,
     <1>13, <1>14, <1>15, <1>16, <1>17, <1>18 DEF Next, RequestStep, PageStep

\* Every step is recorded before the next one is made.
LEMMA RecordedNext ==
    ASSUME IInv, [Next]_vars
    PROVE  NothingUnrecorded'
<1>1. ASSUME NEW r \in Requests, Arrive(r)
      PROVE  NothingUnrecorded'
  <2>1. Underway' = Underway /\ UNCHANGED <<stepN, calls>>
    BY <1>1 DEF Arrive, Goto, store_vars, Underway, IInv, Inv, TypeOK
  <2>. QED BY <2>1, StillUnderway
<1>2. ASSUME NEW r \in Requests, Lock(r)
      PROVE  NothingUnrecorded'
  <2>1. Underway' = Underway /\ UNCHANGED <<stepN, calls>>
    BY <1>2 DEF Lock, Goto, store_vars, Underway, IInv, Inv, TypeOK
  <2>. QED BY <2>1, StillUnderway
<1>3. ASSUME NEW r \in Requests, SendStep(r)
      PROVE  NothingUnrecorded'
  <2>1. \A q \in Requests : Holds(q) => q = r
    BY <1>3 DEF SendStep, Goto, IInv, Inv, OneAtATime, Holds
  <2>2. Underway = {}
    BY <1>3, <2>1 DEF SendStep, Goto, Underway, Holds
  <2>3. Underway' = {r}
    BY <1>3, <2>2 DEF SendStep, Goto, Underway, IInv, Inv, TypeOK
  <2>4. Made = stepN /\ Made' = stepN
    <3>1. Cardinality(Underway) = 0 /\ Cardinality(Underway') = 1
      BY <2>2, <2>3, FS_EmptySet, FS_Singleton
    <3>2. stepN' = stepN + 1 /\ stepN \in Nat
      BY <1>3 DEF SendStep, IInv, Inv, TypeOK
    <3>. QED BY <3>1, <3>2 DEF Made
  <2>. QED BY <1>3, <2>4 DEF SendStep, store_vars, IInv, Inv, NothingUnrecorded
<1>4. ASSUME NEW r \in Requests, RecvAnswer(r)
      PROVE  NothingUnrecorded'
  <2>1. Underway' = Underway /\ UNCHANGED <<stepN, calls>>
    BY <1>4 DEF RecvAnswer, Goto, store_vars, Underway, IInv, Inv, TypeOK
  <2>. QED BY <2>1, StillUnderway
<1>5. ASSUME NEW r \in Requests, RecvFails(r)
      PROVE  NothingUnrecorded'
  <2>1. Underway' = Underway /\ UNCHANGED <<stepN, calls>>
    BY <1>5 DEF RecvFails, Goto, store_vars, Underway, IInv, Inv, TypeOK
  <2>. QED BY <2>1, StillUnderway
<1>6. ASSUME NEW r \in Requests, Record(r)
      PROVE  NothingUnrecorded'
  <2>1. /\ calls' \in Seq(Steps) /\ Consecutive(calls') /\ Latest(calls') = stepN
        /\ Len(calls') = (IF stepN < MaxCalls THEN stepN ELSE MaxCalls) /\ Underway' = {}
    BY <1>6, RecordsTheLast
  <2>2. Made' = stepN
    BY <1>6, <2>1, FS_EmptySet DEF Record, Made, IInv, Inv, TypeOK
  <2>. QED BY <1>6, <2>1, <2>2 DEF NothingUnrecorded
<1>7. ASSUME NEW r \in Requests, Fail(r)
      PROVE  NothingUnrecorded'
  <2>1. Underway' = Underway /\ UNCHANGED <<stepN, calls>>
    BY <1>7 DEF Fail, Goto, SetState, Underway, IInv, Inv, TypeOK
  <2>. QED BY <2>1, StillUnderway
<1>8. ASSUME NEW k \in Closes, CloseSend(k)
      PROVE  NothingUnrecorded'
  BY <1>8, ProxyAssumption
  DEF CloseSend, MuFree, store_vars, chan_vars, page_vars, IInv, Inv, TypeOK,
     NothingUnrecorded, Made, Underway
<1>9. ASSUME NEW k \in Closes, SetClosed(k)
      PROVE  NothingUnrecorded'
  BY <1>9, ProxyAssumption
  DEF SetClosed, SetState, Broadcast, page_vars, IInv, Inv, TypeOK, NothingUnrecorded,
     Made, Underway
<1>10. ASSUME RemoteAnswers
      PROVE  NothingUnrecorded'
  BY <1>10, ProxyAssumption
  DEF RemoteAnswers, store_vars, chan_vars, page_vars, IInv, Inv, TypeOK,
     NothingUnrecorded, Made, Underway
<1>11. ASSUME StreamBreaks
      PROVE  NothingUnrecorded'
  BY <1>11, ProxyAssumption
  DEF StreamBreaks, store_vars, chan_vars, page_vars, IInv, Inv, TypeOK,
     NothingUnrecorded, Made, Underway
<1>12. ASSUME NEW p \in Pages, Subscribe(p)
      PROVE  NothingUnrecorded'
  BY <1>12, ProxyAssumption
  DEF Subscribe, At, steer_vars, store_vars, IInv, Inv, TypeOK, NothingUnrecorded, Made,
     Underway
<1>13. ASSUME NEW p \in Pages, SendSeed(p)
      PROVE  NothingUnrecorded'
  BY <1>13, ProxyAssumption
  DEF SendSeed, At, Upsert, steer_vars, store_vars, chan_vars, IInv, Inv, TypeOK,
     NothingUnrecorded, Made, Underway
<1>14. ASSUME NEW p \in Pages, Forward(p)
      PROVE  NothingUnrecorded'
  BY <1>14, ProxyAssumption
  DEF Forward, At, Upsert, steer_vars, store_vars, IInv, Inv, TypeOK, NothingUnrecorded,
     Made, Underway
<1>15. ASSUME NEW p \in Pages, FeedEnds(p)
      PROVE  NothingUnrecorded'
  BY <1>15, ProxyAssumption
  DEF FeedEnds, At, steer_vars, store_vars, chan_vars, IInv, Inv, TypeOK,
     NothingUnrecorded, Made, Underway
<1>16. ASSUME NEW p \in Pages, SocketLost(p)
      PROVE  NothingUnrecorded'
  BY <1>16, ProxyAssumption
  DEF SocketLost, At, steer_vars, store_vars, chan_vars, IInv, Inv, TypeOK,
     NothingUnrecorded, Made, Underway
<1>17. ASSUME NEW p \in Pages, Cancel(p)
      PROVE  NothingUnrecorded'
  BY <1>17, ProxyAssumption
  DEF Cancel, At, StillRegistered, steer_vars, store_vars, IInv, Inv, TypeOK,
     NothingUnrecorded, Made, Underway
<1>18. CASE UNCHANGED vars
  BY <1>18 DEF vars, steer_vars, store_vars, chan_vars, page_vars, IInv, Inv, TypeOK,
     NothingUnrecorded, Made, Underway
<1>. QED BY <1>1, <1>2, <1>3, <1>4, <1>5, <1>6, <1>7, <1>8, <1>9, <1>10, <1>11, <1>12,
     <1>13, <1>14, <1>15, <1>16, <1>17, <1>18 DEF Next, RequestStep, PageStep

\* A channel is closed by whoever unregisters it.
LEMMA ChannelsNext ==
    ASSUME IInv, [Next]_vars
    PROVE  ChannelsClosedOnce'
<1>1. ASSUME NEW r \in Requests, Arrive(r)
      PROVE  ChannelsClosedOnce'
  BY <1>1, ProxyAssumption
  DEF Arrive, Goto, store_vars, chan_vars, page_vars, IInv, Inv, TypeOK,
     ChannelsClosedOnce
<1>2. ASSUME NEW r \in Requests, Lock(r)
      PROVE  ChannelsClosedOnce'
  BY <1>2, ProxyAssumption
  DEF Lock, Goto, store_vars, chan_vars, page_vars, MuFree, IInv, Inv, TypeOK,
     ChannelsClosedOnce
<1>3. ASSUME NEW r \in Requests, SendStep(r)
      PROVE  ChannelsClosedOnce'
  BY <1>3, ProxyAssumption
  DEF SendStep, Goto, store_vars, chan_vars, page_vars, IInv, Inv, TypeOK,
     ChannelsClosedOnce
<1>4. ASSUME NEW r \in Requests, RecvAnswer(r)
      PROVE  ChannelsClosedOnce'
  BY <1>4, ProxyAssumption
  DEF RecvAnswer, Goto, store_vars, chan_vars, page_vars, IInv, Inv, TypeOK,
     ChannelsClosedOnce
<1>5. ASSUME NEW r \in Requests, RecvFails(r)
      PROVE  ChannelsClosedOnce'
  BY <1>5, ProxyAssumption
  DEF RecvFails, Goto, store_vars, chan_vars, page_vars, IInv, Inv, TypeOK,
     ChannelsClosedOnce
<1>6. ASSUME NEW r \in Requests, Record(r)
      PROVE  ChannelsClosedOnce'
  BY <1>6, ProxyAssumption
  DEF Record, Goto, AfterRecord, AppendCall, Broadcast, page_vars, IInv, Inv, TypeOK,
     ChannelsClosedOnce
<1>7. ASSUME NEW r \in Requests, Fail(r)
      PROVE  ChannelsClosedOnce'
  BY <1>7, ProxyAssumption
  DEF Fail, Goto, SetState, Broadcast, page_vars, IInv, Inv, TypeOK, ChannelsClosedOnce
<1>8. ASSUME NEW k \in Closes, CloseSend(k)
      PROVE  ChannelsClosedOnce'
  BY <1>8, ProxyAssumption
  DEF CloseSend, MuFree, store_vars, chan_vars, page_vars, IInv, Inv, TypeOK,
     ChannelsClosedOnce
<1>9. ASSUME NEW k \in Closes, SetClosed(k)
      PROVE  ChannelsClosedOnce'
  BY <1>9, ProxyAssumption
  DEF SetClosed, SetState, Broadcast, page_vars, IInv, Inv, TypeOK, ChannelsClosedOnce
<1>10. ASSUME RemoteAnswers
      PROVE  ChannelsClosedOnce'
  BY <1>10, ProxyAssumption
  DEF RemoteAnswers, store_vars, chan_vars, page_vars, IInv, Inv, TypeOK,
     ChannelsClosedOnce
<1>11. ASSUME StreamBreaks
      PROVE  ChannelsClosedOnce'
  BY <1>11, ProxyAssumption
  DEF StreamBreaks, store_vars, chan_vars, page_vars, IInv, Inv, TypeOK,
     ChannelsClosedOnce
<1>12. ASSUME NEW p \in Pages, Subscribe(p)
      PROVE  ChannelsClosedOnce'
  BY <1>12, ProxyAssumption
  DEF Subscribe, At, steer_vars, store_vars, IInv, Inv, TypeOK, ChannelsClosedOnce
<1>13. ASSUME NEW p \in Pages, SendSeed(p)
      PROVE  ChannelsClosedOnce'
  BY <1>13, ProxyAssumption
  DEF SendSeed, At, Upsert, steer_vars, store_vars, chan_vars, IInv, Inv, TypeOK,
     ChannelsClosedOnce
<1>14. ASSUME NEW p \in Pages, Forward(p)
      PROVE  ChannelsClosedOnce'
  BY <1>14, ProxyAssumption
  DEF Forward, At, Upsert, steer_vars, store_vars, IInv, Inv, TypeOK, ChannelsClosedOnce
<1>15. ASSUME NEW p \in Pages, FeedEnds(p)
      PROVE  ChannelsClosedOnce'
  BY <1>15, ProxyAssumption
  DEF FeedEnds, At, steer_vars, store_vars, chan_vars, IInv, Inv, TypeOK,
     ChannelsClosedOnce
<1>16. ASSUME NEW p \in Pages, SocketLost(p)
      PROVE  ChannelsClosedOnce'
  BY <1>16, ProxyAssumption
  DEF SocketLost, At, steer_vars, store_vars, chan_vars, IInv, Inv, TypeOK,
     ChannelsClosedOnce
<1>17. ASSUME NEW p \in Pages, Cancel(p)
      PROVE  ChannelsClosedOnce'
  BY <1>17, ProxyAssumption
  DEF Cancel, At, StillRegistered, steer_vars, store_vars, IInv, Inv, TypeOK,
     ChannelsClosedOnce
<1>18. CASE UNCHANGED vars
  BY <1>18 DEF vars, steer_vars, store_vars, chan_vars, page_vars, IInv, Inv, TypeOK,
     ChannelsClosedOnce
<1>. QED BY <1>1, <1>2, <1>3, <1>4, <1>5, <1>6, <1>7, <1>8, <1>9, <1>10, <1>11, <1>12,
     <1>13, <1>14, <1>15, <1>16, <1>17, <1>18 DEF Next, RequestStep, PageStep

\* What is recorded reaches the pages that are registered, or cuts them off.
LEMMA CaughtUpNext ==
    ASSUME IInv, [Next]_vars
    PROVE  CaughtUp'
<1>1. ASSUME NEW r \in Requests, Arrive(r)
      PROVE  CaughtUp'
  BY <1>1, ProxyAssumption
  DEF Arrive, Goto, store_vars, chan_vars, page_vars, IInv, Inv, TypeOK, CaughtUp, Brought
<1>2. ASSUME NEW r \in Requests, Lock(r)
      PROVE  CaughtUp'
  BY <1>2, ProxyAssumption
  DEF Lock, Goto, store_vars, chan_vars, page_vars, MuFree, IInv, Inv, TypeOK, CaughtUp,
     Brought
<1>3. ASSUME NEW r \in Requests, SendStep(r)
      PROVE  CaughtUp'
  <2>1. stepN' = stepN + 1 /\ stepN \in Nat
    BY <1>3 DEF SendStep, IInv, Inv, TypeOK
  <2>2. UNCHANGED <<state, calls, subs, queue, ws, seed, fed, shown>>
    BY <1>3 DEF SendStep, store_vars, chan_vars, page_vars
  <2>3. \A p \in Pages : Brought(p)' = Brought(p)
    BY <2>2 DEF Brought
  <2>4. \A b \in 0..stepN : b \in 0..stepN'
    BY <2>1
  <2>. QED BY <2>2, <2>3, <2>4 DEF IInv, CaughtUp
<1>4. ASSUME NEW r \in Requests, RecvAnswer(r)
      PROVE  CaughtUp'
  BY <1>4, ProxyAssumption
  DEF RecvAnswer, Goto, store_vars, chan_vars, page_vars, IInv, Inv, TypeOK, CaughtUp,
     Brought
<1>5. ASSUME NEW r \in Requests, RecvFails(r)
      PROVE  CaughtUp'
  BY <1>5, ProxyAssumption
  DEF RecvFails, Goto, store_vars, chan_vars, page_vars, IInv, Inv, TypeOK, CaughtUp,
     Brought
<1>6. ASSUME NEW r \in Requests, Record(r)
      PROVE  CaughtUp'
  <2>0. /\ seq[r] = stepN /\ stepN \in Steps /\ Latest(calls) = stepN - 1
        /\ calls' \in Seq(Steps) /\ Latest(calls') = stepN /\ Latest(calls) \in Nat
        /\ Len(calls') <= MaxCalls
    BY <1>6, RecordsTheLast, ProxyAssumption DEF Steps
  <2>1. Broadcast([state |-> state, calls |-> <<seq[r]>>]) /\ state' = state
    BY <1>6 DEF Record, AppendCall
  <2>2. [state |-> state, calls |-> <<seq[r]>>] \in History
    BY <1>6, <2>0 DEF Record, AppendCall, IInv, Inv, TypeOK, History, States
  <2>3. stepN \in 0..stepN /\ [state |-> state, calls |-> <<seq[r]>>].calls = <<stepN>>
    BY <2>0 DEF Steps
  <2>4. UNCHANGED <<stepN, ws, seed, fed, shown>>
    BY <1>6 DEF Record, page_vars
  <2>5. stepN = Latest(calls) + 1
    BY <2>0 DEF Steps
  <2>. QED BY <2>0, <2>1, <2>2, <2>3, <2>4, <2>5, BroadcastLeadsOn DEF IInv, Inv
<1>7. ASSUME NEW r \in Requests, Fail(r)
      PROVE  CaughtUp'
  <2>1. Broadcast([state |-> "ERRORED", calls |-> <<>>]) /\ state' = "ERRORED"
    BY <1>7 DEF Fail, SetState
  <2>2. [state |-> "ERRORED", calls |-> <<>>] \in History
    BY <1>7 DEF Fail, SetState, IInv, Inv, TypeOK, History, States
  <2>3. Latest(calls) \in 0..stepN /\ Latest(calls) \in Nat
    <3>1. Cardinality(Underway) \in Nat
      BY UnderwayCount
    <3>. QED BY <3>1 DEF IInv, Inv, TypeOK, NothingUnrecorded, Made, Latest, Steps
  <2>4. UNCHANGED <<stepN, calls, ws, seed, fed, shown>>
    BY <1>7 DEF Fail, SetState, page_vars
  <2>. QED BY <2>1, <2>2, <2>3, <2>4, BroadcastLeadsOn DEF IInv, Inv
<1>8. ASSUME NEW k \in Closes, CloseSend(k)
      PROVE  CaughtUp'
  BY <1>8, ProxyAssumption
  DEF CloseSend, MuFree, store_vars, chan_vars, page_vars, IInv, Inv, TypeOK, CaughtUp,
     Brought
<1>9. ASSUME NEW k \in Closes, SetClosed(k)
      PROVE  CaughtUp'
  <2>1. Broadcast([state |-> "CLOSED", calls |-> <<>>]) /\ state' = "CLOSED"
    BY <1>9 DEF SetClosed, SetState
  <2>2. [state |-> "CLOSED", calls |-> <<>>] \in History
    BY <1>9 DEF SetClosed, SetState, IInv, Inv, TypeOK, History, States
  <2>3. Latest(calls) \in 0..stepN /\ Latest(calls) \in Nat
    <3>1. Cardinality(Underway) \in Nat
      BY UnderwayCount
    <3>. QED BY <3>1 DEF IInv, Inv, TypeOK, NothingUnrecorded, Made, Latest, Steps
  <2>4. UNCHANGED <<stepN, calls, ws, seed, fed, shown>>
    BY <1>9 DEF SetClosed, SetState, page_vars
  <2>. QED BY <2>1, <2>2, <2>3, <2>4, BroadcastLeadsOn DEF IInv, Inv
<1>10. ASSUME RemoteAnswers
      PROVE  CaughtUp'
  BY <1>10, ProxyAssumption
  DEF RemoteAnswers, store_vars, chan_vars, page_vars, IInv, Inv, TypeOK, CaughtUp,
     Brought
<1>11. ASSUME StreamBreaks
      PROVE  CaughtUp'
  BY <1>11, ProxyAssumption
  DEF StreamBreaks, store_vars, chan_vars, page_vars, IInv, Inv, TypeOK, CaughtUp, Brought
<1>12. ASSUME NEW p \in Pages, Subscribe(p)
      PROVE  CaughtUp'
  <2>1. \A q \in Pages \ {p} : /\ Brought(q)' = Brought(q) /\ (q \in subs' <=> q \in subs)
                               /\ ws'[q] = ws[q] /\ fed'[q] = fed[q] /\ seed'[q] = seed[q]
                               /\ queue'[q] = queue[q] /\ shown'[q] = shown[q]
    BY <1>12 DEF Subscribe, At, steer_vars, store_vars, Brought, IInv, Inv, TypeOK
  <2>2. /\ ws'[p] = "seed" /\ queue'[p] = <<>> /\ fed'[p] = <<>> /\ p \in subs'
        /\ seed'[p] = [state |-> state, calls |-> calls] /\ Brought(p)' = calls
    BY <1>12 DEF Subscribe, At, steer_vars, store_vars, Brought, IInv, Inv, TypeOK
  <2>3. Latest(calls) \in 0..stepN /\ Consecutive(calls)
    <3>1. Cardinality(Underway) \in Nat
      BY UnderwayCount
    <3>. QED BY <3>1 DEF IInv, Inv, TypeOK, NothingUnrecorded, Made, Latest, Steps
  <2>4. Leads(<<>>, Latest(calls), Latest(calls))
    BY <2>3, LeadsNowhere
  <2>9. UNCHANGED <<stepN, state, calls>>
    BY <1>12 DEF Subscribe, At, steer_vars, store_vars
  <2>. QED BY <2>1, <2>2, <2>3, <2>4, <2>9
       DEF IInv, CaughtUp
<1>13. ASSUME NEW p \in Pages, SendSeed(p)
      PROVE  CaughtUp'
  <2>1. \A q \in Pages \ {p} : /\ Brought(q)' = Brought(q) /\ (q \in subs' <=> q \in subs)
                               /\ ws'[q] = ws[q] /\ fed'[q] = fed[q] /\ seed'[q] = seed[q]
                               /\ queue'[q] = queue[q] /\ shown'[q] = shown[q]
    BY <1>13 DEF SendSeed, At, Upsert, steer_vars, store_vars, chan_vars, Brought, IInv,
       Inv, TypeOK
  <2>2. /\ ws[p] = "seed" /\ ws'[p] = "feed" /\ UNCHANGED <<queue, subs>>
        /\ fed'[p] = fed[p] \o seed[p].calls /\ shown'[p].state = seed[p].state
    BY <1>13 DEF SendSeed, At, Upsert, steer_vars, store_vars, chan_vars, IInv, Inv,
       TypeOK
  <2>3. fed[p] = <<>> /\ seed[p].calls \in Seq(Steps)
    BY <2>2 DEF IInv, Inv, CaughtUp, TypeOK, History
  <2>4. Brought(p)' = Brought(p)
    BY <2>2, <2>3, ConcatEmptySeq DEF Brought
  <2>9. UNCHANGED <<stepN, state, calls>>
    BY <1>13 DEF SendSeed, At, Upsert, steer_vars, store_vars, chan_vars
  <2>. QED BY <2>1, <2>2, <2>4, <2>9
       DEF IInv, CaughtUp
<1>14. ASSUME NEW p \in Pages, Forward(p)
      PROVE  CaughtUp'
  <2>1. \A q \in Pages \ {p} : /\ Brought(q)' = Brought(q) /\ (q \in subs' <=> q \in subs)
                               /\ ws'[q] = ws[q] /\ fed'[q] = fed[q] /\ seed'[q] = seed[q]
                               /\ queue'[q] = queue[q] /\ shown'[q] = shown[q]
    BY <1>14 DEF Forward, At, Upsert, steer_vars, store_vars, Brought, IInv, Inv, TypeOK
  <2> DEFINE q == queue[p]
             h == Head(q).calls
  <2>2. /\ ws[p] = "feed" /\ ws'[p] = "feed" /\ q # <<>> /\ UNCHANGED subs
        /\ queue'[p] = Tail(q) /\ fed'[p] = fed[p] \o h /\ shown'[p].state = Head(q).state
    BY <1>14 DEF Forward, At, Upsert, steer_vars, store_vars, IInv, Inv, TypeOK
  <2>3. /\ q \in Seq(History) /\ fed[p] \in Seq(Steps) /\ Consecutive(fed[p])
        /\ Brought(p) = fed[p] /\ Brought(p)' = fed'[p]
    BY <2>2 DEF IInv, Inv, TypeOK, CaughtUp, Brought
  <2>4. Latest(fed[p]) \in Nat
    BY <2>3 DEF Latest, Steps
  <2>5. PICK b \in 0..stepN : Leads(q, Latest(fed[p]), b) /\ (p \in subs => b = Latest(calls))
    BY <2>2, <2>3 DEF IInv, CaughtUp
  <2>6. Consecutive(fed'[p]) /\ Leads(Tail(q), Latest(fed'[p]), b)
    <3>1. b \in Nat
      BY <2>5 DEF IInv, Inv, TypeOK
    <3>2. CASE h = <<>> /\ Leads(Tail(q), Latest(fed[p]), b)
      <4>1. fed'[p] = fed[p]
        BY <2>2, <2>3, <3>2, ConcatEmptySeq
      <4>. QED BY <2>3, <3>2, <4>1
    <3>3. CASE h = <<Latest(fed[p]) + 1>> /\ Leads(Tail(q), Latest(fed[p]) + 1, b)
      <4> HIDE DEF h
      <4>1. h \in Seq(Steps) /\ h # <<>> /\ Len(h) = 1 /\ h[1] = Latest(fed[p]) + 1
        <5>1. Latest(fed[p]) + 1 \in Steps
          BY <2>4 DEF Steps
        <5>2. <<Latest(fed[p]) + 1>> \in Seq(Steps)
          BY <5>1
        <5>. QED BY <3>3, <5>2
      <4>2. Consecutive(fed[p] \o h) /\ Latest(fed[p] \o h) = Latest(fed[p]) + 1
        BY <2>3, <3>3, <4>1, Upserted
      <4>. QED BY <2>2, <3>3, <4>2
    <3>. QED BY <2>2, <2>3, <2>4, <2>5, <3>1, <3>2, <3>3, LeadsFrom
  <2>7. p \in subs => state = IF Tail(q) # <<>> THEN Tail(q)[Len(Tail(q))].state
                              ELSE shown'[p].state
    <3>1. p \in subs => state = q[Len(q)].state
      BY <2>2 DEF IInv, CaughtUp
    <3>2. /\ Len(q) \in Nat \ {0} /\ Head(q) = q[1]
          /\ Tail(q) \in Seq(History) /\ Len(Tail(q)) = Len(q) - 1
          /\ \A i \in 1..(Len(q) - 1) : Tail(q)[i] = q[i + 1]
          /\ (Tail(q) = <<>> <=> Len(q) = 1)
      <4>1. /\ Tail(q) \in Seq(History) /\ Len(Tail(q)) = Len(q) - 1
            /\ \A i \in 1..Len(Tail(q)) : Tail(q)[i] = q[i + 1]
        BY <2>2, <2>3, HeadTailProperties
      <4>2. Len(q) \in Nat \ {0} /\ Head(q) = q[1]
        BY <2>2, <2>3
      <4>3. \A t \in Seq(History) : t = <<>> <=> Len(t) = 0
        OBVIOUS
      <4>4. Tail(q) = <<>> <=> Len(Tail(q)) = 0
        BY <4>1, <4>3
      <4>5. \A i \in 1..(Len(q) - 1) : Tail(q)[i] = q[i + 1]
        BY <4>1
      <4>. QED BY <4>1, <4>2, <4>4, <4>5
    <3>3. CASE Len(q) = 1
      BY <2>2, <3>1, <3>2, <3>3
    <3>4. CASE Len(q) > 1
      <4>1. Tail(q)[Len(Tail(q))] = q[Len(q)]
        BY <3>2, <3>4
      <4>. QED BY <3>1, <3>2, <3>4, <4>1
    <3>. QED BY <3>2, <3>3, <3>4
  <2>9. UNCHANGED <<stepN, state, calls>>
    BY <1>14 DEF Forward, At, Upsert, steer_vars, store_vars
  <2>10. ASSUME NEW r \in Pages \ {p}, ws'[r] \in {"seed", "feed"}
         PROVE  /\ ws'[r] = "seed" => fed'[r] = <<>>
                /\ Consecutive(Brought(r)')
                /\ \E c \in 0..stepN' : /\ Leads(queue'[r], Latest(Brought(r)'), c)
                                        /\ r \in subs' => c = Latest(calls')
                /\ r \in subs' =>
                     state' = IF queue'[r] # <<>> THEN queue'[r][Len(queue'[r])].state
                              ELSE IF ws'[r] = "seed" THEN seed'[r].state ELSE shown'[r].state
    BY <2>1, <2>9, <2>10 DEF IInv, CaughtUp
  <2>11. /\ Consecutive(Brought(p)')
         /\ \E c \in 0..stepN' : /\ Leads(queue'[p], Latest(Brought(p)'), c)
                                 /\ p \in subs' => c = Latest(calls')
         /\ p \in subs' =>
              state' = IF queue'[p] # <<>> THEN queue'[p][Len(queue'[p])].state
                       ELSE shown'[p].state
    BY <2>2, <2>3, <2>5, <2>6, <2>7, <2>9
  <2>. QED BY <2>2, <2>10, <2>11 DEF CaughtUp
<1>15. ASSUME NEW p \in Pages, FeedEnds(p)
      PROVE  CaughtUp'
  BY <1>15, ProxyAssumption
  DEF FeedEnds, At, steer_vars, store_vars, chan_vars, IInv, Inv, TypeOK, CaughtUp,
     Brought
<1>16. ASSUME NEW p \in Pages, SocketLost(p)
      PROVE  CaughtUp'
  BY <1>16, ProxyAssumption
  DEF SocketLost, At, steer_vars, store_vars, chan_vars, IInv, Inv, TypeOK, CaughtUp,
     Brought
<1>17. ASSUME NEW p \in Pages, Cancel(p)
      PROVE  CaughtUp'
  BY <1>17, ProxyAssumption
  DEF Cancel, At, StillRegistered, steer_vars, store_vars, IInv, Inv, TypeOK, CaughtUp,
     Brought
<1>18. CASE UNCHANGED vars
  BY <1>18 DEF vars, steer_vars, store_vars, chan_vars, page_vars, IInv, Inv, TypeOK,
     CaughtUp, Brought
<1>. QED BY <1>1, <1>2, <1>3, <1>4, <1>5, <1>6, <1>7, <1>8, <1>9, <1>10, <1>11, <1>12,
     <1>13, <1>14, <1>15, <1>16, <1>17, <1>18 DEF Next, RequestStep, PageStep

-----------------------------------------------------------------------------
(* The theorems                                                              *)

\* The invariant holds at first.
LEMMA InitIInv ==
    ASSUME Init
    PROVE  IInv
<1>1. TypeOK
  <2>1. <<>> \in Seq(Steps) /\ <<>> \in Seq(History) /\ Len(<<>>) = 0
    OBVIOUS
  <2>2. [state |-> "READY", calls |-> <<>>] \in History
    BY <2>1 DEF History, States
  <2>3. NSteps \in Nat /\ MaxCalls \in Nat /\ Cap \in Nat /\ MaxSubs \in Nat
    BY ProxyAssumption
  <2>4. seed \in [Pages -> History] /\ shown \in [Pages -> History]
    BY <2>2 DEF Init
  <2>5. queue \in [Pages -> Seq(History)] /\ \A p \in Pages : Len(queue[p]) <= Cap
    BY <2>1, <2>3 DEF Init
  <2>6. chClosed \in [Pages -> BOOLEAN]
    BY DEF Init
  <2>7. calls \in Seq(Steps) /\ Len(calls) <= MaxCalls
    BY <2>1, <2>3 DEF Init
  <2>8. fed \in [Pages -> Seq(Steps)] /\ asked \in Seq(Steps) /\ answers \in Seq(Steps)
    BY <2>1 DEF Init
  <2>9. left \in [Requests -> 0..NSteps] /\ nSubs \in [Pages -> 0..MaxSubs]
    BY <2>3 DEF Init
  <2>10. /\ pc \in [Requests -> {"idle", "lock", "send", "recv", "record", "fail", "done"}]
         /\ seq \in [Requests -> Nat] /\ got \in [Requests -> Nat]
         /\ closing \in [Closes -> {"idle", "state", "done"}]
         /\ ws \in [Pages -> {"off", "seed", "feed", "cancel"}]
    BY DEF Init
  <2>. QED BY <2>4, <2>5, <2>6, <2>7, <2>8, <2>9, <2>10 DEF Init, TypeOK, States
<1>2. OneAtATime /\ OnTheStream /\ OwnAnswers /\ ChannelsClosedOnce /\ CaughtUp
  BY ProxyAssumption
     DEF Init, OneAtATime, Holds, OnTheStream, OwnAnswers, ChannelsClosedOnce, CaughtUp
<1>3. NothingUnrecorded
  <2>1. Underway = {}
    BY DEF Init, Underway
  <2>2. Made = 0
    BY <2>1, FS_EmptySet DEF Init, Made
  <2>. QED BY <2>2, ProxyAssumption DEF Init, NothingUnrecorded, Consecutive, Latest
<1>. QED BY <1>1, <1>2, <1>3 DEF IInv, Inv

\* Every step keeps it.
LEMMA NextIInv ==
    ASSUME IInv, [Next]_vars
    PROVE  IInv'
<1>1. TypeOK' /\ OneAtATime' /\ OnTheStream' /\ OwnAnswers'
  BY TypeNext, OneAtATimeNext, OnTheStreamNext, OwnAnswersNext
<1>2. NothingUnrecorded' /\ ChannelsClosedOnce' /\ CaughtUp'
  BY RecordedNext, ChannelsNext, CaughtUpNext
<1>. QED BY <1>1, <1>2 DEF IInv, Inv

\* The history has every step once and in order, whatever fails and however the
\* requests compete for mu; at most one step is on the stream; and no channel of
\* a subscriber is closed twice or used after it was closed.
THEOREM ProxyInvariant == Spec => []Inv
<1>1. Init => IInv
  BY InitIInv
<1>2. IInv /\ [Next]_vars => IInv'
  BY NextIInv
<1>3. IInv => Inv
  BY DEF IInv
<1>. QED BY <1>1, <1>2, <1>3, PTL DEF Spec

\* Every request is answered with the answer to its own step, or with an error.
THEOREM RequestsGetOwnAnswers == Spec => []OwnAnswers
<1>1. Init => IInv
  BY InitIInv
<1>2. IInv /\ [Next]_vars => IInv'
  BY NextIInv
<1>3. IInv => OwnAnswers
  BY DEF IInv
<1>. QED BY <1>1, <1>2, <1>3, PTL DEF Spec

\* Between the snapshot and the stream, and from then on, a subscriber loses no
\* update and gets none twice, until it is cut off.
THEOREM PagesLoseNothing == Spec => []CaughtUp
<1>1. Init => IInv
  BY InitIInv
<1>2. IInv /\ [Next]_vars => IInv'
  BY NextIInv
<1>3. IInv => CaughtUp
  BY DEF IInv
<1>. QED BY <1>1, <1>2, <1>3, PTL DEF Spec
=============================================================================
