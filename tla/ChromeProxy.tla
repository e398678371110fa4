----------------------------- MODULE ChromeProxy -----------------------------
(***************************************************************************)
(* chrome-proxy: HTTP handlers that steer one interactive Session stream,  *)
(* one step at a time, the history of the calls they make (histStore), and *)
(* the dashboards that follow it.                                          *)
(*                                                                         *)
(* A step is numbered, sent, answered and recorded under the proxy's mu.   *)
(* The history keeps the last calls in a ring and passes every change on   *)
(* to the channel of each subscriber, all under its own mu; a subscriber   *)
(* whose channel is full is dropped.  A dashboard's page opens a socket,   *)
(* whose handler subscribes, and opens another when it loses it.           *)
(*                                                                         *)
(* The proxy holds one connection; it is READY before HTTP is served.  The *)
(* exit of the process after POST /close is not modelled.                  *)
(***************************************************************************)
EXTENDS Naturals, Sequences, FiniteSets, SequencesExt

CONSTANTS
    Requests,   \* HTTP requests that run steps
    Batches,    \* those that hold mu for all of them: POST /steps
    Closes,     \* POST /close requests
    Pages,      \* dashboards
    NoRequest,  \* "mu is free"
    NSteps,     \* bound: steps of a request
    MaxCalls,   \* bound: calls in the ring, instead of 1000
    Cap,        \* bound: capacity of a subscriber's channel, instead of 64
    MaxSubs     \* bound: subscriptions of a page

ASSUME ProxyAssumption ==
    /\ Batches \subseteq Requests
    /\ NoRequest \notin Requests
    /\ NSteps \in Nat \ {0} /\ MaxCalls \in Nat \ {0}
    /\ Cap \in Nat \ {0} /\ MaxSubs \in Nat

Steps == Nat \ {0}

VARIABLES
    mu,         \* the request that holds proxy.mu
    stepN,      \* steps made
    stream,     \* "open", "broken", or "closed" by CloseSend
    asked,      \* steps sent and not yet answered
    answers,    \* answers not yet received, by the step they answer
    pc, left,   \* where a request's handler is, and its steps to go
    seq, got,   \* its step's number, and what it received; 0 is an error
    closing,    \* where a POST /close is
    state,      \* of the connection: "READY", "CLOSED" or "ERRORED"
    calls,      \* the ring of recorded steps
    subs,       \* the pages whose channel is registered
    queue,      \* the channel of a page's subscription
    chClosed,   \* it is closed
    panicked,   \* a closed channel was closed again, or sent on
    readers,    \* the pages that keep reading; fixed
    ws,         \* where a page's socket handler is
    nSubs,      \* how often a page has subscribed
    seed,       \* the snapshot the handler has yet to send
    fed,        \* history: the steps this subscription brought the page
    shown       \* the page: its state and the calls it lists

steer_vars == <<mu, stepN, stream, asked, answers, pc, left, seq, got, closing>>
store_vars == <<state, calls>>
chan_vars  == <<subs, queue, chClosed, panicked>>
page_vars  == <<readers, ws, nSubs, seed, fed, shown>>
vars == <<steer_vars, store_vars, chan_vars, page_vars>>

-----------------------------------------------------------------------------
States == {"READY", "CLOSED", "ERRORED"}

\* A ConnectionHistory: the state, and the calls to append.
History == [state : States, calls : Seq(Steps)]

TypeOK ==
    /\ mu \in Requests \cup {NoRequest}
    /\ stepN \in Nat
    /\ stream \in {"open", "broken", "closed"}
    /\ asked \in Seq(Steps) /\ answers \in Seq(Steps)
    /\ pc \in [Requests -> {"idle", "lock", "send", "recv", "record", "fail", "done"}]
    /\ left \in [Requests -> 0..NSteps]
    /\ seq \in [Requests -> Nat] /\ got \in [Requests -> Nat]
    /\ closing \in [Closes -> {"idle", "state", "done"}]
    /\ state \in States
    /\ calls \in Seq(Steps) /\ Len(calls) <= MaxCalls
    /\ subs \subseteq Pages
    /\ queue \in [Pages -> Seq(History)] /\ \A p \in Pages : Len(queue[p]) <= Cap
    /\ chClosed \in [Pages -> BOOLEAN] /\ panicked \in BOOLEAN
    /\ readers \subseteq Pages
    /\ ws \in [Pages -> {"off", "seed", "feed", "cancel"}]
    /\ nSubs \in [Pages -> 0..MaxSubs]
    /\ seed \in [Pages -> History]
    /\ fed \in [Pages -> Seq(Steps)]
    /\ shown \in [Pages -> History]

Init ==
    /\ mu = NoRequest /\ stepN = 0
    /\ stream = "open" /\ asked = <<>> /\ answers = <<>>
    /\ pc = [r \in Requests |-> "idle"]
    /\ left = [r \in Requests |-> NSteps]
    /\ seq = [r \in Requests |-> 0] /\ got = [r \in Requests |-> 0]
    /\ closing = [k \in Closes |-> "idle"]
    /\ state = "READY" /\ calls = <<>>
    /\ subs = {} /\ panicked = FALSE
    /\ queue = [p \in Pages |-> <<>>]
    /\ chClosed = [p \in Pages |-> FALSE]
    /\ readers \in SUBSET Pages
    /\ ws = [p \in Pages |-> "off"]
    /\ nSubs = [p \in Pages |-> 0]
    /\ seed = [p \in Pages |-> [state |-> "READY", calls |-> <<>>]]
    /\ fed = [p \in Pages |-> <<>>]
    /\ shown = [p \in Pages |-> [state |-> "READY", calls |-> <<>>]]

-----------------------------------------------------------------------------
(* The history *)

Full(p) == Len(queue[p]) >= Cap

\* Seeded bugs: a message for a full channel is discarded; broadcast waits for
\* room.
Nobody == {}
AllHaveRoom == \A p \in subs : ~Full(p)

\* Subscribers that broadcast drops, and what it waits for: nothing.
Dropped    == {p \in subs : Full(p)}
CanDeliver == TRUE

\* broadcast, under h.mu: to every subscriber, or its channel is closed.
Broadcast(msg) ==
    /\ ~panicked
    /\ CanDeliver
    /\ queue' = [p \in Pages |-> IF p \in subs /\ ~Full(p) THEN Append(queue[p], msg)
                                                         ELSE queue[p]]
    /\ subs' = subs \ Dropped
    /\ chClosed' = [p \in Pages |-> chClosed[p] \/ p \in Dropped]
    /\ panicked' = \E p \in subs : chClosed[p]

SetState(s) ==
    /\ state' = s
    /\ Broadcast([state |-> s, calls |-> <<>>])
    /\ UNCHANGED calls

LastCalls(q) == SubSeq(q, Len(q) - MaxCalls + 1, Len(q))

Ring(q) == IF Len(q) > MaxCalls THEN LastCalls(q) ELSE q

AppendCall(n) ==
    /\ calls' = Ring(Append(calls, n))
    /\ Broadcast([state |-> state, calls |-> <<n>>])
    /\ UNCHANGED state

-----------------------------------------------------------------------------
(* The steps *)

Goto(r, from, to) == ~panicked /\ pc[r] = from /\ pc' = [pc EXCEPT ![r] = to]

\* Seeded bug: nobody holds mu.
MuIgnored == TRUE

MuFree == mu = NoRequest

Arrive(r) ==
    /\ Goto(r, "idle", "lock")
    /\ UNCHANGED <<mu, stepN, stream, asked, answers, left, seq, got, closing,
                   store_vars, chan_vars, page_vars>>

Lock(r) ==
    /\ MuFree
    /\ Goto(r, "lock", "send")
    /\ mu' = r
    /\ UNCHANGED <<stepN, stream, asked, answers, left, seq, got, closing,
                   store_vars, chan_vars, page_vars>>

SendStep(r) ==
    /\ Goto(r, "send", IF stream = "open" THEN "recv" ELSE "record")
    /\ stepN' = stepN + 1
    /\ seq' = [seq EXCEPT ![r] = stepN + 1]
    /\ got' = [got EXCEPT ![r] = 0]
    /\ asked' = IF stream = "open" THEN Append(asked, stepN + 1) ELSE asked
    /\ UNCHANGED <<mu, stream, answers, left, closing, store_vars, chan_vars, page_vars>>

\* The next answer on the stream, whatever its id.
RecvAnswer(r) ==
    /\ Goto(r, "recv", "record")
    /\ answers # <<>>
    /\ got' = [got EXCEPT ![r] = Head(answers)]
    /\ answers' = Tail(answers)
    /\ UNCHANGED <<mu, stepN, stream, asked, left, seq, closing,
                   store_vars, chan_vars, page_vars>>

RecvFails(r) ==
    /\ Goto(r, "recv", "record")
    /\ answers = <<>> /\ stream # "open"
    /\ UNCHANGED <<mu, stepN, stream, asked, answers, left, seq, got, closing,
                   store_vars, chan_vars, page_vars>>

\* A batch keeps mu for its next step and passes over an error the session
\* reports; other requests return it.  A failure of the stream ends both.
AfterRecord(r) ==
    IF got[r] = 0 THEN {"fail"}
    ELSE IF left[r] = 1 THEN {"done"}
    ELSE IF r \in Batches THEN {"send"} ELSE {"lock", "done"}

Record(r) ==
    /\ \E next \in AfterRecord(r) :
        /\ Goto(r, "record", next)
        /\ mu' = IF next \in {"fail", "send"} THEN mu ELSE NoRequest
    /\ AppendCall(seq[r])
    /\ left' = [left EXCEPT ![r] = @ - 1]
    /\ UNCHANGED <<stepN, stream, asked, answers, seq, got, closing, page_vars>>

Fail(r) ==
    /\ Goto(r, "fail", "done")
    /\ SetState("ERRORED")
    /\ mu' = NoRequest
    /\ UNCHANGED <<stepN, stream, asked, answers, left, seq, got, closing, page_vars>>

\* POST /close: CloseSend under mu, then, without it, the state.
CloseSend(k) ==
    /\ ~panicked
    /\ MuFree
    /\ closing[k] = "idle"
    /\ closing' = [closing EXCEPT ![k] = "state"]
    /\ stream' = IF stream = "open" THEN "closed" ELSE stream
    /\ UNCHANGED <<mu, stepN, asked, answers, pc, left, seq, got,
                   store_vars, chan_vars, page_vars>>

SetClosed(k) ==
    /\ closing[k] = "state"
    /\ closing' = [closing EXCEPT ![k] = "done"]
    /\ SetState("CLOSED")
    /\ UNCHANGED <<mu, stepN, stream, asked, answers, pc, left, seq, got, page_vars>>

\* The interactive service answers the steps in order.
RemoteAnswers ==
    /\ ~panicked
    /\ stream = "open" /\ asked # <<>>
    /\ answers' = Append(answers, Head(asked))
    /\ asked' = Tail(asked)
    /\ UNCHANGED <<mu, stepN, stream, pc, left, seq, got, closing,
                   store_vars, chan_vars, page_vars>>

StreamBreaks ==
    /\ ~panicked
    /\ stream = "open"
    /\ stream' = "broken"
    /\ asked' = <<>>
    /\ UNCHANGED <<mu, stepN, answers, pc, left, seq, got, closing,
                   store_vars, chan_vars, page_vars>>

-----------------------------------------------------------------------------
(* The dashboards: ChromeMan.History, the /ws handler and the page *)

At(p, from, to) == ~panicked /\ ws[p] = from /\ ws' = [ws EXCEPT ![p] = to]

\* The snapshot is taken and the channel registered in one section of h.mu.
Subscribe(p) ==
    /\ nSubs[p] < MaxSubs
    /\ At(p, "off", "seed")
    /\ nSubs' = [nSubs EXCEPT ![p] = @ + 1]
    /\ seed' = [seed EXCEPT ![p] = [state |-> state, calls |-> calls]]
    /\ fed' = [fed EXCEPT ![p] = <<>>]
    /\ subs' = subs \cup {p}
    /\ queue' = [queue EXCEPT ![p] = <<>>]
    /\ chClosed' = [chClosed EXCEPT ![p] = FALSE]
    /\ UNCHANGED <<steer_vars, store_vars, panicked, readers, shown>>

\* upsert: the page takes the state and appends the calls.
Upsert(p, msg) ==
    /\ shown' = [shown EXCEPT ![p] = [state |-> msg.state, calls |-> @.calls \o msg.calls]]
    /\ fed' = [fed EXCEPT ![p] = @ \o msg.calls]

SendSeed(p) ==
    /\ At(p, "seed", "feed")
    /\ Upsert(p, seed[p])
    /\ UNCHANGED <<steer_vars, store_vars, chan_vars, readers, nSubs, seed>>

Forward(p) ==
    /\ queue[p] # <<>>
    /\ At(p, "feed", "feed")
    /\ Upsert(p, Head(queue[p]))
    /\ queue' = [queue EXCEPT ![p] = Tail(@)]
    /\ UNCHANGED <<steer_vars, store_vars, subs, chClosed, panicked,
                   readers, nSubs, seed>>

\* A dropped subscriber gets what is left in its channel, and then its end.
FeedEnds(p) ==
    /\ chClosed[p] /\ queue[p] = <<>>
    /\ At(p, "feed", "cancel")
    /\ UNCHANGED <<steer_vars, store_vars, chan_vars, readers, nSubs, seed, fed, shown>>

\* The socket is lost, which cancels the stream wherever it is.
SocketLost(p) ==
    /\ \/ At(p, "seed", "cancel")
       \/ At(p, "feed", "cancel")
    /\ UNCHANGED <<steer_vars, store_vars, chan_vars, readers, nSubs, seed, fed, shown>>

\* Seeded bug: cancel does not look whether the channel is still registered.
AnyPage(p) == TRUE

StillRegistered(p) == p \in subs

\* The deferred cancel, under h.mu.
Cancel(p) ==
    /\ At(p, "cancel", "off")
    /\ IF StillRegistered(p)
         THEN /\ subs' = subs \ {p}
              /\ chClosed' = [chClosed EXCEPT ![p] = TRUE]
              /\ panicked' = chClosed[p]
         ELSE UNCHANGED <<subs, chClosed, panicked>>
    /\ UNCHANGED <<steer_vars, store_vars, queue, readers, nSubs, seed, fed, shown>>

RequestStep(r) == SendStep(r) \/ RecvAnswer(r) \/ RecvFails(r) \/ Record(r) \/ Fail(r)
PageStep(p)    == SendSeed(p) \/ Forward(p) \/ FeedEnds(p)

Next ==
    \/ \E r \in Requests : Arrive(r) \/ Lock(r) \/ RequestStep(r)
    \/ \E k \in Closes : CloseSend(k) \/ SetClosed(k)
    \/ RemoteAnswers \/ StreamBreaks
    \/ \E p \in Pages : Subscribe(p) \/ PageStep(p) \/ SocketLost(p) \/ Cancel(p)

Spec == Init /\ [][Next]_vars

\* Handlers run, a mutex is not kept from anybody for ever, the service answers,
\* and the pages that read also reconnect.
Fairness ==
    /\ \A r \in Requests : WF_vars(RequestStep(r)) /\ SF_vars(Lock(r))
    /\ \A k \in Closes : WF_vars(SetClosed(k))
    /\ WF_vars(RemoteAnswers)
    /\ \A p \in Pages : /\ WF_vars(Cancel(p))
                        /\ WF_vars(p \in readers /\ (PageStep(p) \/ Subscribe(p)))

FairSpec == Spec /\ Fairness
=============================================================================
