----------------------------- MODULE EventStream -----------------------------
(***************************************************************************)
(* Event subscriptions: dispatchEvent and On of internal/cdpclient and the *)
(* SubscribeEvents handlers of the domain servers, internal/server/*.      *)
(*                                                                         *)
(* A subscription is one SubscribeEvents stream.  It makes a channel,      *)
(* registers a handler for every event of its domain, forwards what the    *)
(* handlers put in the channel to its gRPC peer, and unregisters when it   *)
(* ends.  The handlers run on the client's one read loop, which also reads *)
(* the responses to commands.  What kind of handlers a domain has is its   *)
(* profile (EventDomains has one for every domain).                        *)
(*                                                                         *)
(* Events are numbered in the order Chrome sends them; what they carry is  *)
(* their method and their session.  Events whose parameters do not parse   *)
(* are forwarded by no handler and are left out.  Reconnection is          *)
(* CdpClient's business: the handlers stay.                                *)
(***************************************************************************)
EXTENDS Naturals, Sequences, SequencesExt

CONSTANTS
    Subs,           \* SubscribeEvents streams
    Slow,           \* those whose peer may stop reading for good
    Leavers,        \* those whose peer may cancel the stream
    Profiles,       \* the kinds of handlers they may have
    Asked,          \* the sessions they may name
    Sessions,       \* the sessions Chrome has
    NoSession,      \* an empty session_id in a request
    Answers,        \* whether a response to a command may come in between
    Closes,         \* whether the client may be closed
    NMethods,       \* bound: events of a domain that has several
    Cap,            \* bound: capacity of a channel, instead of 64 or 128
    MaxEvents       \* bound: events Chrome sends

ASSUME StreamAssumption ==
    /\ Slow \subseteq Subs /\ Leavers \subseteq Subs
    /\ Asked \subseteq Sessions \cup {NoSession}
    /\ Answers \in BOOLEAN /\ Closes \in BOOLEAN
    /\ Profiles \subseteq [blocking : BOOLEAN, bySession : BOOLEAN,
                           endsWithClient : BOOLEAN, several : BOOLEAN]
    /\ NoSession \notin Sessions
    /\ NMethods \in Nat \ {0} /\ Cap \in Nat \ {0} /\ MaxEvents \in Nat

Methods == 1..NMethods
Event   == [method : Methods, session : Sessions]

VARIABLES
    request,    \* what every stream asks for; fixed
    log,        \* history: the events read, in order
    handlers,   \* method -> the streams with a handler for it, in order
    rl,         \* the read loop: "read", "call" or "stopped"
    todo,       \* the handlers it has yet to call for the last event
    answer,     \* a response to a command: "none", "waiting" or "delivered"
    clientDone, \* client.Done() is closed
    panicked,   \* a send on a closed channel: the process is gone
    pc,         \* where every stream's goroutine is
    regs,       \* the methods it is registered for
    since,      \* history: how many events it had missed when it registered
    queue,      \* its channel
    chClosed,   \* its channel is closed
    inHand,     \* the event in stream.Send; 0 is none
    sent,       \* history: what its peer got
    cancelled   \* its peer is gone (stream.Context())

reader_vars == <<log, rl, todo, answer>>
client_vars == <<clientDone, panicked>>
peer_vars   == <<inHand, sent, cancelled>>
reg_vars    == <<handlers, regs, since>>
chan_vars   == <<queue, chClosed>>
vars == <<request, reader_vars, client_vars, pc, reg_vars, chan_vars, peer_vars>>

-----------------------------------------------------------------------------
StreamPc == {"idle", "register", "select", "sending", "unregister", "close", "done"}

TypeOK ==
    /\ request \in [Subs -> [profile : Profiles, session : Asked]]
    /\ log \in Seq(Event) /\ Len(log) <= MaxEvents
    /\ handlers \in [Methods -> Seq(Subs)]
    /\ rl \in {"read", "call", "stopped"}
    /\ todo \in Seq(Subs) /\ (rl = "call" <=> todo # <<>>)
    /\ answer \in {"none", "waiting", "delivered"}
    /\ clientDone \in BOOLEAN /\ panicked \in BOOLEAN
    /\ pc \in [Subs -> StreamPc]
    /\ regs \in [Subs -> SUBSET Methods]
    /\ since \in [Subs -> [Methods -> 0..MaxEvents]]
    /\ queue \in [Subs -> Seq(1..MaxEvents)]
    /\ \A s \in Subs : Len(queue[s]) <= Cap
    /\ chClosed \in [Subs -> BOOLEAN]
    /\ inHand \in [Subs -> 0..MaxEvents]
    /\ sent \in [Subs -> Seq(1..MaxEvents)]
    /\ cancelled \in [Subs -> BOOLEAN]

Init ==
    /\ request \in [Subs -> [profile : Profiles, session : Asked]]
    /\ log = <<>>
    /\ handlers = [m \in Methods |-> <<>>]
    /\ rl = "read" /\ todo = <<>> /\ answer = "none"
    /\ clientDone = FALSE /\ panicked = FALSE
    /\ pc = [s \in Subs |-> "idle"]
    /\ regs = [s \in Subs |-> {}]
    /\ since = [s \in Subs |-> [m \in Methods |-> 0]]
    /\ queue = [s \in Subs |-> <<>>]
    /\ chClosed = [s \in Subs |-> FALSE]
    /\ inHand = [s \in Subs |-> 0]
    /\ sent = [s \in Subs |-> <<>>]
    /\ cancelled = [s \in Subs |-> FALSE]

Profile(s) == request[s].profile
\* The methods a stream registers for.
Wanted(s) == IF Profile(s).several THEN Methods ELSE {1}

-----------------------------------------------------------------------------
(* The read loop *)

\* Seeded bugs: the map is keyed by domain; handlers run under eventMu.
SnapshotOfDomain(m) == handlers[m] \o handlers[1]
EventMuHeldForHandlers == rl = "call"

\* dispatchEvent copies the handlers of the method, and no other, and calls
\* them with eventMu released.
Snapshot(m)  == handlers[m]
EventMuHeld  == FALSE

ReadEvent ==
    /\ ~panicked
    /\ rl = "read"
    /\ Len(log) < MaxEvents
    /\ \E e \in Event :
        /\ log' = Append(log, e)
        /\ todo' = Snapshot(e.method)
    /\ rl' = IF todo' = <<>> THEN "read" ELSE "call"
    /\ UNCHANGED <<request, answer, client_vars, pc, reg_vars, chan_vars, peer_vars>>

\* Seeded bug: the session is not compared.
ForwardsAll(s, e) == TRUE

\* "Only forward events for the requested session (or all if empty)."
Forwards(s, e) ==
    Profile(s).bySession /\ request[s].session # NoSession
        => e.session = request[s].session

\* Seeded bug: the last slot of the channel is never used.
RoomButOne(s) == Len(queue[s]) + 1 < Cap

HasRoom(s) == Len(queue[s]) < Cap

\* Seeded bug: the default case is missing.
BlocksAlways(s) == TRUE

Blocks(s) == Profile(s).blocking

HandlerDone ==
    /\ todo' = Tail(todo)
    /\ rl' = IF todo' = <<>> THEN "read" ELSE "call"

\* One handler: filter, then a send to the stream's channel, which blocks while
\* the channel is full, or gives the event up, and panics when it is closed.
CallHandler ==
    /\ ~panicked
    /\ rl = "call"
    /\ LET s == Head(todo) IN
        \/ /\ ~Forwards(s, Last(log))
           /\ HandlerDone
           /\ UNCHANGED <<queue, panicked>>
        \/ /\ Forwards(s, Last(log)) /\ chClosed[s]
           /\ panicked' = TRUE
           /\ UNCHANGED <<rl, todo, queue>>
        \/ /\ Forwards(s, Last(log)) /\ ~chClosed[s] /\ HasRoom(s)
           /\ queue' = [queue EXCEPT ![s] = Append(@, Len(log))]
           /\ HandlerDone
           /\ UNCHANGED panicked
        \/ /\ Forwards(s, Last(log)) /\ ~HasRoom(s) /\ ~Blocks(s)
           /\ HandlerDone
           /\ UNCHANGED <<queue, panicked>>
    /\ UNCHANGED <<request, log, answer, clientDone, pc, reg_vars, chClosed, peer_vars>>

AnswerArrives ==
    /\ ~panicked
    /\ Answers /\ answer = "none"
    /\ answer' = "waiting"
    /\ UNCHANGED <<request, log, rl, todo, client_vars, pc, reg_vars, chan_vars, peer_vars>>

ReadAnswer ==
    /\ ~panicked
    /\ rl = "read"
    /\ answer = "waiting"
    /\ answer' = "delivered"
    /\ UNCHANGED <<request, log, rl, todo, client_vars, pc, reg_vars, chan_vars, peer_vars>>

StopReading ==
    /\ ~panicked
    /\ rl = "read" /\ clientDone
    /\ rl' = "stopped"
    /\ UNCHANGED <<request, log, todo, answer, client_vars, pc, reg_vars, chan_vars, peer_vars>>

ClientCloses ==
    /\ ~panicked
    /\ Closes /\ ~clientDone
    /\ clientDone' = TRUE
    /\ UNCHANGED <<request, reader_vars, panicked, pc, reg_vars, chan_vars, peer_vars>>

-----------------------------------------------------------------------------
(* A stream *)

Goto(s, from, to) ==
    /\ ~panicked
    /\ pc[s] = from
    /\ pc' = [pc EXCEPT ![s] = to]

Subscribe(s) ==
    /\ Goto(s, "idle", "register")
    /\ UNCHANGED <<request, reader_vars, client_vars, reg_vars, chan_vars, peer_vars>>

\* On, once for every event of the domain: events come in between.
Register(s) ==
    /\ ~EventMuHeld
    /\ Goto(s, "register", IF Cardinality(regs[s]) + 1 = Cardinality(Wanted(s))
                             THEN "select" ELSE "register")
    /\ LET m == Cardinality(regs[s]) + 1 IN
        /\ handlers' = [handlers EXCEPT ![m] = Append(@, s)]
        /\ regs' = [regs EXCEPT ![s] = @ \cup {m}]
        /\ since' = [since EXCEPT ![s][m] = Len(log)]
    /\ UNCHANGED <<request, reader_vars, client_vars, chan_vars, peer_vars>>

Receive(s) ==
    /\ queue[s] # <<>>
    /\ Goto(s, "select", "sending")
    /\ inHand' = [inHand EXCEPT ![s] = Head(queue[s])]
    /\ queue' = [queue EXCEPT ![s] = Tail(@)]
    /\ UNCHANGED <<request, reader_vars, client_vars, reg_vars, chClosed, sent, cancelled>>

\* stream.Send returns when the peer's window has room.
Sent(s) ==
    /\ Goto(s, "sending", "select")
    /\ sent' = [sent EXCEPT ![s] = Append(@, inHand[s])]
    /\ inHand' = [inHand EXCEPT ![s] = 0]
    /\ UNCHANGED <<request, reader_vars, client_vars, reg_vars, chan_vars, cancelled>>

SendFails(s) ==
    /\ cancelled[s]
    /\ Goto(s, "sending", "unregister")
    /\ inHand' = [inHand EXCEPT ![s] = 0]
    /\ UNCHANGED <<request, reader_vars, client_vars, reg_vars, chan_vars, sent, cancelled>>

SeesCancel(s) ==
    /\ cancelled[s]
    /\ Goto(s, "select", "unregister")
    /\ UNCHANGED <<request, reader_vars, client_vars, reg_vars, chan_vars, peer_vars>>

\* case <-s.client.Done()
Watches(s) == Profile(s).endsWithClient

SeesClosed(s) ==
    /\ clientDone /\ Watches(s)
    /\ Goto(s, "select", "unregister")
    /\ UNCHANGED <<request, reader_vars, client_vars, reg_vars, chan_vars, peer_vars>>

\* Seeded bug: the entry to delete is looked up by position.
WithoutFirst(q, s) == Tail(q)

\* The entry is found by its id and cut out, in a section of eventMu.
Without(q, s) == IF s \in Range(q) THEN RemoveAt(q, CHOOSE i \in DOMAIN q : q[i] = s) ELSE q

\* The deferred unsubscribes, one after the other; then, where there is one, the
\* deferred close of the channel.
Unregister(s) ==
    /\ ~EventMuHeld
    /\ Goto(s, "unregister", IF Cardinality(regs[s]) > 1 THEN "unregister"
                             ELSE IF Profile(s).blocking THEN "close" ELSE "done")
    /\ \E m \in regs[s] :
        /\ handlers' = [handlers EXCEPT ![m] = Without(@, s)]
        /\ regs' = [regs EXCEPT ![s] = @ \ {m}]
    /\ UNCHANGED <<request, reader_vars, client_vars, since, chan_vars, peer_vars>>

CloseChannel(s) ==
    /\ Goto(s, "close", "done")
    /\ chClosed' = [chClosed EXCEPT ![s] = TRUE]
    /\ UNCHANGED <<request, reader_vars, client_vars, reg_vars, queue, peer_vars>>

PeerLeaves(s) ==
    /\ ~panicked
    /\ s \in Leavers /\ pc[s] \notin {"idle", "done"} /\ ~cancelled[s]
    /\ cancelled' = [cancelled EXCEPT ![s] = TRUE]
    /\ UNCHANGED <<request, reader_vars, client_vars, pc, reg_vars, chan_vars, inHand, sent>>

StreamStep(s) ==
    \/ Register(s) \/ Receive(s) \/ SendFails(s) \/ SeesCancel(s) \/ SeesClosed(s)
    \/ Unregister(s) \/ CloseChannel(s)

ReaderStep == CallHandler \/ ReadAnswer

Next ==
    \/ ReadEvent \/ ReaderStep \/ AnswerArrives \/ StopReading \/ ClientCloses
    \/ \E s \in Subs : Subscribe(s) \/ StreamStep(s) \/ Sent(s) \/ PeerLeaves(s)

Spec == Init /\ [][Next]_vars

\* The read loop and the streams run; a peer that is not slow takes what it is
\* sent.  Nobody has to subscribe, to leave, to close or to send an event.
Fairness ==
    /\ WF_vars(ReaderStep)
    /\ \A s \in Subs : WF_vars(StreamStep(s))
    /\ \A s \in Subs \ Slow : WF_vars(Sent(s))

FairSpec == Spec /\ Fairness
=============================================================================
