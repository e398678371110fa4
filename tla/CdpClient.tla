------------------------------ MODULE CdpClient ------------------------------
(***************************************************************************)
(* The CDP WebSocket client, internal/cdpclient/cdpclient.go.              *)
(*                                                                         *)
(* Many goroutines issue commands over one WebSocket.  Each call gets an   *)
(* id, registers a one-slot channel in `pending', writes the request and   *)
(* waits on the channel, on its context and on `closed'.  One goroutine    *)
(* runs readLoop: it routes responses by id and, when the connection       *)
(* fails, fails everything pending and becomes reconnectLoop, which        *)
(* redials, runs the OnReconnect callback and becomes readLoop again.      *)
(* Close may be called by anyone at any time.                              *)
(*                                                                         *)
(* A call (one invocation of Send or SendWithSession) is a member of Calls *)
(* and happens at most once; a goroutine that sends again is another call. *)
(* CallbackCalls are the calls OnReconnect makes through SetupDefault.     *)
(* What is between two steps of the model is what the Go scheduler can     *)
(* interleave: a section under mu, readyMu or connMu is one step.          *)
(*                                                                         *)
(* Of events this module has that readLoop calls their handlers itself,    *)
(* and reads nothing while one of them waits for the peer of its stream;   *)
(* what they do is EventStream.  Encoding, the length of the backoff and   *)
(* logging are abstracted.                                                 *)
(***************************************************************************)
EXTENDS Naturals, FiniteSets

CONSTANTS
    Calls,          \* invocations of Send / SendWithSession by users
    CallbackCalls,  \* invocations of Send by the OnReconnect callback
    NoCall,         \* "nothing registered"
    Deadlined,      \* the calls whose context is cancelled or times out
    Closers,        \* invocations of Close
    OnReconnect,    \* "none": nil; "SetupDefault": what cmd/chromerpc sets
    MaxConn,        \* bound: connections ever dialled
    MaxId           \* bound: command ids ever assigned

AllCalls == Calls \cup CallbackCalls

ASSUME ClientAssumption ==
    /\ Calls \cap CallbackCalls = {}
    /\ NoCall \notin AllCalls
    /\ Deadlined \subseteq AllCalls
    /\ OnReconnect \in {"none", "SetupDefault"}
    /\ MaxConn \in Nat \ {0}
    /\ MaxId \in Nat

Conns == 1..MaxConn
Ids   == 1..MaxId

VARIABLES
    conn,        \* the installed connection
    net,         \* state of every connection's socket
    wire,        \* requests on their way to Chrome, per connection
    inbox,       \* responses not yet read, per connection
    executed,    \* history: how often Chrome has carried out a command
    nextID,      \* the last id assigned
    pending,     \* id -> the call registered under it
    sessionID,   \* the default session, named by its connection; 0 is unset
    ready,       \* the current ready channel (a new one is the next number)
    readyClosed, \* the ready channels that have been closed
    userClosed,  \* the flag Close stores
    closed,      \* the closed channel is closed
    panicked,    \* a closed channel was closed again: the process is gone
    pc, id, sid, rdy, ch, out,  \* the goroutine of every call
    loop,        \* where readLoop / reconnectLoop is
    got,         \* the call and response readLoop has taken from pending
    cb,          \* the call OnReconnect is in
    cl           \* where every invocation of Close is

net_vars   == <<net, wire, inbox, executed>>
id_vars    == <<nextID, id, sid, rdy>>
call_vars  == <<id_vars, pc, out>>
ready_vars == <<ready, readyClosed>>
close_vars == <<userClosed, closed, panicked, cl>>
hold_vars  == <<conn, sessionID, got, cb>>
loop_vars  == <<hold_vars, loop>>
shared     == <<net_vars, ready_vars, close_vars, loop_vars>>
others     == <<call_vars, close_vars>>
outside    == <<net_vars, call_vars, ready_vars, loop_vars, pending, ch>>
quiet      == <<net_vars, others, ready_vars, hold_vars, pending, ch>>
vars       == <<shared, call_vars, pending, ch>>

-----------------------------------------------------------------------------
(* Types *)

NoResp == [id |-> 0, cmd |-> NoCall, kind |-> "none"]
Lost   == [id |-> 0, cmd |-> NoCall, kind |-> "lost"]  \* CDPError{Code: -1}

\* A request carries the command of one call; its result answers that command.
Request  == [id : Ids, cmd : AllCalls, sid : 0..MaxConn]
Response == [id : Ids, cmd : AllCalls, kind : {"result", "error"}]

CallPc  == {"idle", "waitReady", "assign", "register", "write", "wait",
            "failed", "expired", "done"}
Outcome == {"none", "result", "error", "lost", "write", "ctx", "closed"}
LoopPc  == {"read", "deliver", "dispatch", "drain", "drained", "reset", "closeOld", "top",
            "dial", "backoff", "install", "tempReady", "callback", "markReady",
            "shut", "shutClose", "stopped"}

NetOK ==
    /\ conn \in Conns
    /\ net \in [Conns -> {"none", "open", "broken", "closed"}]
    /\ wire \in [Conns -> SUBSET Request]
    /\ inbox \in [Conns -> SUBSET Response]
    /\ executed \in [AllCalls -> Nat]

CallsOK ==
    /\ nextID \in 0..MaxId
    /\ pending \in [Ids -> AllCalls \cup {NoCall}]
    /\ pc \in [AllCalls -> CallPc]
    /\ id \in [AllCalls -> 0..MaxId]
    /\ sid \in [AllCalls -> 0..MaxConn]
    /\ rdy \in [AllCalls -> Nat]
    /\ ch \in [AllCalls -> Response \cup {NoResp, Lost}]
    /\ out \in [AllCalls -> Outcome]

LoopOK ==
    /\ sessionID \in 0..MaxConn
    /\ ready \in Nat
    /\ readyClosed \in SUBSET Nat
    /\ loop \in LoopPc
    /\ got \in [call : AllCalls \cup {NoCall}, resp : Response \cup {NoResp}]
    /\ loop = "deliver" => got.call \in AllCalls /\ got.resp \in Response
    /\ loop = "install" => conn < MaxConn
    /\ cb \in AllCalls \cup {NoCall}

CloseOK ==
    /\ userClosed \in BOOLEAN /\ closed \in BOOLEAN /\ panicked \in BOOLEAN
    /\ cl \in [Closers -> {"idle", "check", "close", "connClose", "done"}]

TypeOK == NetOK /\ CallsOK /\ LoopOK /\ CloseOK

-----------------------------------------------------------------------------
(* Dial has returned: one open connection, a closed ready channel and a    *)
(* running readLoop.  main.go may have set up a default session by then.   *)

Nothing == [call |-> NoCall, resp |-> NoResp]

Init ==
    /\ conn = 1
    /\ net = [k \in Conns |-> IF k = 1 THEN "open" ELSE "none"]
    /\ wire = [k \in Conns |-> {}]
    /\ inbox = [k \in Conns |-> {}]
    /\ executed = [c \in AllCalls |-> 0]
    /\ nextID = 0
    /\ pending = [i \in Ids |-> NoCall]
    /\ sessionID \in {0, 1}
    /\ ready = 0
    /\ readyClosed = {0}
    /\ userClosed = FALSE /\ closed = FALSE /\ panicked = FALSE
    /\ pc = [c \in AllCalls |-> "idle"]
    /\ id = [c \in AllCalls |-> 0]
    /\ sid = [c \in AllCalls |-> 0]
    /\ rdy = [c \in AllCalls |-> 0]
    /\ ch = [c \in AllCalls |-> NoResp]
    /\ out = [c \in AllCalls |-> "none"]
    /\ loop = "read"
    /\ got = Nothing
    /\ cb = NoCall
    /\ cl = [u \in Closers |-> "idle"]

-----------------------------------------------------------------------------
(* A call: Send and SendWithSession *)

Goto(c, from, to) ==
    /\ ~panicked
    /\ pc[c] = from
    /\ pc' = [pc EXCEPT ![c] = to]

Return(c, from, result) ==
    /\ Goto(c, from, "done")
    /\ out' = [out EXCEPT ![c] = result]

\* waitReady reads the current ready channel under readyMu and then blocks on
\* the channel it read, whatever `ready' becomes.
EnterWaitReady(c) ==
    /\ Goto(c, "idle", "waitReady")
    /\ rdy' = [rdy EXCEPT ![c] = ready]

StartCall(c) ==
    /\ c \in Calls
    /\ EnterWaitReady(c)
    /\ UNCHANGED <<shared, nextID, id, sid, out, pending, ch>>

PassReady(c) ==
    /\ rdy[c] \in readyClosed
    /\ Goto(c, "waitReady", "assign")
    /\ UNCHANGED <<shared, id_vars, out, pending, ch>>

\* Seeded bug: ids count what is pending.
NewIdOfMap == Cardinality({i \in Ids : pending[i] # NoCall}) + 1

NewId == nextID + 1

\* The id is taken, then the session: the default one read under mu (Send), or
\* the one the caller passes (SendWithSession), which it got from some
\* connection up to the current one.
AssignId(c) ==
    /\ Goto(c, "assign", "register")
    /\ nextID < MaxId
    /\ nextID' = NewId
    /\ id' = [id EXCEPT ![c] = NewId]
    /\ \E s \in {sessionID} \cup (IF c \in Calls THEN 1..conn ELSE {}) :
            sid' = [sid EXCEPT ![c] = s]
    /\ UNCHANGED <<shared, rdy, out, pending, ch>>

Register(c) ==
    /\ Goto(c, "register", "write")
    /\ pending' = [pending EXCEPT ![id[c]] = c]
    /\ UNCHANGED <<shared, id_vars, out, ch>>

\* WriteMessage on whatever connection is installed.  A write to a connection
\* whose peer is gone may still be accepted by the kernel and lost.
Write(c) ==
    /\ \/ /\ net[conn] = "open"
          /\ Goto(c, "write", "wait")
          /\ wire' = [wire EXCEPT ![conn] =
                        @ \cup {[id |-> id[c], cmd |-> c, sid |-> sid[c]]}]
       \/ /\ net[conn] = "broken"
          /\ Goto(c, "write", "wait")
          /\ UNCHANGED wire
       \/ /\ net[conn] # "open"
          /\ Goto(c, "write", "failed")
          /\ UNCHANGED wire
    /\ UNCHANGED <<net, inbox, executed, ready_vars, close_vars, loop_vars,
                   id_vars, out, pending, ch>>

Receive(c) ==
    /\ ch[c] # NoResp
    /\ Return(c, "wait", ch[c].kind)
    /\ UNCHANGED <<shared, id_vars, pending, ch>>

\* Seeded bugs: the final select ignores the context; a late request is written again.
CtxDoneWhenReady(c) == Return(c, "waitReady", "ctx")
CtxDoneRetries(c) ==
    \/ Return(c, "waitReady", "ctx")
    \/ Goto(c, "wait", "write") /\ UNCHANGED out

\* case <-ctx.Done(), in waitReady and in the final select.
CtxDone(c) ==
    \/ Return(c, "waitReady", "ctx")
    \/ Goto(c, "wait", "expired") /\ UNCHANGED out

Expire(c) ==
    /\ c \in Deadlined
    /\ CtxDone(c)
    /\ UNCHANGED <<shared, id_vars, pending, ch>>

\* Seeded bug: waitReady ignores the closed channel.
SeesClosedInFlight(c) == Return(c, "wait", "closed")

\* case <-c.closed, in waitReady and in the final select: the entry stays.
SeesClosed(c) == Return(c, "waitReady", "closed") \/ Return(c, "wait", "closed")

GiveUpClosed(c) ==
    /\ closed
    /\ SeesClosed(c)
    /\ UNCHANGED <<shared, id_vars, pending, ch>>

\* Seeded bugs: a finished context leaves the entry; a failure clears the map.
DeletedIfFailed(c) ==
    IF pc[c] = "failed" THEN [pending EXCEPT ![id[c]] = NoCall] ELSE pending
DeletedAll(c) == [i \in Ids |-> NoCall]

Deleted(c) == [pending EXCEPT ![id[c]] = NoCall]

\* The delete after a failed write and after a finished context.
Unregister(c) ==
    /\ \/ Return(c, "failed", "write")
       \/ Return(c, "expired", "ctx")
    /\ pending' = Deleted(c)
    /\ UNCHANGED <<shared, id_vars, ch>>

CallStep(c) ==
    \/ PassReady(c) \/ AssignId(c) \/ Register(c) \/ Write(c) \/ Receive(c)
    \/ Expire(c) \/ GiveUpClosed(c) \/ Unregister(c)

-----------------------------------------------------------------------------
(* readLoop *)

At(from, to) ==
    /\ ~panicked
    /\ loop = from
    /\ loop' = to

Awaited(r) == pending[r.id] # NoCall
Taken(r)   == [pending EXCEPT ![r.id] = NoCall]

\* A response leaves pending under mu and is sent to its channel afterwards;
\* one that nobody waits for is dropped.
ReadResponse ==
    /\ \E r \in inbox[conn] :
        /\ inbox' = [inbox EXCEPT ![conn] = @ \ {r}]
        /\ \/ /\ Awaited(r)
              /\ At("read", "deliver")
              /\ got' = [call |-> pending[r.id], resp |-> r]
              /\ pending' = Taken(r)
           \/ /\ ~Awaited(r)
              /\ At("read", "read")
              /\ UNCHANGED <<got, pending>>
    /\ UNCHANGED <<net, wire, executed, others, ready_vars,
                   conn, sessionID, cb, ch>>

\* pc.ch <- &resp blocks while the one-slot channel is full.
Deliver ==
    /\ At("deliver", "read")
    /\ ch[got.call] = NoResp
    /\ ch' = [ch EXCEPT ![got.call] = got.resp]
    /\ got' = Nothing
    /\ UNCHANGED <<net_vars, others, ready_vars, conn, sessionID, cb, pending>>

\* An event is read, of the connection or of what it left in the buffer.
ReadEvent == At("read", "dispatch") /\ UNCHANGED quiet

\* dispatchEvent returns: at once, or when the peers of the streams whose handlers
\* block have read enough.
Dispatched == At("dispatch", "read") /\ UNCHANGED quiet

ReadError ==
    /\ net[conn] # "open"
    /\ At("read", "drain")
    /\ inbox' = [inbox EXCEPT ![conn] = {}]
    /\ UNCHANGED <<net, wire, executed, others, ready_vars, hold_vars, pending, ch>>

Registered(c) == \E i \in Ids : pending[i] = c

\* Seeded bug: the map is cleared and nobody is told.
FailedSilently == ch

FailedPending == [c \in AllCalls |-> IF Registered(c) THEN Lost ELSE ch[c]]

\* The deferred function fails every pending call while it holds mu: a full
\* channel would block it, and with it everyone who needs mu.
Drain ==
    /\ At("drain", "drained")
    /\ \A c \in AllCalls : Registered(c) => ch[c] = NoResp
    /\ ch' = FailedPending
    /\ pending' = [i \in Ids |-> NoCall]
    /\ UNCHANGED <<net_vars, others, ready_vars, hold_vars>>

LeaveReadLoop ==
    At("drained", IF userClosed THEN "shut" ELSE "reset") /\ UNCHANGED quiet

-----------------------------------------------------------------------------
(* reconnectLoop *)

NotReady ==
    /\ At("reset", "closeOld")
    /\ ready' = ready + 1
    /\ UNCHANGED <<net_vars, others, readyClosed, hold_vars, pending, ch>>

CloseOld ==
    /\ At("closeOld", "top")
    /\ net' = [net EXCEPT ![conn] = "closed"]
    /\ UNCHANGED <<wire, inbox, executed, others, ready_vars, hold_vars, pending, ch>>

Top == At("top", IF userClosed THEN "shut" ELSE "dial") /\ UNCHANGED quiet

DialSucceeds ==
    /\ conn < MaxConn
    /\ At("dial", "install")
    /\ net' = [net EXCEPT ![conn + 1] = "open"]
    /\ UNCHANGED <<wire, inbox, executed, others, ready_vars, hold_vars, pending, ch>>

DialFails == At("dial", "backoff") /\ UNCHANGED quiet

\* Seeded bug: one failed dial ends the loop.
AfterBackoffStop == "stopped"

AfterBackoff == "top"

Backoff ==
    /\ \/ closed /\ At("backoff", "stopped")
       \/ At("backoff", AfterBackoff)
    /\ UNCHANGED quiet

Install ==
    /\ At("install", IF OnReconnect = "none" THEN "markReady" ELSE "tempReady")
    /\ conn' = conn + 1
    /\ UNCHANGED <<net_vars, others, ready_vars, sessionID, got, cb, pending, ch>>

\* An already closed channel replaces the one callers may be blocked on.
TempReady ==
    /\ At("tempReady", "callback")
    /\ ready' = ready + 1
    /\ readyClosed' = readyClosed \cup {ready + 1}
    /\ UNCHANGED <<net_vars, others, hold_vars, pending, ch>>

\* SetupDefault starts with one Send; any failure of it ends the callback.  Its
\* second Send is never reached: nobody reads the connection meanwhile.
CallbackSends(c) ==
    /\ loop = "callback" /\ OnReconnect = "SetupDefault" /\ cb = NoCall
    /\ c \in CallbackCalls
    /\ EnterWaitReady(c)
    /\ cb' = c
    /\ UNCHANGED <<net_vars, ready_vars, close_vars, pending, ch,
                   nextID, id, sid, out, conn, sessionID, loop, got>>

\* When SetupDefault succeeds it stores the session of the new connection;
\* an error of the callback is only logged.  (Bound: when CallbackCalls are used up,
\* the callback fails at its Send.)
CallbackReturns ==
    /\ At("callback", "markReady")
    /\ \/ /\ cb # NoCall /\ pc[cb] = "done"
          /\ sessionID' = IF out[cb] = "result" THEN conn ELSE sessionID
       \/ /\ cb = NoCall /\ (\A c \in CallbackCalls : pc[c] # "idle")
          /\ UNCHANGED sessionID
    /\ cb' = NoCall
    /\ UNCHANGED <<net_vars, others, ready_vars, conn, got, pending, ch>>

OpenReady == readyClosed' = readyClosed \cup {ready} /\ UNCHANGED ready

MarkReady ==
    /\ At("markReady", "read")
    /\ OpenReady
    /\ UNCHANGED <<net_vars, others, hold_vars, pending, ch>>

-----------------------------------------------------------------------------
(* Closing the closed channel: a check and then, unprotected, the close.   *)

CloseClosedChannel ==
    IF closed
      THEN panicked' = TRUE /\ UNCHANGED closed
      ELSE closed' = TRUE /\ UNCHANGED panicked

ShutCheck ==
    At("shut", IF closed THEN "stopped" ELSE "shutClose") /\ UNCHANGED quiet

ShutClose ==
    /\ At("shutClose", "stopped")
    /\ CloseClosedChannel
    /\ UNCHANGED <<net_vars, call_vars, ready_vars, userClosed, cl,
                   hold_vars, pending, ch>>

LoopStep ==
    \/ ReadResponse \/ Deliver \/ ReadError \/ Drain \/ LeaveReadLoop
    \/ NotReady \/ CloseOld \/ Top \/ DialSucceeds \/ DialFails \/ Backoff
    \/ Install \/ TempReady \/ (\E c \in CallbackCalls : CallbackSends(c))
    \/ CallbackReturns \/ MarkReady \/ ShutCheck \/ ShutClose

EventStep == ReadEvent \/ Dispatched

-----------------------------------------------------------------------------
(* Close *)

CloseAt(u, from, to) ==
    /\ ~panicked
    /\ cl[u] = from
    /\ cl' = [cl EXCEPT ![u] = to]

CloseStore(u) ==
    /\ CloseAt(u, "idle", "check")
    /\ userClosed' = TRUE
    /\ UNCHANGED <<outside, closed, panicked>>

CloseCheck(u) ==
    /\ CloseAt(u, "check", IF closed THEN "done" ELSE "close")
    /\ UNCHANGED <<outside, userClosed, closed, panicked>>

CloseClosed(u) ==
    /\ CloseAt(u, "close", "connClose")
    /\ CloseClosedChannel
    /\ UNCHANGED <<outside, userClosed>>

CarriedOut(S) ==
    executed' = [c \in AllCalls |->
        IF \E q \in S : q.cmd = c THEN executed[c] + 1 ELSE executed[c]]

\* What was on the wire may or may not have been carried out.
Drop(k, how) ==
    /\ net' = [net EXCEPT ![k] = how]
    /\ \E S \in SUBSET wire[k] : CarriedOut(S)
    /\ wire' = [wire EXCEPT ![k] = {}]

CloseConn(u) ==
    /\ CloseAt(u, "connClose", "done")
    /\ Drop(conn, "closed")
    /\ UNCHANGED <<inbox, call_vars, ready_vars, loop_vars, pending, ch,
                   userClosed, closed, panicked>>

CloseStep(u) == CloseCheck(u) \/ CloseClosed(u) \/ CloseConn(u)

-----------------------------------------------------------------------------
(* Chrome and the network.  Chrome carries a command out and answers it,   *)
(* in any order; a command for a session of another connection is answered *)
(* with an error.  The last connection of the bound does not break.        *)

Execute(k) ==
    /\ net[k] = "open"
    /\ \E q \in wire[k] :
        /\ wire' = [wire EXCEPT ![k] = @ \ {q}]
        /\ CarriedOut({q})
        /\ inbox' = [inbox EXCEPT ![k] = @ \cup
                {[id |-> q.id, cmd |-> q.cmd,
                  kind |-> IF q.sid \in {0, k} THEN "result" ELSE "error"]}]
    /\ UNCHANGED <<net, call_vars, ready_vars, close_vars, loop_vars, pending, ch>>

Break(k) ==
    /\ k < MaxConn
    /\ net[k] = "open"
    /\ Drop(k, "broken")
    /\ UNCHANGED <<inbox, call_vars, ready_vars, close_vars, loop_vars, pending, ch>>

-----------------------------------------------------------------------------
Next ==
    \/ \E c \in AllCalls : StartCall(c) \/ CallStep(c)
    \/ LoopStep \/ EventStep
    \/ \E u \in Closers : CloseStore(u) \/ CloseStep(u)
    \/ \E k \in Conns : Execute(k) \/ Break(k)

Spec == Init /\ [][Next]_vars

\* Goroutines that can run do run (a finished context ends its call), Chrome
\* answers what reaches it, and redialling cannot fail for ever.  Messages are read
\* in the order they came, so that events put a response or an error off and not
\* for ever: readLoop gets on if it comes back to its read again and again, and
\* nothing says that it does.  Nobody has to start a call, call Close, break a
\* connection or read events.
Fairness ==
    /\ \A c \in AllCalls : WF_vars(CallStep(c))
    /\ SF_vars(LoopStep)
    /\ SF_vars(DialSucceeds)
    /\ \A u \in Closers : WF_vars(CloseStep(u))
    /\ \A k \in Conns : WF_vars(Execute(k))

FairSpec == Spec /\ Fairness
=============================================================================
