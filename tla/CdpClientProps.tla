---------------------------- MODULE CdpClientProps ----------------------------
(***************************************************************************)
(* Correctness properties of the CDP client.                               *)
(***************************************************************************)
EXTENDS CdpClient

\* Whoever sends on a call's channel finds its one slot free: an id leaves
\* `pending' before its channel is used.  Drain sends while it holds mu, so a
\* full slot would block every Send, SetSessionID and response for ever
\* (cdpclient.go:346-354 and :390).
SlotFree ==
    /\ \A c \in AllCalls : Registered(c) => ch[c] = NoResp
    /\ loop = "deliver" => /\ ch[got.call] = NoResp
                           /\ ~Registered(got.call)

\* Concurrent callers never see each other's answers: what is in a call's
\* channel, and what readLoop is about to put there, answers that call's own
\* command (the ids of Send and the lookup of readLoop, :156 and :381-391).
OwnAnswer ==
    /\ \A c \in AllCalls : ch[c] \in {NoResp, Lost} \/ ch[c].cmd = c
    /\ loop = "deliver" => got.resp.cmd = got.call

\* A caller blocked in the final select without an answer can still be woken:
\* its entry is in pending, for a response or the next Drain, or readLoop holds
\* its answer.  No interleaving of responses, disconnects and the deletes of
\* other calls takes the entry away silently.
WaiterReachable ==
    \A c \in AllCalls :
        pc[c] = "wait" /\ ch[c] = NoResp
            => pending[id[c]] = c \/ (loop = "deliver" /\ got.call = c)

\* A call that has returned left nothing in pending, on every error path; only
\* the `closed' branch, which does not delete, may leave its entry (:215-217).
NoLeak ==
    \A c \in AllCalls : pc[c] = "done" /\ Registered(c) => out[c] = "closed"

-----------------------------------------------------------------------------
(* The inductive invariant behind the safety properties *)

Unnumbered == {"idle", "waitReady", "assign"}
InFlight   == {"write", "wait", "failed", "expired"}

\* A call gets its id once, from the shared counter, and keeps it.
IdsUnique ==
    /\ \A c \in AllCalls : id[c] <= nextID
    /\ \A c \in AllCalls : pc[c] \in Unnumbered => id[c] = 0
    /\ \A c \in AllCalls : pc[c] \in InFlight \cup {"register"} => id[c] # 0
    /\ \A c, d \in AllCalls : id[c] = id[d] /\ id[c] # 0 => c = d

\* Whatever names a call by id names the call that got the id, and is ahead of
\* nothing that call has not done.
NamedById ==
    /\ \A i \in Ids : pending[i] # NoCall =>
            /\ id[pending[i]] = i
            /\ \/ pc[pending[i]] \in InFlight
               \/ pc[pending[i]] = "done" /\ out[pending[i]] = "closed"
    /\ \A k \in Conns : \A q \in wire[k] \cup inbox[k] : id[q.cmd] = q.id
    /\ loop = "deliver" => /\ id[got.call] = got.resp.id
                           /\ pc[got.call] \in InFlight \cup {"done"}

\* Channels are empty until their call is registered.
EmptyBeforeRegister ==
    \A c \in AllCalls : pc[c] \in Unnumbered \cup {"register"} => ch[c] = NoResp

\* WaiterReachable from the moment the entry is made.
Reachable ==
    \A c \in AllCalls :
        pc[c] \in {"write", "wait"} /\ ch[c] = NoResp
            => pending[id[c]] = c \/ (loop = "deliver" /\ got.call = c)

IInv ==
    /\ TypeOK
    /\ IdsUnique
    /\ NamedById
    /\ EmptyBeforeRegister
    /\ SlotFree
    /\ OwnAnswer
    /\ Reachable

\* A command is on one wire at most, once, and only until Chrome has carried it
\* out: no error path writes it again to the connection that follows.
SentOnce ==
    /\ \A c \in AllCalls : executed[c] \in 0..1
    /\ \A c \in AllCalls : pc[c] \in Unnumbered \cup {"register", "write"} =>
            executed[c] = 0 /\ \A k \in Conns : \A q \in wire[k] : q.cmd # c
    /\ \A k \in Conns : \A q \in wire[k] : executed[q.cmd] = 0
    /\ \A j, k \in Conns : \A q \in wire[j], r \in wire[k] :
            q.cmd = r.cmd => j = k /\ q = r

\* Whatever is presented to a caller as Chrome's answer is one.
AnswersAreReal ==
    /\ \A k \in Conns : \A r \in inbox[k] : executed[r.cmd] = 1
    /\ loop = "deliver" => executed[got.resp.cmd] = 1
    /\ \A c \in AllCalls : ch[c] \notin {NoResp, Lost} => executed[ch[c].cmd] = 1

\* The part of the invariant the refinement rests on.
ExecutedOnce == SentOnce /\ AnswersAreReal

-----------------------------------------------------------------------------
(* What the client promises its callers *)

\* How far a call is, as its caller sees it.
Phase == [c \in AllCalls |-> CASE pc[c] = "idle" -> "new"
                               [] pc[c] = "done" -> "returned"
                               [] OTHER -> "called"]

Commands == INSTANCE CdpCommands WITH
    Commands <- AllCalls, phase <- Phase, executed <- executed, outcome <- out

\* The client implements CdpCommands: no command is carried out twice across
\* reconnections, and no answer is made up.
ImplementsCommands == Commands!Spec

-----------------------------------------------------------------------------
(* Liveness, under FairSpec.  A panic ends the process and everything else. *)

\* No peer of a blocking stream holds readLoop for good (console.go:64 and fifteen
\* more): it comes back to its read again and again.
PeersRead == []<>(loop # "dispatch")

Returned(c) == pc[c] = "done" \/ panicked

\* A command that reached Chrome's side of a connection ends its call, as long as
\* peers read: it is answered, or the connection fails and Drain fails it.
AcceptedReturns ==
    PeersRead => \A c \in AllCalls :
        (\E k \in Conns : \E q \in wire[k] : q.cmd = c) ~> Returned(c)

\* A call whose context ends returns, wherever the connection is, and whatever the
\* read loop waits for.
DeadlineReturns == \A c \in Deadlined : pc[c] # "idle" ~> Returned(c)

\* Close ends every call that is in progress or starts later, without the read loop.
CloseReturnsCalls == \A c \in Calls : closed /\ pc[c] # "idle" ~> Returned(c)

\* A lost connection is replaced and read again, as long as peers read and unless the
\* client is closed.
Recovers ==
    PeersRead => net[conn] = "broken" ~> (loop = "read" /\ net[conn] = "open") \/ userClosed

-----------------------------------------------------------------------------
(* What a comment says of the client and the code does not do *)

\* cdpclient.go:84-85 and main.go:247 `Re-establish the default session after
\* reconnection': the callback's call is answered, given a connection that stays
\* up, a Chrome that answers and all the time it wants.
CallbackAnswered == loop = "callback" ~> loop # "callback" \/ panicked
=============================================================================
