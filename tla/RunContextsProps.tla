--------------------------- MODULE RunContextsProps ---------------------------
(***************************************************************************)
(* Correctness properties of runs and their browser contexts.              *)
(***************************************************************************)
EXTENDS RunContexts

\* Runs do not meet: in a run's context nobody else ever carried out a command,
\* neither another run nor a caller that names no session, and a run that has a
\* context has carried out none in the default one; cancellation, reconnections,
\* tabs and late commands included (headlessbrowser.go:38-44 and :155-156).
Isolated ==
    \A use \in touched :
        LET actor == use[1]  ctx == use[2] IN
        /\ ctx \in Runs => actor = ctx
        /\ ctx = Shared /\ actor \in Runs => rcCtx[actor] = None

\* A run that is over has left no context in Chrome, on whichever path it ended
\* and although sessions are lost with a connection; only a creation or disposal
\* that was never answered can leave one (the detached cleanup, :136-150).
Disposed ==
    \A r \in contexts : pc[r] = "done" => r \in unsure

-----------------------------------------------------------------------------
(* The inductive invariant behind Isolated and Disposed *)

OwnPages(r) == {r} \X (0..MaxTabs)

\* Run r has made nothing in Chrome but perhaps a context.
Unmade(r) == pc[r] \in {"idle", "createContext"}

\* A session that may be used by run r: of its own pages, or the default one
\* when r has no context.
Usable(r, s) ==
    s # None => s.page \in OwnPages(r) \/ (s.page = SharedPage /\ rcCtx[r] = None)

\* What a run knows: its own context and sessions it may use; once it has a
\* context and executes steps, it has a session.
KnowsOwn ==
    /\ dflt # None => dflt.page = SharedPage
    /\ \A r \in Runs :
        /\ rcCtx[r] \in {None, r}
        /\ Usable(r, rcSid[r])
        /\ dlSid[r] # None => dlSid[r].page \in OwnPages(r)
        /\ Unmade(r) => rcCtx[r] = None /\ rcSid[r] = None
        /\ rcCtx[r] = r /\ rcSid[r] = None
                => pc[r] \in {"createTarget", "attach", "cleanup", "done"}

\* Where pages are: a run's pages in its context, or in the default one when it
\* has none.
AtHome ==
    /\ home[SharedPage] \in {Shared, None}
    /\ \A r \in Runs : \A p \in OwnPages(r) :
        /\ home[p] \in {None, r, Shared}
        /\ home[p] = Shared => rcCtx[r] = None
        /\ Unmade(r) => home[p] = None

\* What is on its way to Chrome keeps both so, whenever it arrives.
SentOwn ==
    \A q \in wire :
        /\ q.op = "createTarget" =>
              /\ q.page \in OwnPages(q.by)
              /\ q.ctx \in {q.by, Shared}
              /\ q.ctx = Shared => rcCtx[q.by] = None
        /\ q.op = "command" => Usable(q.by, q.session)
        /\ Unmade(q.by) => q.op = "createContext"

UntouchedUntilMade == \A use \in touched : use[1] \in Runs => ~Unmade(use[1])

\* A run waits for the command of where it is, as far as contexts go.
AwaitsOwn ==
    /\ \A q \in wire :
          q.op \in {"createContext", "disposeContext"} => q = ContextCmd(q.by, q.op)
    /\ \A r \in Runs :
        /\ pc[r] \notin Calling => call[r] = None
        /\ pc[r] = "createContext" => call[r] \in {None, ContextCmd(r, "createContext")}
        /\ pc[r] \in Detached => call[r] \in {None, ContextCmd(r, "disposeContext")}

\* Run r waits for its context.
Awaited(r) == pc[r] = "createContext" /\ call[r] = ContextCmd(r, "createContext")

\* A context is on its way to a run that waits for it, or of one that has it and
\* has not been told that it is gone.
Accounted ==
    \A r \in Runs \ unsure :
        /\ ContextCmd(r, "createContext") \in wire =>
              /\ Awaited(r) /\ r \notin contexts
              /\ \A m \in inbox : m.call.by # r
        /\ r \in contexts =>
              \/ /\ Awaited(r)
                 /\ \A m \in inbox : m.call.by = r => m.ok
              \/ /\ rcCtx[r] = r /\ pc[r] # "done"
                 /\ \A m \in inbox : m.call = ContextCmd(r, "disposeContext") => ~m.ok

IInv ==
    /\ TypeOK
    /\ KnowsOwn
    /\ AtHome
    /\ SentOwn
    /\ UntouchedUntilMade
    /\ Isolated
    /\ AwaitsOwn
    /\ Accounted

-----------------------------------------------------------------------------
(* Liveness, under FairSpec *)

\* A cancelled request returns, whatever was lost, even when its command waits
\* for an answer that will not come: its disposal has a limit of its own.
CancelledReturns == \A r \in Runs : r \in cancelled ~> pc[r] = "done"
=============================================================================
