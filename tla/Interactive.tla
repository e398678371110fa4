----------------------------- MODULE Interactive -----------------------------
(***************************************************************************)
(* internal/server/interactive: Session streams, each with a Chrome of its *)
(* own for as long as it lasts, served by one Chrome or by a pool.         *)
(*                                                                         *)
(* A ChromeManager owns one Chrome.  Recycling it kills the Chrome and     *)
(* launches another, under the manager's mu, and fails when launching,     *)
(* dialling or setting up the session does.  With one manager a stream     *)
(* takes a semaphore and recycles before it returns; with several a client *)
(* is admitted by a counter, waits on the channel of ready managers, and   *)
(* its manager is recycled in the background, with retries.                *)
(*                                                                         *)
(* A manager is launched and recycled by whoever holds it, so a launch is  *)
(* a state of the manager: the stream that holds it, or else a background  *)
(* goroutine (Release), is waiting for its end.  The first launch of a     *)
(* pool's manager, the warm-up of ChromePool.Start, is a state of its own: *)
(* a recycling gives up after recycleTimeout, a warm-up has only rootCtx   *)
(* to end it, and a Chrome that answers no longer makes it wait for that.  *)
(***************************************************************************)
EXTENDS Naturals, Sequences, FiniteSets

CONSTANTS
    Clients,        \* Session streams
    Leavers,        \* those whose peer may go away without closing
    Managers,       \* ChromeManagers
    Crashing,       \* those whose Chrome may die by itself
    Deployments,    \* the sets of managers a server may be started with
    NoManager       \* "holds none"

ASSUME InteractiveAssumption ==
    /\ Leavers \subseteq Clients /\ Crashing \subseteq Managers
    /\ Deployments \subseteq (SUBSET Managers) \ {{}}
    /\ NoManager \notin Managers
    /\ IsFiniteSet(Clients) /\ Clients # {}
    /\ IsFiniteSet(Managers)

VARIABLES
    mgrs,       \* the managers of this server; fixed
    server,     \* "serving", "cancelled" (rootCtx), "draining" or "stopped"
    ready,      \* the pool's channel of ready managers
    clients,    \* the pool's count of admitted clients
    sem,        \* the semaphore of the single provider is taken
    job,        \* what is being done to a manager, and nothing else may be
    chrome,     \* its Chrome: "none" (hb = nil), "up" or "down"
    dirty,      \* history: the clients that ran steps in that Chrome
    pc,         \* where a stream's handler is
    held,       \* the manager it has
    cancelled   \* its peer is gone (stream.Context())

pool_vars   == <<ready, clients, sem>>
mgr_vars    == <<job, chrome, dirty>>
client_vars == <<pc, held, cancelled>>
vars == <<mgrs, server, pool_vars, mgr_vars, client_vars>>

-----------------------------------------------------------------------------
SessionPc == {"idle", "waiting", "announce", "recv", "step", "reset", "release", "done"}
Jobs == {"none", "recycle", "launch", "pause", "return", "gone",
         "warm", "cool", "stuck"}

TypeOK ==
    /\ mgrs \in Deployments
    /\ server \in {"serving", "cancelled", "draining", "stopped"}
    /\ ready \in Seq(Managers) /\ Len(ready) <= Cardinality(mgrs)
    /\ clients \in 0..Cardinality(Clients)
    /\ sem \in BOOLEAN
    /\ job \in [Managers -> Jobs]
    /\ chrome \in [Managers -> {"none", "up", "down"}]
    /\ dirty \in [Managers -> SUBSET Clients]
    /\ pc \in [Clients -> SessionPc]
    /\ held \in [Clients -> Managers \cup {NoManager}]
    /\ cancelled \in [Clients -> BOOLEAN]

\* -pool-size: above one it is a pool.
Pooled == Cardinality(mgrs) > 1

\* A pool serves while it warms up; a single Chrome is started before.
Init ==
    /\ mgrs \in Deployments
    /\ server = "serving"
    /\ ready = <<>> /\ clients = 0 /\ sem = FALSE
    /\ job = [m \in Managers |-> IF Pooled /\ m \in mgrs THEN "warm" ELSE "none"]
    /\ chrome = [m \in Managers |-> IF Pooled \/ m \notin mgrs THEN "none" ELSE "up"]
    /\ dirty = [m \in Managers |-> {}]
    /\ pc = [c \in Clients |-> "idle"]
    /\ held = [c \in Clients |-> NoManager]
    /\ cancelled = [c \in Clients |-> FALSE]

RootDone == server # "serving"

Goto(c, from, to) == pc[c] = from /\ pc' = [pc EXCEPT ![c] = to]

-----------------------------------------------------------------------------
(* ChromeManager *)

Holders(m) == {c \in Clients : held[c] = m}

\* Seeded bug: a Chrome that is up is kept.
KillsDown(m) == chrome[m] # "up"

\* teardownLocked kills whatever Chrome there is.
Kills(m) == TRUE

\* Recycle takes mu and tears down.
Teardown(m) ==
    /\ job[m] = "recycle"
    /\ job' = [job EXCEPT ![m] = "launch"]
    /\ IF Kills(m)
         THEN /\ chrome' = [chrome EXCEPT ![m] = "none"]
              /\ dirty' = [dirty EXCEPT ![m] = {}]
         ELSE UNCHANGED <<chrome, dirty>>
    /\ UNCHANGED <<mgrs, server, pool_vars, client_vars>>

\* The stream that waits for the launch goes on: a reset is answered, a release
\* gives the semaphore back and the handler returns.
HolderResumes(m) ==
    \E c \in Holders(m) :
        \/ /\ Goto(c, "reset", "recv")
           /\ UNCHANGED <<held, sem>>
        \/ /\ Goto(c, "release", "done")
           /\ held' = [held EXCEPT ![c] = NoManager]
           /\ sem' = FALSE

\* launchLocked: Launch, Dial and SetupDefault succeed.
LaunchSucceeds(m) ==
    /\ job[m] \in {"launch", "warm"}
    /\ ~RootDone
    /\ chrome' = [chrome EXCEPT ![m] = "up"]
    /\ \/ /\ Holders(m) = {}
          /\ job' = [job EXCEPT ![m] = "return"]
          /\ UNCHANGED <<pc, held, sem>>
       \/ /\ job' = [job EXCEPT ![m] = "none"]
          /\ HolderResumes(m)
    /\ UNCHANGED <<mgrs, server, ready, clients, dirty, cancelled>>

\* Seeded bugs: the pool takes a manager back whose recycling failed; it gives
\* up after a failure, of a recycling or of a warm-up.
BackAnyway == "return"
GivesUp    == "gone"
StaysCold  == "gone"

\* What the goroutine of Release does after a failure, and that of a warm-up.
AfterFailure     == IF RootDone THEN "gone" ELSE "pause"
AfterWarmFailure == IF RootDone THEN "gone" ELSE "cool"

\* Or one of them fails, and cleans up what there is.
LaunchFails(m) ==
    /\ job[m] = "launch"
    /\ chrome' = [chrome EXCEPT ![m] = "none"]
    /\ \/ /\ Holders(m) = {}
          /\ job' = [job EXCEPT ![m] = AfterFailure]
          /\ UNCHANGED <<pc, held, sem>>
       \/ /\ job' = [job EXCEPT ![m] = "none"]
          /\ HolderResumes(m)
    /\ UNCHANGED <<mgrs, server, ready, clients, dirty, cancelled>>

\* A warm-up fails; one that is stuck fails when rootCtx ends.
WarmFails(m) ==
    /\ job[m] = "warm" \/ (job[m] = "stuck" /\ RootDone)
    /\ job' = [job EXCEPT ![m] = AfterWarmFailure]
    /\ UNCHANGED <<mgrs, server, pool_vars, chrome, dirty, client_vars>>

\* Its Chrome hangs, or dies with no command in flight, so that the next command
\* of SetupDefault waits for an answer or for a reconnection that never comes.
WarmHangs(m) ==
    /\ job[m] = "warm"
    /\ job' = [job EXCEPT ![m] = "stuck"]
    /\ UNCHANGED <<mgrs, server, pool_vars, chrome, dirty, client_vars>>

\* The two seconds are over: Release recycles again, Start launches again unless
\* it notices the end of rootCtx.
Retry(m) ==
    /\ \/ /\ job[m] = "pause"
          /\ job' = [job EXCEPT ![m] = "recycle"]
       \/ /\ job[m] = "cool"
          /\ job' = [job EXCEPT ![m] = "warm"]
       \/ /\ job[m] = "cool" /\ RootDone
          /\ job' = [job EXCEPT ![m] = "gone"]
    /\ UNCHANGED <<mgrs, server, pool_vars, chrome, dirty, client_vars>>

\* p.ready <- m
ReturnReady(m) ==
    /\ job[m] = "return"
    /\ Len(ready) < Cardinality(mgrs)
    /\ ready' = Append(ready, m)
    /\ job' = [job EXCEPT ![m] = "none"]
    /\ UNCHANGED <<mgrs, server, clients, sem, chrome, dirty, client_vars>>

\* The process dies by itself; the manager does not notice.
Crash(m) ==
    /\ m \in Crashing /\ chrome[m] = "up"
    /\ chrome' = [chrome EXCEPT ![m] = "down"]
    /\ UNCHANGED <<mgrs, server, pool_vars, job, dirty, client_vars>>

ManagerStep(m) ==
    Teardown(m) \/ LaunchFails(m) \/ WarmFails(m) \/ Retry(m) \/ ReturnReady(m)

-----------------------------------------------------------------------------
(* Session *)

\* Seeded bug: the counter is compared too late.
RoomForOneMore == clients <= Cardinality(mgrs)

HasRoom == clients < Cardinality(mgrs)

Admit(c) ==
    /\ server \in {"serving", "cancelled"}
    /\ Goto(c, "idle", "waiting")
    /\ Pooled => HasRoom
    /\ clients' = IF Pooled THEN clients + 1 ELSE clients
    /\ UNCHANGED <<mgrs, server, ready, sem, mgr_vars, held, cancelled>>

Reject(c) ==
    /\ server \in {"serving", "cancelled"}
    /\ Pooled /\ ~HasRoom
    /\ Goto(c, "idle", "done")
    /\ UNCHANGED <<mgrs, server, pool_vars, mgr_vars, held, cancelled>>

TakeReady(c) ==
    /\ Pooled /\ ready # <<>>
    /\ Goto(c, "waiting", "announce")
    /\ held' = [held EXCEPT ![c] = Head(ready)]
    /\ ready' = Tail(ready)
    /\ UNCHANGED <<mgrs, server, clients, sem, mgr_vars, cancelled>>

\* Seeded bug: the semaphore is not a semaphore.
SemIsFree == TRUE

SemFree == ~sem

TakeSem(c) ==
    /\ ~Pooled /\ SemFree
    /\ Goto(c, "waiting", "announce")
    /\ \E m \in mgrs : held' = [held EXCEPT ![c] = m]
    /\ sem' = TRUE
    /\ UNCHANGED <<mgrs, server, ready, clients, mgr_vars, cancelled>>

\* The slot is given back, under mu.
FreedSlot == IF Pooled THEN clients - 1 ELSE clients

GiveUp(c) ==
    /\ cancelled[c]
    /\ Goto(c, "waiting", "done")
    /\ clients' = FreedSlot
    /\ UNCHANGED <<mgrs, server, ready, sem, mgr_vars, held, cancelled>>

Announce(c) ==
    /\ Goto(c, "announce", "recv")
    /\ UNCHANGED <<mgrs, server, pool_vars, mgr_vars, held, cancelled>>

\* HB() waits for the manager's mu; without a browser the answer is an error,
\* and nothing changes.
StartStep(c) ==
    /\ Goto(c, "recv", "step")
    /\ job[held[c]] # "launch"
    /\ chrome[held[c]] # "none"
    /\ dirty' = [dirty EXCEPT ![held[c]] = @ \cup {c}]
    /\ UNCHANGED <<mgrs, server, pool_vars, job, chrome, held, cancelled>>

\* Seeded bug: steps run under a context of their own.
StepReturnsByItself(c) == chrome[held[c]] = "up"

\* A step in a Chrome that died does not return before its context ends, which
\* is the stream's.
StepReturns(c) == cancelled[c] \/ chrome[held[c]] = "up"

EndStep(c) ==
    /\ Goto(c, "step", "recv")
    /\ StepReturns(c)
    /\ UNCHANGED <<mgrs, server, pool_vars, mgr_vars, held, cancelled>>

Reset(c) ==
    /\ Goto(c, "recv", "reset")
    /\ job[held[c]] = "none"
    /\ job' = [job EXCEPT ![held[c]] = "recycle"]
    /\ UNCHANGED <<mgrs, server, pool_vars, chrome, dirty, held, cancelled>>

\* EOF, or an error of Send or Recv once the peer is gone.
Ends(c) == pc[c] = "recv" \/ (pc[c] = "announce" /\ cancelled[c])

\* The pool frees the slot at once and recycles in the background.
ReleaseToPool(c) ==
    /\ Pooled /\ Ends(c)
    /\ pc' = [pc EXCEPT ![c] = "done"]
    /\ held' = [held EXCEPT ![c] = NoManager]
    /\ clients' = FreedSlot
    /\ job' = [job EXCEPT ![held[c]] = "recycle"]
    /\ UNCHANGED <<mgrs, server, ready, sem, chrome, dirty, cancelled>>

ReleaseSingle(c) ==
    /\ ~Pooled /\ Ends(c)
    /\ pc' = [pc EXCEPT ![c] = "release"]
    /\ job' = [job EXCEPT ![held[c]] = "recycle"]
    /\ UNCHANGED <<mgrs, server, pool_vars, chrome, dirty, held, cancelled>>

PeerLeaves(c) ==
    /\ c \in Leavers /\ pc[c] \notin {"idle", "done"} /\ ~cancelled[c]
    /\ cancelled' = [cancelled EXCEPT ![c] = TRUE]
    /\ UNCHANGED <<mgrs, server, pool_vars, mgr_vars, pc, held>>

Release(c) == ReleaseToPool(c) \/ ReleaseSingle(c)

\* What the handler does without waiting for its peer.
HandlerStep(c) == TakeReady(c) \/ TakeSem(c) \/ GiveUp(c) \/ Announce(c) \/ EndStep(c)

-----------------------------------------------------------------------------
(* The server, cmd/chromerpc runInteractive *)

\* A signal cancels rootCtx, which kills every Chrome.
Signal ==
    /\ server = "serving"
    /\ server' = "cancelled"
    /\ chrome' = [m \in Managers |-> IF chrome[m] = "up" THEN "down" ELSE chrome[m]]
    /\ UNCHANGED <<mgrs, pool_vars, job, dirty, client_vars>>

\* GracefulStop admits no stream and waits for those there are.
Drain ==
    /\ server = "cancelled"
    /\ server' = "draining"
    /\ UNCHANGED <<mgrs, pool_vars, mgr_vars, client_vars>>

\* Serve returns; a single manager is closed.
Stop ==
    /\ server = "draining"
    /\ \A c \in Clients : pc[c] \in {"idle", "done"}
    /\ server' = "stopped"
    /\ chrome' = IF Pooled THEN chrome ELSE [m \in Managers |-> "none"]
    /\ UNCHANGED <<mgrs, pool_vars, job, dirty, client_vars>>

Next ==
    \/ \E m \in Managers : 
          ManagerStep(m) \/ LaunchSucceeds(m) \/ WarmHangs(m) \/ Crash(m)
    \/ \E c \in Clients :
          \/ Admit(c) \/ Reject(c) \/ HandlerStep(c)
          \/ StartStep(c) \/ Reset(c) \/ Release(c) \/ PeerLeaves(c)
    \/ Signal \/ Drain \/ Stop

Spec == Init /\ [][Next]_vars

\* Goroutines run, steps end, launches that end do not fail for ever (a recycling
\* ends by its timeout, a warm-up may hang instead), and a peer that is gone has
\* sent a finite number of commands.  No client has to come, to send anything or to
\* leave, and no Chrome has to hang or crash.
Fairness ==
    /\ \A m \in Managers : WF_vars(ManagerStep(m)) /\ SF_vars(LaunchSucceeds(m))
    /\ \A c \in Clients : WF_vars(HandlerStep(c)) /\ SF_vars(cancelled[c] /\ Release(c))

FairSpec == Spec /\ Fairness
=============================================================================
