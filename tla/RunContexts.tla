----------------------------- MODULE RunContexts -----------------------------
(***************************************************************************)
(* internal/server/headlessbrowser: RunAutomation and ExecuteStep, each in *)
(* an isolated browser context of its own, next to the unary methods of    *)
(* the domain servers, on one client and one Chrome (stateless mode).      *)
(*                                                                         *)
(* A run creates a browser context, a page in it and a session attached to *)
(* the page, executes its steps there, and disposes of the context with a  *)
(* detached context and a timeout.  When the creation fails it falls back  *)
(* to the default session, which it shares.  A user is the caller of unary *)
(* methods; DomainCommands has what each domain does with a session.       *)
(*                                                                         *)
(* Commands go through CdpClient, seen here as its callers see it: Chrome  *)
(* may carry a command out after its caller has given up, a broken         *)
(* connection loses commands and answers, and every session attached       *)
(* through it.  Browser contexts outlive it (disposeOnDetach false).  The  *)
(* default session is not replaced: CdpClient shows that the callback's    *)
(* command is not answered.                                                *)
(*                                                                         *)
(* Steps are seen as the commands they send and the tabs they handle.      *)
(* Waits, encoding and files are left out.  A run names tabs of its own.   *)
(***************************************************************************)
EXTENDS Naturals, FiniteSets

CONSTANTS
    Runs,       \* invocations of RunAutomation and ExecuteStep
    Leavers,    \* those whose request may be cancelled
    Tabbed,     \* those that open, close and switch tabs or download
    Users,      \* callers of unary methods of the domain servers
    Routes,     \* what those methods do with a session
    Shared,     \* the default browser context
    None,       \* no context, no session, no command
    Refusable,  \* those for which Chrome may refuse to create or attach
    MaxOps,     \* bound: operations on tabs
    MaxTabs,    \* bound: tabs a run opens
    MaxConn     \* bound: connections

ASSUME ContextsAssumption ==
    /\ Runs \cap Users = {} /\ Leavers \subseteq Runs /\ Tabbed \subseteq Runs /\ Refusable \subseteq Runs
    /\ Shared \notin Runs /\ None \notin Runs \cup {Shared}
    /\ Routes \subseteq {"session", "browser"}
    /\ MaxOps \in Nat /\ MaxTabs \in Nat /\ MaxConn \in Nat \ {0}

Actors   == Runs \cup Users
Contexts == Runs \cup {Shared}      \* a run's context is named by the run
Conns    == 1..MaxConn

\* The page of a run's context, its tabs, and the page of the default session.
SharedPage == <<Shared, 0>>
Pages      == (Runs \X (0..MaxTabs)) \cup {SharedPage}
Session    == [page : Pages, conn : Conns]

VARIABLES
    conn,       \* the connection
    dflt,       \* the client's default session
    contexts,   \* Chrome: the browser contexts there are, beside the default one
    home,       \* Chrome: the context of each page there is
    wire,       \* commands on their way to Chrome
    inbox,      \* its answers
    touched,    \* history: who carried out a command in which context, of the
                \* runs' commands and the runs' contexts
    call,       \* the command an actor waits for
    lost,       \* the actors whose command the connection took along
    pc,         \* where a run is
    rcCtx,      \* its runContext.browserContextID
    rcSid,      \* its runContext.sessionID
    tab,        \* the tab its current operation is about
    dlSid,      \* the session of its download tab
    tabs, left, \* tabs it has opened, operations on tabs it has left
    cancelled,  \* its request's context has ended
    unsure      \* history: runs whose creation or disposal went unanswered

chrome_vars == <<contexts, home, touched>>
link_vars   == <<wire, inbox, call, lost>>
run_vars    == <<pc, rcCtx, rcSid, tab, dlSid, tabs, left>>
vars == <<conn, dflt, chrome_vars, link_vars, run_vars, cancelled, unsure>>

-----------------------------------------------------------------------------
Creating == {"createContext", "createTarget", "attach"}
TabOps   == {"openTab", "closeTab", "switchTab"}
Download == {"dlCreate", "dlAttach", "dlCommand", "dlClose"}
Detached == {"cleanup", "dispose"}
Calling  == Creating \cup TabOps \cup Download \cup Detached \cup {"command"}

Command ==
    [by : Runs, op : {"createContext", "disposeContext"}, ctx : Runs]
    \cup [by : Runs, op : {"createTarget"}, page : Pages, ctx : Contexts]
    \cup [by : Runs, op : {"attach", "close"}, page : Pages]
    \cup [by : Runs, op : {"command"}, session : Session \cup {None}]

ASSUME NoneAssumption == None \notin Command \cup Session

TypeOK ==
    /\ conn \in Conns /\ dflt \in Session \cup {None}
    /\ contexts \subseteq Runs
    /\ home \in [Pages -> Contexts \cup {None}]
    /\ wire \subseteq Command
    /\ inbox \subseteq [call : Command, ok : BOOLEAN, conn : Conns]
    /\ \A m \in inbox : call[m.call.by] = m.call     \* kept for a waiting caller
    /\ touched \subseteq Actors \X Contexts
    /\ call \in [Runs -> Command \cup {None}]
    /\ lost \subseteq Runs
    /\ pc \in [Runs -> Calling \cup {"idle", "steps", "done"}]
    /\ rcCtx \in [Runs -> Runs \cup {None}]
    /\ rcSid \in [Runs -> Session \cup {None}] /\ dlSid \in [Runs -> Session \cup {None}]
    /\ tab \in [Runs -> 0..MaxTabs] /\ tabs \in [Runs -> 0..MaxTabs]
    /\ left \in [Runs -> 0..MaxOps]
    /\ cancelled \subseteq Leavers /\ unsure \subseteq Runs

\* SetupDefault has attached to a page.  (When it fails the server serves all
\* the same, and the commands of the default session fail.)
Init ==
    /\ conn = 1
    /\ dflt = [page |-> SharedPage, conn |-> 1]
    /\ contexts = {}
    /\ home = [p \in Pages |-> IF p = SharedPage THEN Shared ELSE None]
    /\ wire = {} /\ inbox = {} /\ touched = {} /\ lost = {}
    /\ call = [r \in Runs |-> None]
    /\ pc = [r \in Runs |-> "idle"]
    /\ rcCtx = [r \in Runs |-> None]
    /\ rcSid = [r \in Runs |-> None] /\ dlSid = [r \in Runs |-> None]
    /\ tab = [r \in Runs |-> 0] /\ tabs = [r \in Runs |-> 0]
    /\ left = [r \in Runs |-> MaxOps]
    /\ cancelled = {} /\ unsure = {}

-----------------------------------------------------------------------------
(* Sending, and the ways a call may end *)

\* send: to the run's session, or to the default one when it has none.
RunSession(r) == IF rcSid[r] # None THEN rcSid[r] ELSE dflt

\* Seeded bug: a tab is opened in the default context.
TabInDefault(r) == Shared

\* The context of doOpenTab and doDownloadFile.
TabContext(r) == IF rcCtx[r] # None THEN rcCtx[r] ELSE Shared

ContextCmd(r, op)  == [by |-> r, op |-> op, ctx |-> r]
TargetCmd(r, p, c) == [by |-> r, op |-> "createTarget", page |-> p, ctx |-> c]
PageCmd(r, op, p)  == [by |-> r, op |-> op, page |-> p]
SessionCmd(a, s)   == [by |-> a, op |-> "command", session |-> s]

\* The command a run sends where it is.
CommandOf(r) ==
    CASE pc[r] = "createContext"         -> ContextCmd(r, "createContext")
      [] pc[r] \in Detached              -> ContextCmd(r, "disposeContext")
      [] pc[r] = "createTarget"          -> TargetCmd(r, <<r, 0>>, r)
      [] pc[r] \in {"openTab", "dlCreate"} -> TargetCmd(r, <<r, tab[r]>>, TabContext(r))
      [] pc[r] \in {"attach", "switchTab", "dlAttach"} -> PageCmd(r, "attach", <<r, tab[r]>>)
      [] pc[r] \in {"closeTab", "dlClose"} -> PageCmd(r, "close", <<r, tab[r]>>)
      [] pc[r] = "command"               -> SessionCmd(r, RunSession(r))
      [] pc[r] = "dlCommand"             -> SessionCmd(r, dlSid[r])

\* A cancelled request may still write its command: the write does not look at
\* the context, and waitReady chooses.
Send(r) ==
    /\ pc[r] \in Calling /\ (pc[r] = "dispose" => rcCtx[r] # None)
    /\ call[r] = None
    /\ call' = [call EXCEPT ![r] = CommandOf(r)]
    /\ wire' = wire \cup {CommandOf(r)}
    /\ UNCHANGED <<conn, dflt, chrome_vars, inbox, lost, run_vars, cancelled, unsure>>

Answers(r) == {m \in inbox : m.call = call[r]}

\* The call leaves the client's table, with whatever arrived for it.
Forget(r) ==
    /\ call' = [call EXCEPT ![r] = None]
    /\ lost' = lost \ {r}
    /\ inbox' = inbox \ Answers(r)
    /\ UNCHANGED wire

\* Seeded bug: the disposal waits as long as it takes.
NeverTimesOut(r) == FALSE

\* dctx, of ten seconds.
TimesOut(r) == pc[r] \in Detached

\* A call of run r has an answer, was refused, or ended without an answer: its
\* request was cancelled, the connection is gone or the time is up.
Succeeds(r)   == \E m \in Answers(r) : m.ok
Refused(r)    == \E m \in Answers(r) : ~m.ok
Unanswered(r) ==
    \/ r \in lost
    \/ pc[r] \notin Detached /\ r \in cancelled
    \/ TimesOut(r)

Fails(r) == Refused(r) \/ Unanswered(r)

\* The session an attach has made, of the connection that answered it.
NewSession(r) ==
    [page |-> <<r, tab[r]>>, conn |-> (CHOOSE m \in Answers(r) : m.ok).conn]

Goto(r, from, to) == pc[r] = from /\ pc' = [pc EXCEPT ![r] = to]

-----------------------------------------------------------------------------
(* newRunContext *)

Start(r) ==
    /\ Goto(r, "idle", "createContext")
    /\ UNCHANGED <<conn, dflt, chrome_vars, link_vars, rcCtx, rcSid, tab, dlSid,
                   tabs, left, cancelled, unsure>>

\* The shared session, without isolation.
FallBack(r) ==
    /\ rcCtx' = [rcCtx EXCEPT ![r] = None]
    /\ rcSid' = [rcSid EXCEPT ![r] = dflt]

CreateContext(r) ==
    /\ \/ /\ Succeeds(r)
          /\ Goto(r, "createContext", "createTarget")
          /\ rcCtx' = [rcCtx EXCEPT ![r] = r]
          /\ UNCHANGED <<rcSid, unsure>>
       \/ /\ Fails(r)
          /\ Goto(r, "createContext", "steps")
          /\ FallBack(r)
          /\ unsure' = IF Refused(r) THEN unsure ELSE unsure \cup {r}
    /\ Forget(r)
    /\ UNCHANGED <<conn, dflt, chrome_vars, tab, dlSid, tabs, left, cancelled>>

CreateTarget(r) ==
    /\ \/ Succeeds(r) /\ Goto(r, "createTarget", "attach")
       \/ Fails(r) /\ Goto(r, "createTarget", "cleanup")
    /\ Forget(r)
    /\ UNCHANGED <<conn, dflt, chrome_vars, rcCtx, rcSid, tab, dlSid, tabs, left,
                   cancelled, unsure>>

Attach(r) ==
    /\ \/ /\ Succeeds(r)
          /\ Goto(r, "attach", "steps")
          /\ rcSid' = [rcSid EXCEPT ![r] = NewSession(r)]
       \/ /\ Fails(r)
          /\ Goto(r, "attach", "cleanup")
          /\ UNCHANGED rcSid
    /\ Forget(r)
    /\ UNCHANGED <<conn, dflt, chrome_vars, rcCtx, tab, dlSid, tabs, left,
                   cancelled, unsure>>

\* disposeRunContext: an error is only logged.
Cleanup(r) ==
    /\ Succeeds(r) \/ Fails(r)
    /\ Goto(r, "cleanup", "steps")
    /\ FallBack(r)
    /\ unsure' = IF Succeeds(r) THEN unsure ELSE unsure \cup {r}
    /\ Forget(r)
    /\ UNCHANGED <<conn, dflt, chrome_vars, tab, dlSid, tabs, left, cancelled>>

\* The deferred disposal, nothing to do for a run without a context; the call
\* returns, and what it had of sessions and tabs is forgotten.
Dispose(r) ==
    /\ \/ rcCtx[r] = None /\ UNCHANGED unsure
       \/ rcCtx[r] # None /\ Succeeds(r) /\ UNCHANGED unsure
       \/ rcCtx[r] # None /\ Fails(r) /\ unsure' = unsure \cup {r}
    /\ Goto(r, "dispose", "done")
    /\ rcSid' = [rcSid EXCEPT ![r] = None]
    /\ dlSid' = [dlSid EXCEPT ![r] = None]
    /\ tab' = [tab EXCEPT ![r] = 0] /\ tabs' = [tabs EXCEPT ![r] = 0]
    /\ left' = [left EXCEPT ![r] = 0]
    /\ Forget(r)
    /\ UNCHANGED <<conn, dflt, chrome_vars, rcCtx, cancelled>>

-----------------------------------------------------------------------------
(* The steps *)

\* Seeded bug: a run that failed leaves its context.
EndsAtOnce(r) == "done"

\* Where the first error leads: to the deferred disposal.
AfterError(r) == "dispose"

Finish(r) ==
    /\ Goto(r, "steps", "dispose")
    /\ UNCHANGED <<conn, dflt, chrome_vars, link_vars, rcCtx, rcSid, tab, dlSid,
                   tabs, left, cancelled, unsure>>

\* The next command of a step.
NextCommand(r) ==
    /\ Goto(r, "steps", "command")
    /\ UNCHANGED <<conn, dflt, chrome_vars, link_vars, rcCtx, rcSid, tab, dlSid,
                   tabs, left, cancelled, unsure>>

\* A step that opens a tab, or is about one that the run has.
NextTabStep(r) ==
    /\ r \in Tabbed /\ left[r] > 0
    /\ left' = [left EXCEPT ![r] = @ - 1]
    /\ \/ /\ tabs[r] < MaxTabs
          /\ \E op \in {"openTab", "dlCreate"} : Goto(r, "steps", op)
          /\ tabs' = [tabs EXCEPT ![r] = @ + 1]
          /\ tab' = [tab EXCEPT ![r] = tabs[r] + 1]
       \/ /\ \E op \in {"closeTab", "switchTab"} : Goto(r, "steps", op)
          /\ \E n \in 0..tabs[r] : tab' = [tab EXCEPT ![r] = n]
          /\ UNCHANGED tabs
    /\ UNCHANGED <<conn, dflt, chrome_vars, link_vars, rcCtx, rcSid, dlSid,
                   cancelled, unsure>>

\* The end of a call within a step.  The first error ends the run, unless the
\* step ignores it.
Returns(r, from, to, onError) ==
    /\ \/ Succeeds(r) /\ Goto(r, from, to)
       \/ Fails(r) /\ \E next \in onError : Goto(r, from, next)
    /\ Forget(r)
    /\ UNCHANGED <<conn, dflt, chrome_vars, rcCtx, tab, tabs, left, cancelled, unsure>>

CommandDone(r) ==
    /\ Returns(r, "command", "steps", {"steps", AfterError(r)})
    /\ UNCHANGED <<rcSid, dlSid>>

TabDone(r) ==
    /\ \E op \in {"openTab", "closeTab"} : Returns(r, op, "steps", {AfterError(r)})
    /\ UNCHANGED <<rcSid, dlSid>>

\* doSwitchTab: within a run the session of the run changes, never the default.
SwitchTab(r) ==
    /\ Returns(r, "switchTab", "steps", {AfterError(r)})
    /\ rcSid' = IF Succeeds(r) THEN [rcSid EXCEPT ![r] = NewSession(r)] ELSE rcSid
    /\ UNCHANGED dlSid

\* doDownloadFile: a tab, a session, commands, and the deferred close.
DownloadTab(r) ==
    /\ \/ /\ Returns(r, "dlCreate", "dlAttach", {AfterError(r)})
          /\ UNCHANGED dlSid
       \/ /\ Returns(r, "dlAttach", "dlCommand", {"dlClose"})
          /\ dlSid' = IF Succeeds(r) THEN [dlSid EXCEPT ![r] = NewSession(r)] ELSE dlSid
       \/ /\ Returns(r, "dlCommand", "dlClose", {"dlClose"})
          /\ UNCHANGED dlSid
       \/ /\ Returns(r, "dlClose", "steps", {"steps", AfterError(r)})
          /\ dlSid' = [dlSid EXCEPT ![r] = None]
    /\ UNCHANGED rcSid

Cancel(r) ==
    /\ r \in Leavers \ cancelled /\ pc[r] \notin {"idle", "done"}
    /\ cancelled' = cancelled \cup {r}
    /\ UNCHANGED <<conn, dflt, chrome_vars, link_vars, run_vars, unsure>>

RunReturns(r) ==
    \/ CreateContext(r) \/ CreateTarget(r) \/ Attach(r) \/ Cleanup(r) \/ Dispose(r)
    \/ CommandDone(r) \/ TabDone(r) \/ SwitchTab(r) \/ DownloadTab(r)

-----------------------------------------------------------------------------
(* Chrome and the connection *)

Exists(c) == c \in contexts \cup {Shared}

Attached(s) == s # None /\ s.conn = conn /\ home[s.page] # None

Closed(S) == [p \in Pages |-> IF p \in S THEN None ELSE home[p]]

CarriesOut(q) ==
    \/ /\ q.op = "createContext"
       /\ contexts' = contexts \cup {q.ctx}
       /\ UNCHANGED <<home, touched>>
    \/ /\ q.op = "disposeContext" /\ Exists(q.ctx)
       /\ contexts' = contexts \ {q.ctx}
       /\ home' = Closed({p \in Pages : home[p] = q.ctx})
       /\ UNCHANGED touched
    \/ /\ q.op = "createTarget" /\ Exists(q.ctx)
       /\ home' = [home EXCEPT ![q.page] = q.ctx]
       /\ UNCHANGED <<contexts, touched>>
    \/ /\ q.op = "attach" /\ home[q.page] # None
       /\ UNCHANGED chrome_vars
    \/ /\ q.op = "close" /\ home[q.page] # None
       /\ home' = Closed({q.page})
       /\ UNCHANGED <<contexts, touched>>
    \/ /\ q.op = "command" /\ Attached(q.session)
       /\ touched' = touched \cup ({<<q.by, home[q.session.page]>>} \ (Users \X {Shared}))
       /\ UNCHANGED <<contexts, home>>

\* What Chrome cannot do, and what a Chrome without browser contexts does not
\* support.  A step whose own command fails is one that Finish ends.
MayRefuse(q) ==
    CASE q.op = "createContext"  -> q.by \in Refusable
      [] q.op = "disposeContext" -> ~Exists(q.ctx)
      [] q.op = "createTarget"   -> q.by \in Refusable \/ ~Exists(q.ctx)
      [] q.op = "attach"         -> q.by \in Refusable \/ home[q.page] = None
      [] q.op = "close"          -> home[q.page] = None
      [] q.op = "command"        -> ~Attached(q.session)

Execute ==
    \E q \in wire, ok \in BOOLEAN :
        /\ IF ok THEN CarriesOut(q) ELSE MayRefuse(q) /\ UNCHANGED chrome_vars
        /\ wire' = wire \ {q}
        /\ inbox' = IF call[q.by] = q /\ q.by \notin lost
                      THEN inbox \cup {[call |-> q, ok |-> ok, conn |-> conn]}
                      ELSE inbox
        /\ UNCHANGED <<conn, dflt, call, lost, run_vars, cancelled, unsure>>

\* The connection breaks and is replaced: sessions and commands on their way are
\* gone; some callers have their answer, some are failed, and those that wrote
\* after the pending calls were failed wait on.
Break ==
    /\ conn < MaxConn
    /\ conn' = conn + 1
    /\ wire' = {}
    /\ \E had \in SUBSET inbox : inbox' = had
    /\ \E failed \in SUBSET {r \in Runs : call[r] # None /\ Answers(r) = {}} :
            lost' = lost \cup failed \cup {r \in Runs : Answers(r) \ inbox' # {}}
    /\ UNCHANGED <<dflt, chrome_vars, call, run_vars, cancelled, unsure>>

-----------------------------------------------------------------------------
(* Unary methods send one command each, on the session of the request, and *)
(* keep nothing, so that they are seen when Chrome carries the command     *)
(* out.  Users have attached to the default session's page only.           *)

UserSession(route, s) ==
    IF route = "browser" THEN None ELSE IF s = None THEN dflt ELSE s

UserCommand(u) ==
    \E route \in Routes, s \in {None} \cup {[page |-> SharedPage, conn |-> k] : k \in 1..conn} :
        /\ CarriesOut(SessionCmd(u, UserSession(route, s)))
        /\ UNCHANGED <<conn, dflt, link_vars, run_vars, cancelled, unsure>>

-----------------------------------------------------------------------------
Next ==
    \/ \E r \in Runs : \/ Start(r) \/ Send(r) \/ RunReturns(r)
                       \/ NextCommand(r) \/ NextTabStep(r) \/ Finish(r) \/ Cancel(r)
    \/ \E u \in Users : UserCommand(u)
    \/ Execute \/ Break

Spec == Init /\ [][Next]_vars

\* The goroutine of a run whose request may be cancelled runs, and a request has
\* a finite number of steps.  Chrome need not answer.
Fairness ==
    \A r \in Leavers : WF_vars(Send(r) \/ RunReturns(r)) /\ SF_vars(Finish(r))

FairSpec == Spec /\ Fairness
=============================================================================
