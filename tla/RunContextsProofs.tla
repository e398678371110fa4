--------------------------- MODULE RunContextsProofs ---------------------------
(***************************************************************************)
(* Proofs about runs and their browser contexts, for every number of runs, *)
(* users, tabs and connections.                                            *)
(***************************************************************************)
EXTENDS RunContextsProps, TLAPS

-----------------------------------------------------------------------------
(* Commands, answers and sessions *)

\* A run sends a command of its own, whatever step it is in.
LEMMA CommandTyped ==
    ASSUME TypeOK, NEW r \in Runs, pc[r] \in Calling
    PROVE  CommandOf(r) \in Command /\ CommandOf(r).by = r
<1> USE ContextsAssumption DEF TypeOK, Pages, Contexts
<1>1. 0 \in 0..MaxTabs /\ tab[r] \in 0..MaxTabs
  OBVIOUS
<1>2. TabContext(r) \in Contexts /\ RunSession(r) \in Session \cup {None}
  BY DEF TabContext, RunSession
<1>3. CASE pc[r] = "createContext" \/ pc[r] \in Detached
  BY <1>3 DEF CommandOf, ContextCmd, Command, Detached
<1>4. CASE pc[r] = "createTarget"
  BY <1>1, <1>4 DEF CommandOf, TargetCmd, Command, Detached
<1>5. CASE pc[r] \in {"openTab", "dlCreate"}
  BY <1>1, <1>2, <1>5 DEF CommandOf, TargetCmd, Command, Detached
<1>6. CASE pc[r] \in {"attach", "switchTab", "dlAttach", "closeTab", "dlClose"}
  BY <1>1, <1>6 DEF CommandOf, PageCmd, Command, Detached
<1>7. CASE pc[r] \in {"command", "dlCommand"}
  BY <1>2, <1>7 DEF CommandOf, SessionCmd, Command, Detached
<1>. QED BY <1>3, <1>4, <1>5, <1>6, <1>7 DEF Calling, Creating, TabOps, Download

\* The link between runs and Chrome, as TypeOK has it.
LinkOK ==
    /\ wire \subseteq Command
    /\ inbox \subseteq [call : Command, ok : BOOLEAN, conn : Conns]
    /\ \A m \in inbox : call[m.call.by] = m.call
    /\ call \in [Runs -> Command \cup {None}]
    /\ lost \subseteq Runs

\* The end of a call takes its answers with it.
LEMMA LinkForget ==
    ASSUME TypeOK, NEW r \in Runs, Forget(r)
    PROVE  LinkOK' /\ wire' = wire
<1>1. \A m \in inbox : m.call.by \in Runs
  BY DEF TypeOK, Command
<1>2. \A m \in inbox' : m \in inbox /\ m.call # call[r]
  BY DEF Forget, Answers
<1>3. \A m \in inbox' : call'[m.call.by] = m.call
  BY <1>1, <1>2 DEF Forget, TypeOK
<1>. QED BY <1>2, <1>3 DEF Forget, TypeOK, LinkOK

\* An attach that succeeded has made a session of the tab.
LEMMA SessionTyped ==
    ASSUME TypeOK, NEW r \in Runs, Succeeds(r)
    PROVE  NewSession(r) \in Session /\ NewSession(r).page = <<r, tab[r]>>
<1>1. PICK m \in Answers(r) : m.ok
  BY DEF Succeeds
<1>2. (CHOOSE x \in Answers(r) : x.ok) \in inbox
  BY <1>1 DEF Answers
<1>3. (CHOOSE x \in Answers(r) : x.ok).conn \in Conns
  BY <1>2 DEF TypeOK
<1>. QED BY <1>3 DEF NewSession, Session, Pages, TypeOK

-----------------------------------------------------------------------------
(* Types *)

\* What Chrome has.
ChromeOK ==
    /\ contexts \subseteq Runs
    /\ home \in [Pages -> Contexts \cup {None}]
    /\ touched \subseteq Actors \X Contexts

\* What a run has.
RunOK ==
    /\ pc \in [Runs -> Calling \cup {"idle", "steps", "done"}]
    /\ rcCtx \in [Runs -> Runs \cup {None}]
    /\ rcSid \in [Runs -> Session \cup {None}] /\ dlSid \in [Runs -> Session \cup {None}]
    /\ tab \in [Runs -> 0..MaxTabs] /\ tabs \in [Runs -> 0..MaxTabs]
    /\ left \in [Runs -> 0..MaxOps]

HistoryOK == cancelled \subseteq Leavers /\ unsure \subseteq Runs

LEMMA TypeParts ==
    TypeOK <=> /\ conn \in Conns /\ dflt \in Session \cup {None}
               /\ ChromeOK /\ LinkOK /\ RunOK /\ HistoryOK
BY DEF TypeOK, ChromeOK, LinkOK, RunOK, HistoryOK

LEMMA TypePartsNext ==
    TypeOK' <=> /\ conn' \in Conns /\ dflt' \in Session \cup {None}
                /\ ChromeOK' /\ LinkOK' /\ RunOK' /\ HistoryOK'
BY DEF TypeOK, ChromeOK, LinkOK, RunOK, HistoryOK

\* What Chrome carries out for a run's command or a user's.
LEMMA ChromeTyped ==
    ASSUME TypeOK, NEW q,
           q \in Command \/ (\E u \in Users, s \in Session \cup {None} : q = SessionCmd(u, s)),
           CarriesOut(q)
    PROVE  ChromeOK'
<1>1. CASE q \in Command
  <2>1. CASE q.op = "createContext"
    BY <1>1, <2>1 DEF CarriesOut, Command, TypeOK, ChromeOK
  <2>2. CASE q.op = "disposeContext"
    BY <1>1, <2>2 DEF CarriesOut, Command, TypeOK, ChromeOK, Closed
  <2>3. CASE q.op = "createTarget"
    BY <1>1, <2>3 DEF CarriesOut, Command, TypeOK, ChromeOK
  <2>4. CASE q.op = "attach"
    BY <1>1, <2>4 DEF CarriesOut, Command, TypeOK, ChromeOK, chrome_vars
  <2>5. CASE q.op = "close"
    BY <1>1, <2>5 DEF CarriesOut, Command, TypeOK, ChromeOK, Closed
  <2>6. CASE q.op = "command"
    <3>1. q.by \in Runs /\ q.session \in Session \cup {None}
      BY <1>1, <2>6 DEF Command
    <3>2. q.session.page \in Pages /\ home[q.session.page] \in Contexts
      BY <3>1, <2>6 DEF CarriesOut, Attached, Session, TypeOK
    <3>. QED BY <2>6, <3>1, <3>2 DEF CarriesOut, TypeOK, ChromeOK, Actors
  <2>. QED BY <1>1, <2>1, <2>2, <2>3, <2>4, <2>5, <2>6 DEF Command
<1>2. CASE \E u \in Users, s \in Session \cup {None} : q = SessionCmd(u, s)
  <2>1. PICK u \in Users, s \in Session \cup {None} : q = SessionCmd(u, s)
    BY <1>2
  <2>2. q.op = "command" /\ q.by = u /\ q.session = s
    BY <2>1 DEF SessionCmd
  <2>3. s.page \in Pages /\ home[s.page] \in Contexts
    BY <2>1, <2>2 DEF CarriesOut, Attached, Session, TypeOK
  <2>. QED BY <2>2, <2>3 DEF CarriesOut, TypeOK, ChromeOK, Actors
<1>. QED BY <1>1, <1>2

\* A run that gets on by itself stays well typed.
LEMMA RunMoves ==
    ASSUME TypeOK, NEW r \in Runs, Start(r) \/ Finish(r) \/ NextCommand(r) \/ NextTabStep(r)
    PROVE  RunOK' /\ UNCHANGED <<conn, dflt, chrome_vars, link_vars, cancelled, unsure>>
<1> USE ContextsAssumption DEF TypeOK, RunOK, Goto, Calling, Creating, TabOps, Download, Detached
<1>1. CASE Start(r)
  BY <1>1 DEF Start
<1>2. CASE Finish(r)
  BY <1>2 DEF Finish
<1>3. CASE NextCommand(r)
  BY <1>3 DEF NextCommand
<1>4. CASE NextTabStep(r)
  <2>1. pc' \in [Runs -> Calling \cup {"idle", "steps", "done"}]
    BY <1>4 DEF NextTabStep
  <2>2. tab' \in [Runs -> 0..MaxTabs] /\ tabs' \in [Runs -> 0..MaxTabs]
    BY <1>4 DEF NextTabStep
  <2>3. left' \in [Runs -> 0..MaxOps]
    BY <1>4 DEF NextTabStep
  <2>. QED BY <1>4, <2>1, <2>2, <2>3 DEF NextTabStep
<1>. QED BY <1>1, <1>2, <1>3, <1>4

\* So does one whose call ends.
LEMMA RunEnds ==
    ASSUME TypeOK, NEW r \in Runs, RunReturns(r)
    PROVE  /\ RunOK' /\ HistoryOK' /\ Forget(r)
           /\ UNCHANGED <<conn, dflt, chrome_vars, cancelled>>
<1> USE DEF TypeOK, RunOK, HistoryOK, Goto, Calling, Creating, TabOps, Download, Detached
<1>1. CASE CreateContext(r)
  BY <1>1 DEF CreateContext, FallBack
<1>2. CASE CreateTarget(r)
  BY <1>2 DEF CreateTarget
<1>3. CASE Attach(r)
  BY <1>3, SessionTyped DEF Attach
<1>4. CASE Cleanup(r)
  BY <1>4 DEF Cleanup, FallBack
<1>5. CASE Dispose(r)
  <2>1. 0 \in 0..MaxTabs /\ 0 \in 0..MaxOps
    BY ContextsAssumption
  <2>. QED BY <1>5, <2>1 DEF Dispose
<1>6. CASE CommandDone(r)
  BY <1>6 DEF CommandDone, Returns, AfterError
<1>7. CASE TabDone(r)
  BY <1>7 DEF TabDone, Returns, AfterError
<1>8. CASE SwitchTab(r)
  BY <1>8, SessionTyped DEF SwitchTab, Returns, AfterError
<1>9. CASE DownloadTab(r)
  BY <1>9, SessionTyped DEF DownloadTab, Returns, AfterError
<1>. QED BY <1>1, <1>2, <1>3, <1>4, <1>5, <1>6, <1>7, <1>8, <1>9 DEF RunReturns

LEMMA TypeStep == TypeOK /\ [Next]_vars => TypeOK'
<1> SUFFICES ASSUME TypeOK, [Next]_vars PROVE TypeOK'
  OBVIOUS
<1>1. conn \in Conns /\ dflt \in Session \cup {None} /\ ChromeOK /\ LinkOK /\ RunOK /\ HistoryOK
  BY TypeParts
<1>2. ASSUME NEW r \in Runs, Start(r) \/ Finish(r) \/ NextCommand(r) \/ NextTabStep(r)
      PROVE  TypeOK'
  BY <1>1, <1>2, RunMoves, TypePartsNext DEF chrome_vars, link_vars, ChromeOK, LinkOK, HistoryOK
<1>3. ASSUME NEW r \in Runs, Send(r)
      PROVE  TypeOK'
  <2>1. CommandOf(r) \in Command
    BY <1>3, CommandTyped DEF Send
  <2>2. \A m \in inbox : m.call.by # r
    BY <1>1, <1>3, NoneAssumption DEF LinkOK, Send
  <2>3. LinkOK'
    BY <1>1, <1>3, <2>1, <2>2 DEF LinkOK, Send
  <2>. QED BY <1>1, <1>3, <2>3, TypePartsNext
           DEF Send, chrome_vars, run_vars, ChromeOK, RunOK, HistoryOK
<1>4. ASSUME NEW r \in Runs, RunReturns(r)
      PROVE  TypeOK'
  <2>1. RunOK' /\ HistoryOK' /\ Forget(r) /\ UNCHANGED <<conn, dflt, chrome_vars>>
    BY <1>4, RunEnds
  <2>. QED BY <1>1, <2>1, LinkForget, TypePartsNext DEF chrome_vars, ChromeOK
<1>5. ASSUME NEW r \in Runs, Cancel(r)
      PROVE  TypeOK'
  BY <1>1, <1>5, TypePartsNext
     DEF Cancel, chrome_vars, link_vars, run_vars, ChromeOK, LinkOK, RunOK, HistoryOK
<1>6. ASSUME NEW u \in Users, UserCommand(u)
      PROVE  TypeOK'
  <2>1. PICK s \in Session \cup {None} : CarriesOut(SessionCmd(u, s))
    <3>1. PICK route \in Routes, s \in {None} \cup {[page |-> SharedPage, conn |-> k] : k \in 1..conn} :
              CarriesOut(SessionCmd(u, UserSession(route, s)))
      BY <1>6 DEF UserCommand
    <3>2. s \in Session \cup {None}
      BY <1>1, <3>1, ContextsAssumption DEF Session, Pages, Conns
    <3>3. UserSession(route, s) \in Session \cup {None}
      BY <1>1, <3>2 DEF UserSession
    <3>. QED BY <3>1, <3>3
  <2>2. ChromeOK'
    BY <2>1, ChromeTyped
  <2>. QED BY <1>1, <1>6, <2>2, TypePartsNext
           DEF UserCommand, link_vars, run_vars, LinkOK, RunOK, HistoryOK
<1>7. ASSUME Execute
      PROVE  TypeOK'
  <2>1. PICK q \in wire, ok \in BOOLEAN :
            /\ IF ok THEN CarriesOut(q) ELSE MayRefuse(q) /\ UNCHANGED chrome_vars
            /\ wire' = wire \ {q}
            /\ inbox' = IF call[q.by] = q /\ q.by \notin lost
                          THEN inbox \cup {[call |-> q, ok |-> ok, conn |-> conn]}
                          ELSE inbox
    BY <1>7 DEF Execute
  <2>2. q \in Command
    BY <1>1 DEF LinkOK
  <2>3. ChromeOK'
    BY <1>1, <2>1, <2>2, ChromeTyped DEF chrome_vars, ChromeOK
  <2>4. UNCHANGED <<conn, dflt, call, lost, run_vars, cancelled, unsure>>
    BY <1>7 DEF Execute
  <2>5. LinkOK'
    BY <1>1, <2>1, <2>2, <2>4 DEF LinkOK
  <2>. QED BY <1>1, <2>3, <2>4, <2>5, TypePartsNext DEF run_vars, RunOK, HistoryOK
<1>8. ASSUME Break
      PROVE  TypeOK'
  <2>1. conn' \in Conns
    BY <1>1, <1>8, ContextsAssumption DEF Break, Conns
  <2>2. LinkOK'
    BY <1>1, <1>8 DEF Break, LinkOK
  <2>. QED BY <1>1, <1>8, <2>1, <2>2, TypePartsNext
           DEF Break, chrome_vars, run_vars, ChromeOK, RunOK, HistoryOK
<1>9. ASSUME UNCHANGED vars
      PROVE  TypeOK'
  BY <1>1, <1>9, TypePartsNext
     DEF vars, chrome_vars, link_vars, run_vars, ChromeOK, LinkOK, RunOK, HistoryOK
<1>. QED BY <1>2, <1>3, <1>4, <1>5, <1>6, <1>7, <1>8, <1>9 DEF Next

LEMMA TypeInit == Init => TypeOK
<1> SUFFICES ASSUME Init PROVE TypeOK
  OBVIOUS
<1>1. SharedPage \in Pages /\ 0 \in 0..MaxTabs /\ 1 \in Conns /\ MaxOps \in 0..MaxOps
  BY ContextsAssumption DEF Pages, Conns
<1>. QED BY <1>1 DEF Init, TypeOK, Session, Contexts

\* Every reachable state of the runs, of Chrome and of the link between them is
\* well typed, and an answer is kept only for the caller that waits for it.
THEOREM RunsTypeCorrect == Spec => []TypeOK
BY TypeInit, TypeStep, PTL DEF Spec

-----------------------------------------------------------------------------
(* Isolation.  Everything a run has, knows or has sent is its own, and the  *)
(* default context is for runs without a context.  A run gets its context   *)
(* when it has nothing anywhere yet, so nothing that was allowed to a run   *)
(* without a context is left when it has one.                               *)

Ownership == KnowsOwn /\ AtHome /\ SentOwn /\ UntouchedUntilMade /\ Isolated

Settling == {"createTarget", "attach", "cleanup", "done"}

\* Ownership is kept while runs get on with what they know, and commands may
\* be lost.
LEMMA OwnFrame ==
    ASSUME Ownership,
           UNCHANGED <<dflt, rcCtx, rcSid, dlSid, home, touched>>, wire' \subseteq wire,
           \A a \in Runs : Unmade(a)' => Unmade(a),
           \A a \in Runs : rcCtx[a] = a /\ rcSid[a] = None => pc'[a] \in Settling,
           \A q \in wire : q.by \in Runs,
           \A use \in touched : use[1] \in Actors
    PROVE  Ownership'
<1>1. KnowsOwn'
  BY DEF Ownership, KnowsOwn, Usable, Settling
<1>2. AtHome'
  BY DEF Ownership, AtHome
<1>3. SentOwn'
  BY DEF Ownership, SentOwn, Usable
<1>4. UntouchedUntilMade' /\ Isolated'
  BY DEF Ownership, UntouchedUntilMade, Isolated
<1>. QED BY <1>1, <1>2, <1>3, <1>4 DEF Ownership

\* Ownership is kept when a run, and no other, gets to know a session of its own,
\* the default one for want of a context, or forgets what it knew.
LEMMA OwnLearn ==
    ASSUME Ownership, TypeOK, NEW r \in Runs, NEW to, to \notin {"idle", "createContext"},
           UNCHANGED <<dflt, home, touched, wire>>,
           pc' = [pc EXCEPT ![r] = to],
           \A a \in Runs \ {r} : rcCtx'[a] = rcCtx[a] /\ rcSid'[a] = rcSid[a] /\ dlSid'[a] = dlSid[a],
           rcCtx'[r] \in {rcCtx[r], None} \/ (rcCtx'[r] = r /\ Unmade(r)),
           Usable(r, rcSid[r])' \/ rcSid'[r] = None,
           dlSid'[r] # None => dlSid'[r].page \in OwnPages(r),
           rcCtx'[r] = r /\ rcSid'[r] = None => to \in Settling
    PROVE  Ownership'
<1> USE DEF Ownership
<1>1. \A a \in Runs : Unmade(a)' => Unmade(a) /\ a # r
  BY DEF Unmade, TypeOK
<1>2. \A a \in Runs : (rcCtx[a] = None /\ ~(a = r /\ Unmade(r))) => rcCtx'[a] = None
  BY DEF KnowsOwn, Unmade
<1>3. KnowsOwn'
  <2>1. \A a \in Runs \ {r} : pc'[a] = pc[a]
    BY DEF TypeOK
  <2>2. pc'[r] = to
    BY DEF TypeOK
  <2>3. \A a \in Runs \ {r} : Usable(a, rcSid[a])'
    BY DEF KnowsOwn, Usable
  <2>4. Usable(r, rcSid[r])' /\ rcCtx'[r] \in {None, r}
    BY DEF KnowsOwn, Usable
  <2>. QED BY <1>1, <2>1, <2>2, <2>3, <2>4 DEF KnowsOwn, Settling
<1>4. AtHome'
  BY <1>1, <1>2, ContextsAssumption DEF AtHome
<1>5. SentOwn'
  <2>1. SUFFICES ASSUME NEW q \in wire
                 PROVE  /\ q.op = "createTarget" =>
                             /\ q.page \in OwnPages(q.by)
                             /\ q.ctx \in {q.by, Shared}
                             /\ q.ctx = Shared => rcCtx'[q.by] = None
                        /\ q.op = "command" => Usable(q.by, q.session)'
                        /\ Unmade(q.by)' => q.op = "createContext"
    BY DEF SentOwn
  <2>2. q.by \in Runs
    BY DEF TypeOK, Command
  <2>3. CASE q.op = "createContext"
    BY <2>3
  <2>4. CASE q.op # "createContext"
    <3>1. ~Unmade(q.by)
      BY <2>4 DEF SentOwn
    <3>. QED BY <1>1, <1>2, <2>2, <3>1 DEF SentOwn, Usable
  <2>. QED BY <2>3, <2>4
<1>6. UntouchedUntilMade' /\ Isolated'
  BY <1>1, <1>2 DEF UntouchedUntilMade, Isolated
<1>. QED BY <1>3, <1>4, <1>5, <1>6

\* The frame's conditions on wire and touched, from the types.
LEMMA KnownActors ==
    ASSUME TypeOK
    PROVE  /\ \A q \in wire : q.by \in Runs
           /\ \A use \in touched : use[1] \in Actors
BY DEF TypeOK, Command

LEMMA OwnMoves ==
    ASSUME TypeOK, Ownership, NEW r \in Runs,
           Start(r) \/ Finish(r) \/ NextCommand(r) \/ NextTabStep(r) \/ Cancel(r)
    PROVE  Ownership'
<1>1. UNCHANGED <<dflt, rcCtx, rcSid, dlSid, home, touched, wire>>
  BY DEF Start, Finish, NextCommand, NextTabStep, Cancel, chrome_vars, link_vars, run_vars
<1>2. \/ pc' = pc
      \/ pc[r] = "idle" /\ pc' = [pc EXCEPT ![r] = "createContext"]
      \/ pc[r] = "steps" /\ \E to \in TabOps \cup {"dispose", "command", "dlCreate"} :
                                pc' = [pc EXCEPT ![r] = to]
  BY DEF Start, Finish, NextCommand, NextTabStep, Cancel, run_vars, Goto, TabOps
<1>3. \A a \in Runs : Unmade(a)' => Unmade(a)
  BY <1>2 DEF Unmade, TypeOK, TabOps
<1>4. ASSUME NEW a \in Runs, rcCtx[a] = a, rcSid[a] = None
      PROVE  pc'[a] \in Settling
  <2>1. pc[a] \in Settling
    BY <1>4 DEF Ownership, KnowsOwn, Settling
  <2>2. pc'[a] = pc[a]
    BY <1>2, <2>1 DEF TypeOK, Settling
  <2>. QED BY <2>1, <2>2
<1>. QED BY <1>1, <1>3, <1>4, KnownActors, OwnFrame

\* Only the session of the run, or the default one of a run without a context,
\* is put on the wire, and tabs are opened where the run's pages are.
LEMMA OwnSend ==
    ASSUME TypeOK, Ownership, NEW r \in Runs, Send(r)
    PROVE  Ownership'
<1> DEFINE new == CommandOf(r)
<1>1. /\ UNCHANGED <<dflt, rcCtx, rcSid, dlSid, home, touched, pc, tab>>
      /\ wire' = wire \cup {new} /\ pc[r] \in Calling
  BY DEF Send, chrome_vars, run_vars
<1>2. new \in Command /\ new.by = r
  BY <1>1, CommandTyped
<1>3. <<r, 0>> \in OwnPages(r) /\ <<r, tab[r]>> \in OwnPages(r)
  BY ContextsAssumption DEF TypeOK, OwnPages
<1>4. rcCtx[r] \in {None, r}
  BY DEF Ownership, KnowsOwn
<1>5. new.op = "createTarget" => /\ new.page \in OwnPages(r)
                                 /\ new.ctx \in {r, Shared}
                                 /\ new.ctx = Shared => rcCtx[r] = None
  <2>1. CASE pc[r] = "createTarget"
    BY <2>1, <1>3, ContextsAssumption DEF CommandOf, TargetCmd, Detached
  <2>2. CASE pc[r] \in {"openTab", "dlCreate"}
    BY <2>2, <1>3, <1>4, ContextsAssumption DEF CommandOf, TargetCmd, TabContext, Detached
  <2>3. CASE pc[r] \notin {"createTarget", "openTab", "dlCreate"}
    BY <1>1, <2>3 DEF CommandOf, ContextCmd, PageCmd, SessionCmd,
                      Calling, Creating, TabOps, Download, Detached
  <2>. QED BY <2>1, <2>2, <2>3
<1>6. new.op = "command" => Usable(r, new.session)
  <2>1. CASE pc[r] = "command"
    <3>1. new.session = RunSession(r)
      BY <2>1 DEF CommandOf, SessionCmd, Detached
    <3>2. rcSid[r] = None => rcCtx[r] = None
      BY <2>1, <1>4 DEF Ownership, KnowsOwn
    <3>. QED BY <3>1, <3>2 DEF RunSession, Ownership, KnowsOwn, Usable
  <2>2. CASE pc[r] = "dlCommand"
    <3>1. new.session = dlSid[r]
      BY <2>2 DEF CommandOf, SessionCmd, Detached
    <3>. QED BY <3>1 DEF Ownership, KnowsOwn, Usable
  <2>3. CASE pc[r] \notin {"command", "dlCommand"}
    BY <1>1, <2>3 DEF CommandOf, ContextCmd, TargetCmd, PageCmd,
                      Calling, Creating, TabOps, Download, Detached
  <2>. QED BY <2>1, <2>2, <2>3
<1>7. Unmade(r) => new.op = "createContext"
  BY <1>1 DEF Unmade, CommandOf, ContextCmd, Calling, Creating, TabOps, Download, Detached
<1>8. SentOwn'
  BY <1>1, <1>2, <1>5, <1>6, <1>7 DEF Ownership, SentOwn, Usable, Unmade
<1>. QED BY <1>1, <1>8
         DEF Ownership, KnowsOwn, AtHome, UntouchedUntilMade, Isolated, Usable, Unmade

LEMMA OwnReturns ==
    ASSUME TypeOK, Ownership, NEW r \in Runs, RunReturns(r)
    PROVE  Ownership'
<1>1. wire' = wire /\ UNCHANGED <<dflt, home, touched>>
  BY RunEnds DEF Forget, chrome_vars
<1>2. /\ Usable(r, rcSid[r]) /\ (dlSid[r] # None => dlSid[r].page \in OwnPages(r))
      /\ rcCtx[r] \in {None, r} /\ (dflt # None => dflt.page = SharedPage)
      /\ rcCtx[r] = r /\ rcSid[r] = None => pc[r] \in Settling
  BY DEF Ownership, KnowsOwn, Settling
<1>3. <<r, tab[r]>> \in OwnPages(r)
  BY DEF TypeOK, OwnPages
<1>4. CASE CreateContext(r)
  <2>1. CASE Succeeds(r) /\ Goto(r, "createContext", "createTarget")
             /\ rcCtx' = [rcCtx EXCEPT ![r] = r] /\ UNCHANGED rcSid
    <3>1. Unmade(r) /\ rcSid[r] = None
      BY <2>1 DEF Goto, Unmade, Ownership, KnowsOwn
    <3>. QED BY <1>1, <1>2, <1>4, <2>1, <3>1, OwnLearn
             DEF CreateContext, Goto, Settling, TypeOK
  <2>2. CASE Fails(r) /\ Goto(r, "createContext", "steps") /\ FallBack(r)
    <3>1. \A a \in Runs \ {r} : rcCtx'[a] = rcCtx[a] /\ rcSid'[a] = rcSid[a]
      BY <2>2 DEF FallBack, TypeOK
    <3>2. rcCtx'[r] = None /\ rcSid'[r] = dflt /\ rcCtx'[r] # r
      BY <2>2, ContextsAssumption DEF FallBack, TypeOK
    <3>3. Usable(r, rcSid[r])'
      BY <1>2, <3>2 DEF Usable
    <3>4. UNCHANGED dlSid
      BY <1>4 DEF CreateContext
    <3>. QED BY <1>1, <1>2, <2>2, <3>1, <3>2, <3>3, <3>4, OwnLearn DEF Goto
  <2>. QED BY <1>4, <2>1, <2>2 DEF CreateContext
<1>5. CASE CreateTarget(r)
  <2>1. UNCHANGED <<rcCtx, rcSid, dlSid>>
        /\ \E to \in {"attach", "cleanup"} : pc' = [pc EXCEPT ![r] = to]
    BY <1>5 DEF CreateTarget, Goto
  <2>. QED BY <1>1, <1>2, <2>1, OwnLearn DEF Usable, Settling
<1>6. CASE Attach(r)
  <2>1. CASE Succeeds(r) /\ Goto(r, "attach", "steps")
             /\ rcSid' = [rcSid EXCEPT ![r] = NewSession(r)]
    <3>1. rcSid'[r] # None /\ rcSid'[r].page \in OwnPages(r)
      BY <1>3, <2>1, SessionTyped, NoneAssumption DEF TypeOK
    <3>2. \A a \in Runs \ {r} : rcSid'[a] = rcSid[a]
      BY <2>1 DEF TypeOK
    <3>3. Usable(r, rcSid[r])'
      BY <3>1 DEF Usable
    <3>4. UNCHANGED <<rcCtx, dlSid>>
      BY <1>6 DEF Attach
    <3>. QED BY <1>1, <1>2, <2>1, <3>1, <3>2, <3>3, <3>4, OwnLearn DEF Goto
  <2>2. CASE Fails(r) /\ Goto(r, "attach", "cleanup") /\ UNCHANGED rcSid
    BY <1>1, <1>2, <1>6, <2>2, OwnLearn DEF Attach, Goto, Usable, Settling
  <2>. QED BY <1>6, <2>1, <2>2 DEF Attach
<1>7. CASE Cleanup(r)
  BY <1>1, <1>2, <1>7, OwnLearn, ContextsAssumption DEF Cleanup, Goto, FallBack, Usable, TypeOK
<1>8. CASE Dispose(r)
  BY <1>1, <1>2, <1>8, OwnLearn DEF Dispose, Goto, Settling, TypeOK
<1>9. CASE CommandDone(r) \/ TabDone(r)
  <2>1. /\ UNCHANGED <<rcCtx, rcSid, dlSid>> /\ pc[r] \notin Settling
        /\ \E to \in {"steps", "dispose"} : pc' = [pc EXCEPT ![r] = to]
    BY <1>9 DEF CommandDone, TabDone, Returns, Goto, AfterError, Settling
  <2>. QED BY <1>1, <1>2, <2>1, OwnLearn DEF Usable
<1>10. CASE SwitchTab(r)
  <2>1. /\ UNCHANGED <<rcCtx, dlSid>> /\ pc[r] \notin Settling
        /\ \E to \in {"steps", "dispose"} : pc' = [pc EXCEPT ![r] = to]
    BY <1>10 DEF SwitchTab, Returns, Goto, AfterError, Settling
  <2>2. CASE Succeeds(r)
    <3>1. rcSid' = [rcSid EXCEPT ![r] = NewSession(r)]
      BY <1>10, <2>2 DEF SwitchTab
    <3>2. rcSid'[r] # None /\ rcSid'[r].page \in OwnPages(r)
      BY <1>3, <2>2, <3>1, SessionTyped, NoneAssumption DEF TypeOK
    <3>3. \A a \in Runs \ {r} : rcSid'[a] = rcSid[a]
      BY <3>1 DEF TypeOK
    <3>4. Usable(r, rcSid[r])'
      BY <3>2 DEF Usable
    <3>. QED BY <1>1, <1>2, <2>1, <3>2, <3>3, <3>4, OwnLearn
  <2>3. CASE ~Succeeds(r)
    BY <1>1, <1>2, <1>10, <2>1, <2>3, OwnLearn DEF SwitchTab, Usable
  <2>. QED BY <2>2, <2>3
<1>11. CASE DownloadTab(r)
  <2>1. /\ UNCHANGED <<rcCtx, rcSid>> /\ pc[r] \notin Settling
        /\ \E to \in {"dlAttach", "dlCommand", "dlClose", "steps", "dispose"} :
               pc' = [pc EXCEPT ![r] = to]
    BY <1>11 DEF DownloadTab, Returns, Goto, AfterError, Settling
  <2>2. \/ UNCHANGED dlSid
        \/ dlSid' = [dlSid EXCEPT ![r] = None]
        \/ Succeeds(r) /\ dlSid' = [dlSid EXCEPT ![r] = NewSession(r)]
    BY <1>11 DEF DownloadTab
  <2>3. dlSid'[r] # None => dlSid'[r].page \in OwnPages(r)
    BY <1>2, <1>3, <2>2, SessionTyped DEF TypeOK
  <2>4. \A a \in Runs \ {r} : dlSid'[a] = dlSid[a]
    BY <2>2 DEF TypeOK
  <2>5. Usable(r, rcSid[r])' /\ (rcCtx'[r] = r => rcSid'[r] # None)
    BY <1>2, <2>1 DEF Usable
  <2>. QED BY <1>1, <1>2, <2>1, <2>3, <2>4, <2>5, OwnLearn
<1>. QED BY <1>4, <1>5, <1>6, <1>7, <1>8, <1>9, <1>10, <1>11 DEF RunReturns

-----------------------------------------------------------------------------
(* Chrome *)

\* What is on its way to Chrome keeps everything where it belongs, whenever it
\* is carried out.
LEMMA OwnExecute ==
    ASSUME TypeOK, Ownership, Execute
    PROVE  Ownership'
<1>1. UNCHANGED <<dflt, rcCtx, rcSid, dlSid, pc>> /\ wire' \subseteq wire
  BY DEF Execute, run_vars
<1>2. KnowsOwn' /\ SentOwn'
  BY <1>1 DEF Ownership, KnowsOwn, SentOwn, Usable, Unmade
<1>3. PICK q \in wire : CarriesOut(q) \/ UNCHANGED chrome_vars
  BY DEF Execute
<1>4. q \in Command /\ q.by \in Runs
  BY DEF TypeOK, Command
<1>5. CASE UNCHANGED <<home, touched>>
  BY <1>1, <1>2, <1>5 DEF Ownership, AtHome, UntouchedUntilMade, Isolated, Unmade
<1>6. CASE q.op \in {"disposeContext", "close"} /\ CarriesOut(q)
  <2>1. (\A p \in Pages : home'[p] \in {home[p], None}) /\ UNCHANGED touched
    BY <1>6 DEF CarriesOut, Closed
  <2>2. SharedPage \in Pages /\ \A r \in Runs : OwnPages(r) \subseteq Pages
    BY DEF Pages, OwnPages
  <2>3. AtHome'
    BY <1>1, <2>1, <2>2, ContextsAssumption DEF Ownership, AtHome, Unmade
  <2>. QED BY <1>1, <1>2, <2>1, <2>3 DEF Ownership, UntouchedUntilMade, Isolated, Unmade
<1>7. CASE q.op = "createTarget" /\ CarriesOut(q)
  <2>1. /\ home' = [home EXCEPT ![q.page] = q.ctx] /\ UNCHANGED touched
        /\ q.page \in OwnPages(q.by) /\ q.ctx \in {q.by, Shared}
        /\ q.ctx = Shared => rcCtx[q.by] = None
        /\ ~Unmade(q.by)
    BY <1>7 DEF CarriesOut, Ownership, SentOwn
  <2>2. SharedPage # q.page
    BY <1>4, <2>1, ContextsAssumption DEF SharedPage, OwnPages
  <2>3. \A r \in Runs : \A p \in OwnPages(r) : p = q.page => r = q.by
    BY <1>4, <2>1 DEF OwnPages
  <2>4. \A p \in Pages : home'[p] = IF p = q.page THEN q.ctx ELSE home[p]
    BY <2>1 DEF TypeOK
  <2>5. SharedPage \in Pages /\ \A r \in Runs : OwnPages(r) \subseteq Pages
    BY DEF Pages, OwnPages
  <2>6. AtHome'
    BY <1>1, <1>4, <2>1, <2>2, <2>3, <2>4, <2>5, ContextsAssumption DEF Ownership, AtHome, Unmade
  <2>. QED BY <1>1, <1>2, <2>1, <2>6 DEF Ownership, UntouchedUntilMade, Isolated, Unmade
<1>8. CASE q.op = "command" /\ CarriesOut(q)
  <2>1. /\ UNCHANGED home /\ Attached(q.session)
        /\ touched' \subseteq touched \cup {<<q.by, home[q.session.page]>>}
    BY <1>8 DEF CarriesOut
  <2>2. Usable(q.by, q.session) /\ ~Unmade(q.by)
    BY <1>8 DEF Ownership, SentOwn
  <2>3. home[q.session.page] \in {q.by, Shared}
        /\ (home[q.session.page] = Shared => rcCtx[q.by] = None)
    BY <1>4, <2>1, <2>2 DEF Attached, Usable, Ownership, AtHome
  <2>4. UntouchedUntilMade' /\ Isolated'
    BY <1>1, <1>4, <2>1, <2>2, <2>3, ContextsAssumption
       DEF Ownership, UntouchedUntilMade, Isolated, Unmade
  <2>. QED BY <1>1, <1>2, <2>1, <2>4 DEF Ownership, AtHome, Unmade
<1>9. CASE q.op \in {"createContext", "attach"} /\ CarriesOut(q)
  BY <1>5, <1>9 DEF CarriesOut, chrome_vars
<1>. QED BY <1>3, <1>4, <1>5, <1>6, <1>7, <1>8, <1>9 DEF Command, chrome_vars

\* A user's command reaches the default session's page at most.
LEMMA OwnUser ==
    ASSUME TypeOK, Ownership, NEW u \in Users, UserCommand(u)
    PROVE  Ownership'
<1>1. UNCHANGED <<dflt, rcCtx, rcSid, dlSid, pc, wire>>
  BY DEF UserCommand, link_vars, run_vars
<1>2. PICK route \in Routes, s \in {None} \cup {[page |-> SharedPage, conn |-> k] : k \in 1..conn} :
          CarriesOut(SessionCmd(u, UserSession(route, s)))
  BY DEF UserCommand
<1> DEFINE chosen == UserSession(route, s)
<1>3. Attached(chosen) /\ UNCHANGED home
      /\ touched' = touched \cup ({<<u, home[chosen.page]>>} \ (Users \X {Shared}))
  BY <1>2 DEF CarriesOut, SessionCmd
<1>4. chosen.page = SharedPage
  BY <1>3 DEF UserSession, Attached, Ownership, KnowsOwn
<1>5. home[SharedPage] = Shared
  BY <1>3, <1>4 DEF Attached, Ownership, AtHome
<1>6. touched' = touched
  BY <1>3, <1>4, <1>5
<1>. QED BY <1>1, <1>3, <1>6
         DEF Ownership, KnowsOwn, AtHome, SentOwn, UntouchedUntilMade, Isolated, Usable, Unmade

LEMMA OwnStep == TypeOK /\ Ownership /\ [Next]_vars => Ownership'
<1> SUFFICES ASSUME TypeOK, Ownership, [Next]_vars PROVE Ownership'
  OBVIOUS
<1>1. ASSUME Break \/ UNCHANGED vars PROVE Ownership'
  <2>1. UNCHANGED <<dflt, rcCtx, rcSid, dlSid, home, touched, pc>> /\ wire' \subseteq wire
    BY <1>1 DEF Break, vars, chrome_vars, link_vars, run_vars
  <2>2. \A a \in Runs : rcCtx[a] = a /\ rcSid[a] = None => pc'[a] \in Settling
    BY <2>1 DEF Ownership, KnowsOwn, Settling
  <2>. QED BY <2>1, <2>2, KnownActors, OwnFrame DEF Unmade
<1>. QED BY <1>1, OwnMoves, OwnSend, OwnReturns, OwnExecute, OwnUser DEF Next

LEMMA OwnInit == Init => Ownership
<1> SUFFICES ASSUME Init PROVE Ownership
  OBVIOUS
<1>1. KnowsOwn
  BY ContextsAssumption DEF Init, KnowsOwn, Usable, Unmade
<1>2. AtHome
  BY ContextsAssumption DEF Init, AtHome, OwnPages, SharedPage, Pages
<1>. QED BY <1>1, <1>2 DEF Init, Ownership, SentOwn, UntouchedUntilMade, Isolated

\* Runs, their pages, their sessions and their commands stay together.
LEMMA OwnershipInvariant == Spec => [](TypeOK /\ Ownership)
BY TypeInit, TypeStep, OwnInit, OwnStep, PTL DEF Spec

\* In a run's context nobody else ever carries out a command, and a run that has
\* a context carries out none in the default one (RunAutomation, ExecuteStep):
\* for every number of runs, users, tabs and reconnections.
THEOREM RunsAreIsolated == Spec => []Isolated
<1>1. Ownership => Isolated
  BY DEF Ownership
<1>. QED BY <1>1, OwnershipInvariant, PTL

-----------------------------------------------------------------------------
(*****************************************************************************)
(* Proof that a run that is over has left no browser context in Chrome.    *)
(*****************************************************************************)

Creation(r) == ContextCmd(r, "createContext")
Disposal(r) == ContextCmd(r, "disposeContext")

-----------------------------------------------------------------------------
(* Runs wait for the commands of where they are *)

\* Calls may end and commands be lost.
LEMMA AwaitsFrame ==
    ASSUME AwaitsOwn, wire' \subseteq wire,
           \A a \in Runs : (pc'[a] = pc[a] /\ call'[a] = call[a]) \/ call'[a] = None
    PROVE  AwaitsOwn'
BY DEF AwaitsOwn

\* A run puts on the wire, and then waits for, the command of where it is.
LEMMA AwaitsStep == TypeOK /\ AwaitsOwn /\ [Next]_vars => AwaitsOwn'
<1> SUFFICES ASSUME TypeOK, AwaitsOwn, [Next]_vars PROVE AwaitsOwn'
  OBVIOUS
<1>1. ASSUME NEW r \in Runs, Start(r) \/ Finish(r) \/ NextCommand(r) \/ NextTabStep(r)
      PROVE  AwaitsOwn'
  <2>1. UNCHANGED <<wire, call>> /\ pc[r] \notin Calling /\ \A a \in Runs \ {r} : pc'[a] = pc[a]
    BY <1>1 DEF Start, Finish, NextCommand, NextTabStep, Goto, link_vars, TypeOK,
                Calling, Creating, TabOps, Download, Detached
  <2>. QED BY <2>1, AwaitsFrame DEF AwaitsOwn
<1>2. ASSUME NEW r \in Runs, Send(r)
      PROVE  AwaitsOwn'
  <2>1. /\ UNCHANGED pc /\ pc[r] \in Calling
        /\ call' = [call EXCEPT ![r] = CommandOf(r)] /\ wire' = wire \cup {CommandOf(r)}
    BY <1>2 DEF Send, run_vars
  <2>2. CommandOf(r).by = r
    BY <2>1, CommandTyped
  <2>3. /\ pc[r] = "createContext" => CommandOf(r) = Creation(r)
        /\ pc[r] \in Detached => CommandOf(r) = Disposal(r)
    BY DEF CommandOf, Creation, Disposal, Detached
  <2>4. CommandOf(r).op \in {"createContext", "disposeContext"}
            => CommandOf(r) = ContextCmd(r, CommandOf(r).op)
    <3>1. CASE pc[r] = "createContext" \/ pc[r] \in Detached
      BY <2>3, <3>1 DEF Creation, Disposal, ContextCmd
    <3>2. CASE pc[r] # "createContext" /\ pc[r] \notin Detached
      BY <2>1, <3>2 DEF CommandOf, TargetCmd, PageCmd, SessionCmd,
                        Calling, Creating, TabOps, Download, Detached
    <3>. QED BY <3>1, <3>2
  <2>. QED BY <2>1, <2>2, <2>3, <2>4 DEF AwaitsOwn, Creation, Disposal, TypeOK
<1>3. ASSUME NEW r \in Runs, RunReturns(r)
      PROVE  AwaitsOwn'
  <2>1. Forget(r)
    BY <1>3, RunEnds
  <2>2. \A a \in Runs \ {r} : pc'[a] = pc[a]
    BY <1>3 DEF RunReturns, CreateContext, CreateTarget, Attach, Cleanup, Dispose, CommandDone,
                TabDone, SwitchTab, DownloadTab, Returns, Goto, TypeOK
  <2>3. wire' = wire /\ call'[r] = None /\ \A a \in Runs \ {r} : call'[a] = call[a]
    BY <2>1 DEF Forget, TypeOK
  <2>. QED BY <2>2, <2>3, AwaitsFrame
<1>4. ASSUME \/ \E r \in Runs : Cancel(r)
             \/ \E u \in Users : UserCommand(u)
             \/ Execute \/ Break \/ UNCHANGED vars
      PROVE  AwaitsOwn'
  <2>1. wire' \subseteq wire /\ UNCHANGED <<pc, call>>
    BY <1>4 DEF Cancel, UserCommand, Execute, Break, vars, link_vars, run_vars
  <2>. QED BY <2>1, AwaitsFrame
<1>. QED BY <1>1, <1>2, <1>3, <1>4 DEF Next

-----------------------------------------------------------------------------
(* Contexts are accounted for *)

\* Nothing of what Accounted says is disturbed by runs that go on with what they
\* have, or by losses on the way.
LEMMA AccountedFrame ==
    ASSUME Accounted, UNCHANGED <<contexts, call, rcCtx, unsure>>,
           wire' \subseteq wire, inbox' \subseteq inbox,
           \A a \in Runs : /\ Awaited(a) => pc'[a] = pc[a]
                           /\ pc'[a] = "done" => pc[a] = "done"
    PROVE  Accounted'
BY DEF Accounted, Awaited

\* A run without a context of its own, whose creation is not under way, has none
\* in Chrome.
LEMMA NotInChrome ==
    ASSUME Accounted, NEW r \in Runs \ unsure, ~Awaited(r)
    PROVE  Creation(r) \notin wire /\ (r \in contexts => rcCtx[r] = r)
BY DEF Accounted, Creation

LEMMA CreationTyped ==
    ASSUME NEW r \in Runs
    PROVE  Creation(r) \in Command
BY DEF Creation, ContextCmd, Command

\* A creation is sent by a run that has no context in Chrome.
LEMMA AccountedSend ==
    ASSUME TypeOK, Ownership, AwaitsOwn, Accounted, NEW r \in Runs, Send(r)
    PROVE  Accounted'
<1>1. /\ UNCHANGED <<pc, contexts, rcCtx, inbox, unsure>>
      /\ pc[r] \in Calling /\ call[r] = None
      /\ call' = [call EXCEPT ![r] = CommandOf(r)] /\ wire' = wire \cup {CommandOf(r)}
  BY DEF Send, chrome_vars, run_vars
<1>2. CommandOf(r) \in Command /\ CommandOf(r).by = r
  BY <1>1, CommandTyped
<1>3. \A m \in inbox : m.call.by # r
  BY <1>1, NoneAssumption DEF TypeOK
<1>4. ~Awaited(r)
  <2>1. Creation(r) # None
    BY CreationTyped, NoneAssumption
  <2>. QED BY <1>1, <2>1 DEF Awaited, Creation
<1>5. CommandOf(r) = Creation(r) => pc[r] = "createContext"
  <2>1. CASE pc[r] \in Detached
    BY <2>1 DEF CommandOf, Creation, ContextCmd, Detached
  <2>2. CASE pc[r] # "createContext" /\ pc[r] \notin Detached
    BY <1>1, <2>2 DEF CommandOf, Creation, ContextCmd, TargetCmd, PageCmd, SessionCmd,
                      Calling, Creating, TabOps, Download, Detached
  <2>. QED BY <2>1, <2>2
<1>6. ASSUME NEW a \in Runs \ unsure, a # r
      PROVE  /\ (Creation(a) \in wire' <=> Creation(a) \in wire)
             /\ (Awaited(a)' <=> Awaited(a))
  <2>1. Creation(a) # CommandOf(r)
    BY <1>2, <1>6 DEF Creation, ContextCmd
  <2>. QED BY <1>1, <2>1, <1>6 DEF Awaited, TypeOK
<1>7. ASSUME r \notin unsure, Creation(r) \in wire'
      PROVE  Awaited(r)' /\ r \notin contexts
  <2>1. CommandOf(r) = Creation(r)
    BY <1>1, <1>4, <1>7, NotInChrome
  <2>2. Unmade(r)
    BY <1>5, <2>1 DEF Unmade
  <2>3. rcCtx[r] # r
    BY <2>2, ContextsAssumption DEF Ownership, KnowsOwn
  <2>. QED BY <1>1, <1>4, <1>5, <1>7, <2>1, <2>3, NotInChrome DEF Awaited, Creation, TypeOK
<1>. QED BY <1>1, <1>3, <1>4, <1>6, <1>7 DEF Accounted, Creation

\* The end of a call keeps the account of everybody else, and of the run itself
\* when no creation is on its way and it still has what is in Chrome.
LEMMA AccountedForget ==
    ASSUME TypeOK, Accounted, NEW r \in Runs, Forget(r),
           UNCHANGED contexts, unsure \subseteq unsure',
           \A a \in Runs \ {r} : pc'[a] = pc[a] /\ rcCtx'[a] = rcCtx[a],
           r \notin unsure' => /\ Creation(r) \notin wire
                               /\ r \in contexts => rcCtx'[r] = r /\ pc'[r] # "done"
    PROVE  Accounted'
<1>1. wire' = wire /\ inbox' \subseteq inbox /\ call'[r] = None
      /\ \A a \in Runs \ {r} : call'[a] = call[a]
  BY DEF Forget, TypeOK
<1>2. \A m \in inbox' : m.call.by # r
  BY <1>1, LinkForget, NoneAssumption DEF LinkOK
<1>3. \A m \in inbox' : m.call # Disposal(r)
  BY <1>2 DEF Disposal, ContextCmd
<1>4. ASSUME NEW a \in Runs \ unsure', a # r
      PROVE  a \in Runs \ unsure /\ (Awaited(a)' <=> Awaited(a))
             /\ pc'[a] = pc[a] /\ rcCtx'[a] = rcCtx[a]
  BY <1>1, <1>4 DEF Awaited
<1> SUFFICES ASSUME NEW a \in Runs \ unsure'
             PROVE  /\ Creation(a) \in wire =>
                          /\ Awaited(a)' /\ a \notin contexts
                          /\ \A m \in inbox' : m.call.by # a
                    /\ a \in contexts =>
                          \/ /\ Awaited(a)'
                             /\ \A m \in inbox' : m.call.by = a => m.ok
                          \/ /\ rcCtx'[a] = a /\ pc'[a] # "done"
                             /\ \A m \in inbox' : m.call = Disposal(a) => ~m.ok
  BY <1>1 DEF Accounted, Creation, Disposal
<1>5. CASE a = r
  BY <1>3, <1>5
<1>6. CASE a # r
  BY <1>1, <1>4, <1>6 DEF Accounted, Creation, Disposal
<1>. QED BY <1>5, <1>6

\* What answers a run that waits for a command about contexts answers that.
LEMMA AnswersOwn ==
    ASSUME TypeOK, AwaitsOwn, NEW r \in Runs, NEW m \in Answers(r)
    PROVE  /\ m \in inbox
           /\ pc[r] = "createContext" => m.call = Creation(r) /\ m.call.by = r
           /\ pc[r] \in Detached => m.call = Disposal(r)
<1>1. m \in inbox /\ m.call = call[r] /\ m.call # None
  BY NoneAssumption DEF Answers, TypeOK
<1>. QED BY <1>1 DEF AwaitsOwn, Creation, Disposal, ContextCmd

\* A run that learns how its call ended leaves nothing it does not know of: it
\* keeps the context, has been told that there is none, or counts as unsure.
LEMMA AccountedReturns ==
    ASSUME TypeOK, Ownership, AwaitsOwn, Accounted, NEW r \in Runs, RunReturns(r)
    PROVE  Accounted'
<1>1. Forget(r) /\ UNCHANGED contexts
  BY RunEnds DEF chrome_vars
<1>2. rcCtx[r] \in {None, r} /\ r # None
  BY ContextsAssumption DEF Ownership, KnowsOwn
<1>3. CASE CreateContext(r)
  <2>1. pc[r] = "createContext" /\ rcCtx[r] = None
    BY <1>3 DEF CreateContext, Goto, Ownership, KnowsOwn, Unmade
  <2>2. unsure \subseteq unsure'
        /\ \A a \in Runs \ {r} : pc'[a] = pc[a] /\ rcCtx'[a] = rcCtx[a]
    BY <1>3 DEF CreateContext, FallBack, Goto, TypeOK
  <2>3. ASSUME r \notin unsure'
        PROVE  /\ Creation(r) \notin wire
               /\ r \in contexts => rcCtx'[r] = r /\ pc'[r] # "done"
    <3>1. r \notin unsure
      BY <2>2, <2>3
    <3>2. CASE Succeeds(r) /\ Goto(r, "createContext", "createTarget")
               /\ rcCtx' = [rcCtx EXCEPT ![r] = r]
      <4>1. PICK m \in Answers(r) : m.ok
        BY <3>2 DEF Succeeds
      <4>2. Creation(r) \notin wire
        BY <2>1, <3>1, <4>1, AnswersOwn DEF Accounted, Creation
      <4>. QED BY <3>2, <4>2 DEF Goto, TypeOK
    <3>3. CASE Refused(r)
      <4>1. PICK m \in Answers(r) : ~m.ok
        BY <3>3 DEF Refused
      <4>2. m \in inbox /\ m.call.by = r
        BY <2>1, <4>1, AnswersOwn
      <4>3. Creation(r) \notin wire
        BY <3>1, <4>2 DEF Accounted, Creation
      <4>4. r \notin contexts
        BY <1>2, <2>1, <3>1, <4>1, <4>2 DEF Accounted
      <4>. QED BY <4>3, <4>4
    <3>. QED BY <1>3, <2>3, <3>2, <3>3 DEF CreateContext
  <2>. QED BY <1>1, <2>2, <2>3, AccountedForget
<1>4. CASE Cleanup(r) \/ Dispose(r)
  <2>1. pc[r] \in Detached
    BY <1>4 DEF Cleanup, Dispose, Goto, Detached
  <2>2. unsure \subseteq unsure'
        /\ \A a \in Runs \ {r} : pc'[a] = pc[a] /\ rcCtx'[a] = rcCtx[a]
    BY <1>4 DEF Cleanup, Dispose, FallBack, Goto, TypeOK
  <2>3. ~Awaited(r)
    BY <2>1 DEF Awaited, Detached
  <2>4. ASSUME r \notin unsure'
        PROVE  Creation(r) \notin wire /\ r \notin contexts
    <3>1. r \notin unsure
      BY <2>2, <2>4
    <3>2. CASE rcCtx[r] = None
      BY <1>2, <2>3, <3>1, <3>2, NotInChrome
    <3>3. CASE Succeeds(r)
      <4>1. PICK m \in Answers(r) : m.ok
        BY <3>3 DEF Succeeds
      <4>2. m \in inbox /\ m.call = Disposal(r)
        BY <2>1, <4>1, AnswersOwn
      <4>. QED BY <2>3, <3>1, <4>1, <4>2 DEF Accounted, Creation, Disposal
    <3>. QED BY <1>4, <2>4, <3>2, <3>3 DEF Cleanup, Dispose
  <2>. QED BY <1>1, <2>2, <2>4, AccountedForget
<1>5. CASE \/ CreateTarget(r) \/ Attach(r) \/ CommandDone(r) \/ TabDone(r)
           \/ SwitchTab(r) \/ DownloadTab(r)
  <2>1. UNCHANGED <<rcCtx, unsure>> /\ pc[r] # "createContext" /\ pc'[r] # "done"
    BY <1>5 DEF CreateTarget, Attach, CommandDone, TabDone, SwitchTab, DownloadTab, Returns,
                AfterError, Goto, TypeOK
  <2>2. \A a \in Runs \ {r} : pc'[a] = pc[a]
    BY <1>5 DEF CreateTarget, Attach, CommandDone, TabDone, SwitchTab, DownloadTab, Returns,
                Goto, TypeOK
  <2>3. ~Awaited(r)
    BY <2>1 DEF Awaited
  <2>. QED BY <1>1, <2>1, <2>2, <2>3, NotInChrome, AccountedForget
<1>. QED BY <1>3, <1>4, <1>5 DEF RunReturns

-----------------------------------------------------------------------------
(* Chrome *)

\* A context that Chrome makes is one that a run waits for, and a disposal that
\* Chrome reports done has removed it.
LEMMA AccountedExecute ==
    ASSUME TypeOK, AwaitsOwn, Accounted, Execute
    PROVE  Accounted'
<1>1. PICK q \in wire, ok \in BOOLEAN :
          /\ IF ok THEN CarriesOut(q) ELSE MayRefuse(q) /\ UNCHANGED chrome_vars
          /\ wire' = wire \ {q}
          /\ inbox' = IF call[q.by] = q /\ q.by \notin lost
                        THEN inbox \cup {[call |-> q, ok |-> ok, conn |-> conn]}
                        ELSE inbox
  BY DEF Execute
<1>2. UNCHANGED <<pc, call, rcCtx, unsure>>
  BY DEF Execute, run_vars
<1>3. q \in Command
  BY DEF TypeOK
<1>4. \A m \in inbox' : m \in inbox \/ (m.call = q /\ m.ok = ok /\ call[q.by] = q)
  BY <1>1
<1>5. /\ \A a \in contexts' \ contexts : ok /\ q = Creation(a)
      /\ \A a \in contexts' : q = Disposal(a) => ~ok
  <2>1. CASE q.op \in {"createContext", "disposeContext"}
    <3>1. q = ContextCmd(q.by, q.op) /\ q.ctx = q.by
      BY <2>1 DEF AwaitsOwn, ContextCmd
    <3>. QED BY <1>1, <2>1, <3>1 DEF CarriesOut, chrome_vars, Creation, Disposal, ContextCmd
  <2>2. CASE q.op \notin {"createContext", "disposeContext"}
    <3>1. contexts' = contexts
      BY <1>1, <2>2 DEF CarriesOut, chrome_vars
    <3>. QED BY <2>2, <3>1 DEF Disposal, ContextCmd
  <2>. QED BY <2>1, <2>2
<1> SUFFICES ASSUME NEW a \in Runs \ unsure
             PROVE  /\ Creation(a) \in wire' =>
                          /\ Awaited(a) /\ a \notin contexts'
                          /\ \A m \in inbox' : m.call.by # a
                    /\ a \in contexts' =>
                          \/ /\ Awaited(a)
                             /\ \A m \in inbox' : m.call.by = a => m.ok
                          \/ /\ rcCtx[a] = a /\ pc[a] # "done"
                             /\ \A m \in inbox' : m.call = Disposal(a) => ~m.ok
  BY <1>2 DEF Accounted, Awaited, Creation, Disposal
<1>6. Awaited(a) /\ q.by = a /\ call[q.by] = q => q = Creation(a)
  BY DEF Awaited, Creation
<1>7. Creation(a) \in wire => /\ Awaited(a) /\ a \notin contexts
                               /\ \A m \in inbox : m.call.by # a
  BY DEF Accounted, Creation
<1>8. ASSUME Creation(a) \in wire'
      PROVE  /\ Awaited(a) /\ a \notin contexts'
             /\ \A m \in inbox' : m.call.by # a
  <2>1. Creation(a) \in wire /\ Creation(a) # q
    BY <1>1, <1>8
  <2>. QED BY <1>4, <1>5, <1>6, <1>7, <2>1
<1>9. ASSUME a \in contexts' \ contexts
      PROVE  Awaited(a) /\ \A m \in inbox' : m.call.by = a => m.ok
  BY <1>4, <1>5, <1>7, <1>9
<1>10. ASSUME a \in contexts, a \in contexts'
       PROVE  \/ /\ Awaited(a)
                 /\ \A m \in inbox' : m.call.by = a => m.ok
              \/ /\ rcCtx[a] = a /\ pc[a] # "done"
                 /\ \A m \in inbox' : m.call = Disposal(a) => ~m.ok
  <2>1. CASE Awaited(a) /\ \A m \in inbox : m.call.by = a => m.ok
    BY <1>4, <1>6, <1>7, <1>10, <2>1
  <2>2. CASE /\ rcCtx[a] = a /\ pc[a] # "done"
             /\ \A m \in inbox : m.call = Disposal(a) => ~m.ok
    BY <1>4, <1>5, <1>10, <2>2
  <2>. QED BY <1>10, <2>1, <2>2 DEF Accounted, Disposal
<1>. QED BY <1>8, <1>9, <1>10

LEMMA AccountedStep ==
    TypeOK /\ Ownership /\ AwaitsOwn /\ Accounted /\ [Next]_vars => Accounted'
<1> SUFFICES ASSUME TypeOK, Ownership, AwaitsOwn, Accounted, [Next]_vars PROVE Accounted'
  OBVIOUS
<1>1. ASSUME NEW r \in Runs, Start(r) \/ Finish(r) \/ NextCommand(r) \/ NextTabStep(r)
      PROVE  Accounted'
  <2>1. UNCHANGED <<contexts, call, rcCtx, unsure, wire, inbox>>
    BY <1>1 DEF Start, Finish, NextCommand, NextTabStep, chrome_vars, link_vars
  <2>2. pc[r] \in {"idle", "steps"} /\ pc'[r] # "done" /\ \A a \in Runs \ {r} : pc'[a] = pc[a]
    BY <1>1 DEF Start, Finish, NextCommand, NextTabStep, Goto, TypeOK
  <2>. QED BY <2>1, <2>2, AccountedFrame DEF Awaited
<1>2. ASSUME \/ \E r \in Runs : Cancel(r)
             \/ \E u \in Users : UserCommand(u)
             \/ Break \/ UNCHANGED vars
      PROVE  Accounted'
  <2>1. UNCHANGED <<contexts, call, rcCtx, unsure, pc>> /\ wire' \subseteq wire /\ inbox' \subseteq inbox
    BY <1>2 DEF Cancel, UserCommand, CarriesOut, SessionCmd, Break, vars, chrome_vars,
                link_vars, run_vars
  <2>. QED BY <2>1, AccountedFrame
<1>. QED BY <1>1, <1>2, AccountedSend, AccountedReturns, AccountedExecute DEF Next

-----------------------------------------------------------------------------
(* The invariant *)

LEMMA DisposalInit == Init => AwaitsOwn /\ Accounted
BY DEF Init, AwaitsOwn, Accounted

\* IInv, the strengthening that the run checks on its small instance, holds for
\* every number of runs, users, tabs and connections.
THEOREM ContextsInvariant == Spec => []IInv
<1>1. Init => TypeOK /\ Ownership /\ AwaitsOwn /\ Accounted
  BY TypeInit, OwnInit, DisposalInit
<1>2. TypeOK /\ Ownership /\ AwaitsOwn /\ Accounted /\ [Next]_vars
          => (TypeOK /\ Ownership /\ AwaitsOwn /\ Accounted)'
  BY TypeStep, OwnStep, AwaitsStep, AccountedStep
<1>3. TypeOK /\ Ownership /\ AwaitsOwn /\ Accounted => IInv
  BY DEF IInv, Ownership
<1>. QED BY <1>1, <1>2, <1>3, PTL DEF Spec

\* A run that is over, however it ended, has left no browser context in Chrome,
\* unless its creation or disposal was never answered (newRunContext,
\* disposeRunContext).
THEOREM RunsLeaveNothing == Spec => []Disposed
<1>1. IInv => Disposed
  BY DEF IInv, TypeOK, Accounted, Awaited, Disposed
<1>. QED BY <1>1, ContextsInvariant, PTL
=============================================================================
