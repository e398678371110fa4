------------------------------ MODULE Navigation ------------------------------
(***************************************************************************)
(* internal/server/headlessbrowser/headlessbrowser.go: doNavigate with     *)
(* waitForSignal and networkIdleTracker.  The steps of one session, one    *)
(* after the other, meet the events that the client's read loop takes in   *)
(* the order Chrome sent them, of this navigation, of what earlier ones    *)
(* left behind, of pages that came in between, and of other sessions.      *)
(* Other steps are there by what they show: after a reload, a click, a key *)
(* or a script, on a page that goes elsewhere by itself, and in a tab that *)
(* is opened or switched to, the session has another document, which loads *)
(* as any does while nobody waits for it.                                  *)
(*                                                                         *)
(* A command is carried out when it is sent, and an answer that is no      *)
(* longer waited for is forgotten (see Recording).  Time is what may pass: *)
(* the 500 ms of quiet may be over at any time, and so may a time-out.     *)
(* The URL and the emulation of focus have no part in this.                *)
(***************************************************************************)
EXTENDS Integers, Sequences, SequencesExt, FiniteSets

CONSTANTS
    Modes,      \* the values of wait_until that occur
    MaxNav,     \* bound: navigations
    MaxOther,   \* bound: pages that something else shows
    MaxReq,     \* bound: requests of all pages
    MaxInbox    \* bound: events on their way when another is sent

ASSUME NavigationAssumption ==
    /\ Modes \subseteq {"commit", "load", "networkidle"}
    /\ MaxNav \in Nat /\ MaxOther \in Nat /\ MaxReq \in Nat /\ MaxInbox \in Nat

VARIABLES
    cur,        \* the navigation there is or was last
    mode,       \* its wait_until
    pc,         \* where it is
    reg,        \* the events it has handlers for
    loadedBy,   \* which page's load event has closed loadCh, 0 if it is open
    inflight,   \* the tracker's counter
    rested,     \* 500 ms have passed since lastZero
    inbox,      \* events and answers on their way to the read loop
    netOn,      \* Chrome: Network.enable was called
    target,     \* Chrome: the navigation that has not committed, 0 if there is none
    doc,        \* Chrome: the page that is shown, 0 at first
    reqs,       \* Chrome: the requests in flight, with the page they are of
    made,       \* requests made
    fired,      \* Chrome: pages whose load event was sent
    seen,       \* history: requests the tracker has seen start that have not ended
    odd,        \* history: what has disturbed the counter
    alone       \* history: when the handler for the load event was registered, all
                \* earlier pages had loaded, and no other has come since

step_vars   == <<cur, mode>>
chrome_vars == <<netOn, target, doc, reqs, made, fired>>
count_vars  == <<loadedBy, inflight, rested, seen, odd>>
vars == <<step_vars, pc, reg, count_vars, inbox, chrome_vars, alone>>

-----------------------------------------------------------------------------
Navs     == 1..MaxNav
Others   == MaxNav + 1..MaxNav + MaxOther      \* the pages that something else shows
Pages    == Navs \cup Others
Elsewhere == MaxNav + MaxOther + 1             \* the pages of other sessions
Kinds    == {"load", "sent", "finished", "failed"}
Waits    == {"enable", "net", "navigate"}      \* for an answer
Request  == [id : 1..MaxReq, nav : Pages]
Event    == [kind : Kinds, nav : Pages \cup {Elsewhere}, id : 0..MaxReq]
Answer   == [kind : {"answer"}, ok : BOOLEAN]

TypeOK ==
    /\ cur \in 0..MaxNav /\ mode \in Modes \cup {"none"}
    /\ pc \in Waits \cup {"idle", "track", "load", "quiet"}
    /\ reg \subseteq Kinds
    /\ loadedBy \in Pages \cup {0, Elsewhere} /\ inflight \in Nat /\ rested \in BOOLEAN
    /\ inbox \in Seq(Event \cup Answer)
    /\ netOn \in BOOLEAN /\ target \in 0..MaxNav /\ doc \in Pages \cup {0}
    /\ reqs \subseteq Request /\ made \in 0..MaxReq /\ fired \subseteq Pages
    /\ seen \subseteq 1..MaxReq /\ odd \subseteq {"left", "redirect", "missed"}
    /\ alone \in BOOLEAN

Init ==
    /\ cur = 0 /\ mode = "none" /\ pc = "idle" /\ reg = {}
    /\ loadedBy = 0 /\ inflight = 0 /\ rested = FALSE
    /\ inbox = <<>>
    /\ netOn = FALSE /\ target = 0 /\ doc = 0 /\ reqs = {} /\ made = 0 /\ fired = {}
    /\ seen = {} /\ odd = {} /\ alone = FALSE

-----------------------------------------------------------------------------
(* Chrome.  Network events are sent once the domain is enabled.             *)

Tells(kind, r, q) ==
    IF netOn THEN Append(q, [kind |-> kind, nav |-> r.nav, id |-> r.id]) ELSE q

\* A request of page n starts.
Ask(n, before) ==
    LET r == [id |-> made + 1, nav |-> n] IN
    /\ made < MaxReq /\ made' = made + 1
    /\ reqs' = reqs \cup {r} /\ inbox' = Tells("sent", r, before)

\* Page.navigate takes the place of one that has not committed, and the first
\* request of the page starts, unless it has none, as about:blank.
StartNavigation(n, before) ==
    /\ target' = n
    /\ Ask(n, before) \/ (inbox' = before /\ UNCHANGED <<reqs, made>>)
    /\ UNCHANGED <<netOn, doc, fired>>

Room == Cardinality({i \in DOMAIN inbox : inbox[i].kind # "answer"}) < MaxInbox

StepsStay == UNCHANGED <<step_vars, pc, reg, count_vars>>

\* No load event is to come: nothing is on its way to be shown, and the page that is
\* shown has loaded and the read loop knows it.
Settled ==
    /\ target = 0 /\ doc \in fired \cup {0}
    /\ \A i \in DOMAIN inbox : inbox[i].kind = "load" => inbox[i].nav = Elsewhere

\* The answer comes with the commit; or there is an error, in errorText or as such,
\* and a page that says so or none.
Commit ==
    /\ target # 0
    /\ \E ok \in BOOLEAN :
         /\ inbox' = IF target = cur /\ pc = "navigate"
                     THEN Append(inbox, [kind |-> "answer", ok |-> ok]) ELSE inbox
         /\ doc' \in IF ok THEN {target} ELSE {doc, target}
    /\ target' = 0
    /\ UNCHANGED <<netOn, reqs, made, fired, alone>> /\ StepsStay

\* Another step shows a page, or the page that is shown goes elsewhere, which nobody
\* waits for and no step has to precede.  It loads, unless it has done so before, in
\* the tab that a step has switched to.  (What it asks for is in AskMore.)
Replace ==
    /\ \E p \in Others \ (fired \cup {doc}) :
         /\ doc' = p
         /\ fired' = fired \/ (pc = "idle" /\ fired' = fired \cup {p})
    /\ alone' = FALSE
    /\ UNCHANGED <<netOn, target, reqs, made, inbox>> /\ StepsStay

\* The page that is shown asks for something.
AskMore ==
    /\ Room /\ doc # 0 /\ Ask(doc, inbox)
    /\ UNCHANGED <<netOn, target, doc, fired, alone>> /\ StepsStay

\* A redirection starts a request again, under the same id.  (Bound: once in all.)
Redirect(r) ==
    /\ Room /\ r \in reqs /\ r.nav = target /\ "redirect" \notin odd
    /\ \A i \in DOMAIN inbox : inbox[i].kind # "sent"
    /\ inbox' = Tells("sent", r, inbox)
    /\ UNCHANGED <<chrome_vars, alone>> /\ StepsStay

\* A request ends, in time or because its page is gone.
EndRequest(r) ==
    /\ Room /\ r \in reqs /\ reqs' = reqs \ {r}
    /\ \E kind \in {"finished", "failed"} : inbox' = Tells(kind, r, inbox)
    /\ UNCHANGED <<netOn, target, doc, made, fired, alone>> /\ StepsStay

\* The page that is shown has loaded, whatever else it has asked for.
Load ==
    /\ Room /\ doc # 0 /\ doc \notin fired
    /\ fired' = fired \cup {doc}
    /\ inbox' = Append(inbox, [kind |-> "load", nav |-> doc, id |-> 0])
    /\ UNCHANGED <<netOn, target, doc, reqs, made, alone>> /\ StepsStay

\* An event of another session.  (Bound: when nothing else is on its way.)
Foreign ==
    /\ inbox = <<>>
    /\ \E kind \in {"load", "finished"} :
         inbox' = Append(inbox, [kind |-> kind, nav |-> Elsewhere, id |-> 0])
    /\ UNCHANGED <<chrome_vars, alone>> /\ StepsStay

-----------------------------------------------------------------------------
(* The read loop and the handlers.                                          *)

\* requestWillBeSent
Counted == inflight + 1

\* loadingFinished and loadingFailed
Ends == {"finished", "failed"}

\* Seeded bug: whose session an event is of is not looked at.
HandledOfAny(e) == e.kind \in reg

\* Handlers look at events of their own session.
Handled(e) == e.kind \in reg /\ e.nav # Elsewhere

\* What has disturbed the counter: the end of a request that it has not counted, one
\* that it has counted twice, and one whose end may come before the handler for it.
Disturbance(e) ==
    CASE e.kind \in Ends /\ e.id \notin seen -> {"left"}
      [] e.kind = "sent" /\ e.id \in seen -> {"redirect"}
      [] e.kind = "sent" /\ ~Ends \subseteq reg -> {"missed"}
      [] OTHER -> {}

\* The read loop takes the first event; an answer before it is with its caller.
Read(i) ==
    LET e == inbox[i]
        ends == Handled(e) /\ e.kind \in Ends
    IN
    /\ e.kind # "answer" /\ \A j \in 1..(i - 1) : inbox[j].kind = "answer"
    /\ inbox' = RemoveAt(inbox, i)
    /\ loadedBy' = IF Handled(e) /\ e.kind = "load" /\ loadedBy = 0 THEN e.nav ELSE loadedBy
    /\ inflight' = CASE Handled(e) /\ e.kind = "sent" -> Counted
                     [] ends /\ inflight > 0 -> inflight - 1
                     [] OTHER -> inflight
    /\ rested' = (rested /\ ~(ends /\ inflight' = 0))
    /\ seen' = CASE Handled(e) /\ e.kind = "sent" -> seen \cup {e.id}
                 [] e.kind \in {"finished", "failed"} -> seen \ {e.id}
                 [] OTHER -> seen
    /\ odd' = odd \cup IF Handled(e) /\ mode = "networkidle" THEN Disturbance(e) ELSE {}
    /\ UNCHANGED <<step_vars, pc, reg, chrome_vars, alone>>

ReadEvent == \E i \in DOMAIN inbox : Read(i)

-----------------------------------------------------------------------------
(* doNavigate.                                                              *)

Answered(ok) ==
    /\ inbox # <<>> /\ Head(inbox) = [kind |-> "answer", ok |-> ok]
    /\ pc \in Waits

\* The next navigation begins with Page.enable.
Begin ==
    /\ pc = "idle" /\ cur < MaxNav
    /\ cur' = cur + 1 /\ mode' \in Modes /\ pc' = "enable"
    /\ \E ok \in BOOLEAN : inbox' = Append(inbox, [kind |-> "answer", ok |-> ok])
    /\ loadedBy' = 0 /\ inflight' = 0 /\ rested' = FALSE /\ seen' = {} /\ odd' = {}
    /\ alone' = FALSE
    /\ UNCHANGED <<reg, chrome_vars>>

\* Seeded bug: networkidle does without the load handler.
ArmedForLoad == IF mode = "load" THEN {"load"} ELSE {}

\* The load handler comes before the navigation, and so do the others.
Armed == IF mode = "commit" THEN {} ELSE {"load"}

Enabled ==
    /\ pc = "enable" /\ Answered(TRUE)
    /\ reg' = Armed /\ alone' = Settled
    /\ IF mode = "networkidle"
       THEN /\ pc' = "net" /\ netOn' = TRUE
            /\ \E ok \in BOOLEAN : inbox' = Append(Tail(inbox), [kind |-> "answer", ok |-> ok])
            /\ UNCHANGED <<target, doc, reqs, made, fired>>
       ELSE pc' = "navigate" /\ StartNavigation(cur, Tail(inbox))
    /\ UNCHANGED <<step_vars, count_vars>>

NetEnabled ==
    /\ pc = "net" /\ Answered(TRUE)
    /\ pc' = "track" /\ inbox' = Tail(inbox)
    /\ UNCHANGED <<step_vars, reg, count_vars, chrome_vars, alone>>

\* newNetworkIdleTracker: one handler after the other, then Page.navigate.
Track ==
    /\ pc = "track"
    /\ reg' = reg \cup {IF "sent" \notin reg THEN "sent"
                        ELSE IF "finished" \notin reg THEN "finished" ELSE "failed"}
    /\ IF "finished" \in reg
       THEN pc' = "navigate" /\ StartNavigation(cur, inbox)
       ELSE UNCHANGED <<pc, inbox, chrome_vars>>
    /\ UNCHANGED <<step_vars, count_vars, alone>>

OnlyLoad == reg \ {"load"}      \* Seeded bug: the tracker is not stopped

\* unsub and idle.stop, on every path.
Unregistered == {}

Returns ==
    /\ pc' = "idle" /\ reg' = Unregistered
    /\ UNCHANGED <<step_vars, count_vars, chrome_vars, alone>>

\* Page.navigate has committed.
Navigated ==
    /\ pc = "navigate" /\ Answered(TRUE) /\ inbox' = Tail(inbox)
    /\ IF mode = "commit" THEN Returns
       ELSE pc' = "load" /\ UNCHANGED <<step_vars, reg, count_vars, chrome_vars, alone>>

\* Nobody waits any more for the answer that may be on its way.
Forgets ==
    \/ inbox' = inbox /\ \A i \in DOMAIN inbox : inbox[i].kind # "answer"
    \/ \E i \in DOMAIN inbox : inbox[i].kind = "answer" /\ inbox' = RemoveAt(inbox, i)

\* A command was refused, or the request has ended.
Fails ==
    /\ pc \in Waits
    /\ (Answered(FALSE) /\ inbox' = Tail(inbox)) \/ Forgets
    /\ Returns

\* waitForSignal has its signal, or its time-out or the end of the request.
Loaded  == pc = "load" /\ loadedBy # 0
GivesUp == pc = "load"

AfterLoad ==
    /\ Loaded \/ GivesUp
    /\ IF mode = "load" THEN Returns
       ELSE pc' = "quiet" /\ UNCHANGED <<step_vars, reg, count_vars, chrome_vars, alone>>
    /\ UNCHANGED inbox

\* A tick of idle.wait after half a second of quiet,
IdleEnds ==
    /\ pc = "quiet" /\ inflight = 0 /\ rested
    /\ Returns /\ UNCHANGED inbox

\* or after the time-out, or the end of the request.
QuietExpires == pc = "quiet" /\ Returns /\ UNCHANGED inbox

\* Half a second passes after lastZero.
Rest ==
    /\ mode = "networkidle" /\ pc \notin {"idle", "enable", "net"} /\ ~rested /\ rested' = TRUE
    /\ UNCHANGED <<step_vars, pc, reg, loadedBy, inflight, seen, odd, inbox, chrome_vars, alone>>

-----------------------------------------------------------------------------
NavigateStep == Enabled \/ NetEnabled \/ Track \/ Navigated \/ (Loaded /\ AfterLoad) \/ IdleEnds
ChromeStep == Commit \/ Load \/ \E r \in reqs : EndRequest(r)

Next ==
    \/ ReadEvent \/ NavigateStep \/ Rest \/ ChromeStep
    \/ Begin \/ Fails \/ AfterLoad \/ QuietExpires
    \/ AskMore \/ Replace \/ Foreign \/ \E r \in reqs : Redirect(r)

Spec == Init /\ [][Next]_vars

\* The read loop and the step go on, time passes, and Chrome commits, loads and ends
\* requests, strongly fair as there may be no Room now and then.  No time-out has to
\* come, and no page has to be replaced.  (The read loop goes on as long as no peer of
\* a stream holds it up, see EventStream.)
FairSpec ==
    /\ Spec
    /\ WF_vars(ReadEvent) /\ WF_vars(NavigateStep) /\ WF_vars(Rest)
    /\ WF_vars(Commit) /\ SF_vars(Load) /\ SF_vars(\E r \in reqs : EndRequest(r))
=============================================================================
