--------------------------- MODULE NavigationProps ---------------------------
(* What a navigation promises.                                              *)
EXTENDS Navigation

\* The load event of navigation n is on its way.
LoadComing(n) == \E i \in DOMAIN inbox : inbox[i].kind = "load" /\ inbox[i].nav = n

\* A fast load event is not missed (headlessbrowser.go:461), even if it comes before
\* the answer to Page.navigate: once it was read, the wait for it ends.
LoadNotMissed ==
    mode # "commit" /\ pc \in {"navigate", "load"} /\ cur \in fired
        => loadedBy # 0 \/ LoadComing(cur)

\* No step leaves a handler behind, on whichever path it returns (:478, :484), and
\* the load handler is there from before the navigation until the step returns.
HandlersGone ==
    /\ pc \in {"idle", "enable"} => reg = {}
    /\ pc \notin {"idle", "enable"} /\ mode # "commit" => "load" \in reg
    /\ pc \in {"net", "track", "quiet"} => mode = "networkidle"
    /\ pc = "load" => mode # "commit"

\* The navigations that Chrome knows of.
Started == IF pc \in {"enable", "net", "track"} THEN cur - 1 ELSE cur

\* Chrome knows of no navigation that has not been asked for, and one that has not
\* committed has not been shown.
Known == 1..Started \cup Others

ChromeKnows ==
    /\ pc # "idle" => cur > 0 /\ mode # "none"
    /\ doc \in Known \cup {0} /\ fired \subseteq Known
    /\ target <= Started /\ (target # 0 => target \notin fired \cup {doc})

\* A request that starts has an id.
SentHaveIds == \A i \in DOMAIN inbox : inbox[i].kind = "sent" => inbox[i].id # 0

\* One answer at most is on its way, to the step that waits for it.
AnswerComing == \E i \in DOMAIN inbox : inbox[i].kind = "answer"

AnswersApart == \A i \in DOMAIN inbox, j \in DOMAIN inbox :
    inbox[i].kind = "answer" /\ inbox[j].kind = "answer" => i = j

OneAnswer ==
    /\ AnswersApart
    /\ AnswerComing => pc \in Waits /\ (pc = "navigate" => target # cur)

\* The load event of a page comes once,
LoadsApart == \A i \in DOMAIN inbox : inbox[i].kind = "load" /\ inbox[i].nav \in Pages =>
    /\ inbox[i].nav \in fired
    /\ \A j \in DOMAIN inbox :
         inbox[j].kind = "load" /\ inbox[j].nav = inbox[i].nav => i = j

\* and a navigation that found all earlier pages loaded meets no other, as long as the
\* page is not replaced.
NoOther ==
    /\ pc = "enable" => loadedBy = 0
    /\ alone => /\ target \in {0, cur} /\ doc \in fired \cup {0, cur}
                /\ \A n \in Pages : LoadComing(n) => n = cur

LoadsOnce == LoadsApart /\ NoOther

\* The tracker counts no fewer requests than the page has in flight, unless the end
\* of a request of before was counted (:541-570).
Counts ==
    pc # "idle" /\ mode = "networkidle" /\ "left" \notin odd
        => Cardinality(seen) <= inflight

\* Types, what becomes of the handlers, what is on its way, and the count.
Inv ==
    /\ TypeOK /\ LoadNotMissed /\ HandlersGone
    /\ ChromeKnows /\ SentHaveIds /\ OneAnswer /\ LoadsOnce /\ Counts

\* Handlers know a load event by its session alone.  It is still that of the page
\* navigated to that ends the wait, if all earlier pages had loaded when the handler
\* was registered and no other comes in between; and then nothing is left to come,
\* so that the next navigation finds them loaded as well, unless a reload, a click, a
\* script, a tab or the page itself shows something that nobody waits for (:471-478).
LoadIsOwn == alone /\ loadedBy # 0 => loadedBy = cur /\ cur \in fired /\ Settled

\* Both waits end without a time-out, as long as the page loads and its requests end:
\* no event they depend on is lost, unless a request was redirected, or started
\* while the handlers were being registered (:472, :580).
SignalsArrive ==
    /\ pc = "load" ~> pc # "load"
    /\ pc = "quiet" ~> pc # "quiet" \/ odd \cap {"redirect", "missed"} # {}
=============================================================================
