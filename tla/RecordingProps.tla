--------------------------- MODULE RecordingProps ---------------------------
(* What a recording promises.                                               *)
EXTENDS Recording

Active(r)     == pc[r] \notin {"idle", "done"}
Registered(r) == pc[r] \in {"start", "script", "record", "poll", "stop"}

\* t ends with s.
Ends(t, s) == Len(s) <= Len(t) /\ \A i \in DOMAIN s : s[i] = t[Len(t) - Len(s) + i]

\* Captured frames are in Chrome's order, none twice, none of another session, and
\* each is acknowledged once, in that order: the last of them are in the hand of
\* r's pump and in the channel (record.go:102-134).
AckedOnce ==
    \A r \in Recordings :
        /\ \A i \in DOMAIN frames[r] :
             /\ frames[r][i].session = sid[r]
             /\ \A j \in DOMAIN frames[r] : i < j => frames[r][i].n < frames[r][j].n
        /\ Ends(frames[r], pump[r] \o ackCh[r])

\* The handler is registered from the start of a step until its stop, once, and
\* there is nothing to acknowledge before and after (record.go:114, 149, 172-176).
NothingRuns ==
    /\ IsInjective(handlers) /\ Range(handlers) = {r \in Recordings : Registered(r)}
    /\ \A r \in Recordings :
          ~Active(r) => frames[r] = <<>> /\ pump[r] = <<>> /\ ackCh[r] = <<>>

FramesIn(q)  == {m \in Range(q) : m.is = "frame"}
AnswersIn(q) == {m \in Range(q) : m.is = "answer"}
Frames       == FramesIn(inbox)
Answers      == AnswersIn(inbox)

\* Frames come in order.
InOrder(q) ==
    \A i, j \in DOMAIN q : i < j /\ q[i].is = "frame" /\ q[j].is = "frame" => q[i].n < q[j].n

\* There is one answer at most to every recording.
OneAnswerEach(q) ==
    \A i, j \in DOMAIN q : q[i].is = "answer" /\ q[j].is = "answer" /\ q[i].by = q[j].by => i = j

\* Says that a's recording has no screencast: it was refused, or is stopped.
Ended(a) == (a.op = "start" /\ ~a.ok) \/ (a.op = "stop" /\ a.ok)

\* The frames of a screencast come before the answer to its stop.
EndsLast(q) ==
    \A i, j \in DOMAIN q :
        q[i].is = "frame" /\ q[j].is = "answer" /\ q[j].by = q[i].cast /\ Ended(q[j])
          => q[j].op = "stop" /\ i < j

\* Frames go through the read loop in order, one by one; a handler is called
\* once for a frame, and only of a recording that has begun.
InSequence ==
    /\ IsInjective(todo) /\ \A r \in Range(todo) : pc[r] # "idle"
    /\ InOrder(inbox)
    /\ \A f \in Frames : f.n <= shown /\ (todo # <<>> => frame.n < f.n)
    /\ todo # <<>> => frame.n <= shown
    /\ \A r \in Recordings : \A i \in DOMAIN frames[r] :
          /\ frames[r][i].n <= shown
          /\ \A f \in Frames : frames[r][i].n < f.n
          /\ r \in Range(todo) => frames[r][i].n < frame.n

\* An answer is the one that its recording waits for.
Awaited == OneAnswerEach(inbox) /\ \A a \in Answers : a.op = pc[a.by]

\* A screencast has a start that was not refused; when its recording does not run
\* any more, the start was given up, or the stop was refused.
Casting ==
    /\ \A s \in Sessions : cast[s] # None =>
          LET r == cast[s] IN
          /\ sid[r] = s /\ credit[s] <= InFlight
          /\ \/ pc[r] \in {"start", "script", "record", "poll"}
             \/ r \in aborted \cap unsure
             \/ r \in refused /\ (pc[r] = "stop" \/ r \in unsure)
    /\ \A a \in Answers : Ended(a) => cast[sid[a.by]] # a.by

\* When the answer to its stop is read, all frames of a screencast are; frames may
\* come later only if its end was given up.
Underway ==
    /\ \A f \in Frames :
          /\ sid[f.cast] = f.session /\ pc[f.cast] # "idle"
          /\ Registered(f.cast) \/ f.cast \in unsure
    /\ EndsLast(inbox)
    /\ todo # <<>> => sid[frame.cast] = frame.session /\ pc[frame.cast] # "idle"

\* Frames may have come of another recording of r's session: one at the same time,
\* or one before that was given up.
Shares(r) == r \in crowd \/ \E q \in unsure \ {r} : sid[q] = sid[r]

\* What has happened to a recording has happened since it began.
Recorded ==
    /\ \A r \in aborted \cup unsure \cup crowd \cup refused : pc[r] # "idle"
    /\ \A r \in Recordings : pc[r] = "close" => r \in aborted
    /\ \A r, q \in Recordings :
          Active(r) /\ Active(q) /\ sid[r] = sid[q] /\ r # q => r \in crowd

\* r may be sent frames of p's screencast.
Gets(r, p) == p = r \/ (Shares(r) /\ (Shares(p) \/ pc[p] = "done"))

\* A recording gets frames of its own screencast, if it shares its session with none.
GetsOwn ==
    \A r \in Recordings :
        /\ r \in Range(todo) /\ Takes(r, frame) => Gets(r, frame.cast)
        /\ \A i \in DOMAIN ackCh[r] : Gets(r, ackCh[r][i].cast)

\* The frames of r's screencast that r has not acknowledged; Chrome counts them all
\* if r is the only one to acknowledge them.
Unacked(r) ==
    {f.n : f \in {g \in Frames : g.cast = r}}
      \cup (IF r \in Range(todo) /\ Takes(r, frame) THEN {frame.n} ELSE {})
      \cup {ackCh[r][i].n : i \in DOMAIN ackCh[r]}

Counted ==
    \A r \in Recordings : Active(r) /\ ~Shares(r) =>
        /\ Cardinality(Unacked(r)) <= InFlight
        /\ cast[sid[r]] = r => Cardinality(Unacked(r)) <= credit[sid[r]]

\* Types, the acknowledgements, the ends of steps, and what is on its way.
Inv ==
    /\ TypeOK /\ AckedOnce /\ NothingRuns /\ InSequence /\ Awaited /\ Casting /\ Underway
    /\ Recorded /\ GetsOwn /\ Counted

\* The frame handler never sends to a closed channel (record.go:172-175), which would
\* end the process, and never waits for room in it, which would hold up the read loop
\* (record.go:91-96), as long as the session is r's alone; a recording whose start
\* failed is excepted from the first, its channel is closed at once (record.go:149).
SafeEnd ==
    /\ panicked # None => panicked \in aborted \/ Shares(panicked)
    /\ Blocked => Shares(Head(todo))

\* Chrome does not go on sending frames for a recording that has stopped, unless its
\* start was given up or Chrome refused the stop (record.go:167).
CastStopped ==
    \A s \in Sessions : cast[s] # None =>
        LET r == cast[s] IN
        pc[r] \in {"start", "script", "record", "poll"} \/ r \in aborted \cup refused

\* A recording whose request ends comes to its end, whether or not Chrome answers
\* and the connection lasts, and with it everything it waits for: the read loop,
\* the pump, the acknowledgements (record.go:167-176).
CancelledReturns == \A r \in Leavers : r \in cancelled ~> pc[r] = "done" \/ panicked # None

-----------------------------------------------------------------------------
(* What a comment says of recordings and the code does not do *)

\* headlessbrowser.proto:289 `Recording always stops by this bound even if
\* stop_condition never fires': the evaluations of the start script and of the
\* condition have no bound.
StopsByBound == \A r \in Recordings : pc[r] = "record" ~> pc[r] = "done" \/ panicked # None
=============================================================================
