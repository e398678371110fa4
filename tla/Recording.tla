------------------------------ MODULE Recording ------------------------------
(***************************************************************************)
(* internal/server/headlessbrowser/record.go: doRecord with the three      *)
(* parties it is made of, the frame handler on the client's read loop, the *)
(* pump that acknowledges frames, and the step itself, which starts and    *)
(* stops the screencast and closes the pump's channel.                     *)
(*                                                                         *)
(* That a handler appends its frame and hands it over is one step: nobody  *)
(* looks at the frames before the channel is closed.                       *)
(*                                                                         *)
(* Frames are numbered in the order Chrome sends them; a screencast is     *)
(* named by the recording that started it; frames and answers come in      *)
(* order, and there is one answer at most to what a recording waits for.   *)
(* Chrome may refuse a command and need not answer it; it carries it out   *)
(* when it is sent, only the answer takes time.  An answer that is no      *)
(* longer waited for has no effect, and is forgotten at once.  (A          *)
(* connection that breaks is no worse than a Chrome that refuses: the      *)
(* commands that wait fail, those that follow too, and no frame comes.)    *)
(*                                                                         *)
(* Page.enable and the delay before, and ffmpeg after it, have no part in  *)
(* this; Launcher has the directory that ffmpeg reads.                     *)
(***************************************************************************)
EXTENDS Integers, Sequences, SequencesExt, FiniteSets

CONSTANTS
    Recordings,  \* invocations of doRecord
    Leavers,     \* those whose request may be cancelled
    Polled,      \* those with a stop condition
    Scripted,    \* those with a start script
    Sessions,    \* browser sessions
    Targets,     \* what they may record: functions from recordings to sessions
    None,        \* nobody
    InFlight,    \* frames Chrome sends ahead of acknowledgements
    Cap,         \* bound: capacity of ackCh, instead of 1024
    MaxFrames    \* bound: frames

ASSUME RecordingAssumption ==
    /\ Leavers \subseteq Recordings /\ Polled \subseteq Recordings /\ Scripted \subseteq Recordings
    /\ Targets \subseteq [Recordings -> Sessions]
    /\ None \notin Recordings
    /\ InFlight \in Nat \ {0} /\ Cap \in Nat \ {0} /\ MaxFrames \in Nat

\* Chrome sends a frame or two ahead; ackCh has room for 1024.
ASSUME AheadAssumption == InFlight <= Cap

VARIABLES
    sid,        \* the session each recording records; fixed
    pc,         \* where each step is
    cancelled,  \* its request's context has ended
    aborted,    \* history: its screencast was not seen to start
    unsure,     \* history: its start or its stop was given up, or its stop refused
    crowd,      \* history: somebody else recorded its session at the same time
    handlers,   \* the registered frame handlers, in order
    todo,       \* the read loop: handlers it has yet to call,
    frame,      \* with this frame
    frames,     \* what each recording has captured
    ackCh,      \* its channel, with the frames to acknowledge
    pump,       \* its pump: the frame it is acknowledging, in a sequence
    inbox,      \* frames and answers on their way to the read loop
    cast,       \* Chrome: who started the screencast of each session, if there is one
    credit,     \* Chrome: its frames without acknowledgement
    shown,      \* frames sent
    refused,    \* history: recordings whose stop Chrome has refused
    panicked    \* whose channel was found closed: the process is gone

chrome_vars == <<cast, credit, shown, refused>>
loop_vars   == <<todo, frame>>
step_vars   == <<pc, cancelled, aborted, unsure, crowd, handlers>>
vars == <<sid, step_vars, loop_vars, frames, ackCh, pump, inbox, chrome_vars, panicked>>

-----------------------------------------------------------------------------
StepPc == {"idle", "start", "script", "record", "poll", "stop", "settle", "close",
           "drain", "done"}
Waits   == {"start", "script", "poll", "stop"}    \* for an answer

Frame   == [is : {"frame"}, n : 1..MaxFrames, cast : Recordings, session : Sessions]
Answer  == [is : {"answer"}, by : Recordings, op : Waits, ok : BOOLEAN]

TypeOK ==
    /\ sid \in [Recordings -> Sessions]
    /\ pc \in [Recordings -> StepPc]
    /\ cancelled \subseteq Leavers /\ aborted \subseteq Recordings
    /\ unsure \subseteq Recordings /\ crowd \subseteq Recordings
    /\ handlers \in Seq(Recordings)
    /\ todo \in Seq(Recordings) /\ IF todo = <<>> THEN frame = None ELSE frame \in Frame
    /\ frames \in [Recordings -> Seq(Frame)]
    /\ ackCh \in [Recordings -> Seq(Frame)] /\ \A r \in Recordings : Len(ackCh[r]) <= Cap
    /\ pump \in [Recordings -> Seq(Frame)] /\ \A r \in Recordings : Len(pump[r]) <= 1
    /\ inbox \in Seq(Frame \cup Answer)
    /\ cast \in [Sessions -> Recordings \cup {None}]
    /\ credit \in [Sessions -> Int]
    /\ shown \in 0..MaxFrames /\ refused \subseteq Recordings
    /\ panicked \in Recordings \cup {None}

Init ==
    /\ sid \in Targets
    /\ pc = [r \in Recordings |-> "idle"]
    /\ cancelled = {} /\ aborted = {} /\ unsure = {} /\ crowd = {}
    /\ handlers = <<>> /\ todo = <<>> /\ frame = None
    /\ frames = [r \in Recordings |-> <<>>] /\ ackCh = [r \in Recordings |-> <<>>]
    /\ pump = [r \in Recordings |-> <<>>]
    /\ inbox = <<>>
    /\ cast = [s \in Sessions |-> None] /\ credit = [s \in Sessions |-> 0]
    /\ shown = 0 /\ refused = {}
    /\ panicked = None

-----------------------------------------------------------------------------
(* The client's read loop and the frame handler.                            *)

Full(r) == Len(ackCh[r]) = Cap

Closed(r) == pc[r] \in {"drain", "done"}

TakesAll(r, f) == TRUE              \* Seeded bug: frames of every session

\* Whether r's handler takes f, or returns at once.
Takes(r, f) == f.session = sid[r]

\* A handler waits for room in its channel.
Blocked == LET r == Head(todo) IN todo # <<>> /\ Takes(r, frame) /\ Full(r) /\ ~Closed(r)

\* dispatchEvent: the handlers there are now are called for a frame.
ReadFrame ==
    /\ todo = <<>> /\ inbox # <<>> /\ Head(inbox).is = "frame"
    /\ todo' = handlers
    /\ frame' = IF handlers = <<>> THEN None ELSE Head(inbox)
    /\ inbox' = Tail(inbox)
    /\ UNCHANGED <<sid, step_vars, frames, ackCh, pump, chrome_vars, panicked>>

HandlerDone ==
    /\ todo' = Tail(todo)
    /\ frame' = IF todo' = <<>> THEN None ELSE frame

\* The frame is kept, and ackCh <- ev.SessionId.
CallHandler ==
    /\ todo # <<>> /\ ~Blocked
    /\ LET r == Head(todo) IN
       \/ /\ ~Takes(r, frame)
          /\ HandlerDone /\ UNCHANGED <<frames, ackCh, panicked>>
       \/ /\ Takes(r, frame) /\ Closed(r)
          /\ panicked' = r /\ UNCHANGED <<loop_vars, frames, ackCh>>
       \/ /\ Takes(r, frame) /\ ~Closed(r)
          /\ frames' = [frames EXCEPT ![r] = Append(@, frame)]
          /\ ackCh' = [ackCh EXCEPT ![r] = Append(@, frame)]
          /\ HandlerDone /\ UNCHANGED panicked
    /\ UNCHANGED <<sid, step_vars, pump, inbox, chrome_vars>>

LoopStep == ReadFrame \/ CallHandler

-----------------------------------------------------------------------------
(* Commands.                                                                *)

AnswerTo(r, op, ok) == [is |-> "answer", by |-> r, op |-> op, ok |-> ok]

\* The read loop is at the answer to what r waits for.
Answered(r, ok) == todo = <<>> /\ inbox # <<>> /\ Head(inbox) = AnswerTo(r, pc[r], ok)

\* What carrying out a command of r does to the screencasts.
Effect(r, op) ==
    LET s == sid[r] IN
    CASE op = "start" -> /\ cast' = [cast EXCEPT ![s] = r]
                         /\ credit' = [credit EXCEPT ![s] = 0]
      [] op = "stop"  -> cast' = [cast EXCEPT ![s] = None] /\ UNCHANGED credit
      [] op = "ack" /\ Head(ackCh[r]).cast = cast[s] ->
                         credit' = [credit EXCEPT ![s] = @ - 1] /\ UNCHANGED cast
      [] OTHER        -> UNCHANGED <<cast, credit>>

Carried(r, op) == Effect(r, op) /\ UNCHANGED <<shown, refused>>

\* A step of r sends its next command and waits for the answer, which comes after
\* `before', if it comes.
Sends(r, next, before) ==
    /\ pc' = [pc EXCEPT ![r] = next]
    /\ \/ /\ Carried(r, next)
          /\ inbox' \in {before, Append(before, AnswerTo(r, next, TRUE))}
       \/ /\ inbox' = Append(before, AnswerTo(r, next, FALSE))
          /\ refused' = IF next = "stop" THEN refused \cup {r} ELSE refused
          /\ UNCHANGED <<cast, credit, shown>>

\* What r waits for ends: with an answer, with an error, or for the end of its context.
Replied(r, ok) == Answered(r, ok) /\ inbox' = Tail(inbox)
Forgets(r) ==
    LET late == {i \in DOMAIN inbox : inbox[i].is = "answer" /\ inbox[i].by = r} IN
    inbox' = IF late = {} THEN inbox ELSE RemoveAt(inbox, CHOOSE i \in late : TRUE)
GivesUp(r) == r \in cancelled /\ Forgets(r)

-----------------------------------------------------------------------------
(* The pump.                                                                *)

\* Page.screencastFrameAck is sent for the next frame,
TakeAck(r) ==
    /\ pump[r] = <<>> /\ ackCh[r] # <<>>
    /\ pump' = [pump EXCEPT ![r] = <<Head(ackCh[r])>>]
    /\ ackCh' = [ackCh EXCEPT ![r] = Tail(@)]
    /\ Carried(r, "ack") \/ UNCHANGED chrome_vars
    /\ UNCHANGED <<sid, step_vars, loop_vars, frames, inbox, panicked>>

\* and is over with its answer or an error, which are not looked at, and after
\* three seconds in any case.
AckDone(r) ==
    /\ pump[r] # <<>>
    /\ pump' = [pump EXCEPT ![r] = <<>>]
    /\ UNCHANGED <<sid, step_vars, loop_vars, frames, ackCh, inbox, chrome_vars, panicked>>

PumpStep(r) == TakeAck(r) \/ AckDone(r)

-----------------------------------------------------------------------------
(* doRecord.                                                                *)

OthersStay == UNCHANGED <<sid, loop_vars, frames, ackCh, pump, panicked>>
ChromeStays == UNCHANGED chrome_vars

Others(r) == {q \in Recordings \ {r} : sid[q] = sid[r] /\ pc[q] \notin {"idle", "done"}}

\* The pump, the handler, then Page.startScreencast.
Begin(r) ==
    /\ pc[r] = "idle"
    /\ crowd' = IF Others(r) = {} THEN crowd ELSE crowd \cup {r} \cup Others(r)
    /\ handlers' = Append(handlers, r)
    /\ Sends(r, "start", inbox)
    /\ UNCHANGED <<cancelled, aborted, unsure>> /\ OthersStay

Unregistered(r) ==
    IF r \in Range(handlers)
    THEN RemoveAt(handlers, CHOOSE i \in DOMAIN handlers : handlers[i] = r)
    ELSE handlers

\* unsub and close(ackCh), with nothing between them.
StartFails(r) ==
    /\ pc[r] = "start"
    /\ \/ Replied(r, FALSE) /\ UNCHANGED unsure
       \/ GivesUp(r) /\ unsure' = unsure \cup {r}
    /\ handlers' = Unregistered(r)
    /\ pc' = [pc EXCEPT ![r] = "close"]
    /\ aborted' = aborted \cup {r}
    /\ UNCHANGED <<cancelled, crowd>> /\ OthersStay /\ ChromeStays

\* The start script is awaited by Chrome, under the request's context alone.
Started(r) ==
    /\ pc[r] = "start" /\ Answered(r, TRUE)
    /\ IF r \in Scripted THEN Sends(r, "script", Tail(inbox))
       ELSE pc' = [pc EXCEPT ![r] = "record"] /\ inbox' = Tail(inbox) /\ ChromeStays
    /\ UNCHANGED <<cancelled, aborted, unsure, crowd, handlers>> /\ OthersStay

\* Its failure is only logged.
ScriptDone(r) ==
    /\ pc[r] = "script" /\ ((\E ok \in BOOLEAN : Replied(r, ok)) \/ GivesUp(r))
    /\ pc' = [pc EXCEPT ![r] = "record"]
    /\ UNCHANGED <<cancelled, aborted, unsure, crowd, handlers>> /\ OthersStay /\ ChromeStays

\* recordWait: the stop condition is evaluated, under the request's context alone.
Poll(r) ==
    /\ pc[r] = "record" /\ r \in Polled
    /\ Sends(r, "poll", inbox)
    /\ UNCHANGED <<cancelled, aborted, unsure, crowd, handlers>> /\ OthersStay

\* It is false, or could not be evaluated.
NotYet(r) ==
    /\ pc[r] = "poll" /\ ((\E ok \in BOOLEAN : Replied(r, ok)) \/ GivesUp(r))
    /\ pc' = [pc EXCEPT ![r] = "record"]
    /\ UNCHANGED <<cancelled, aborted, unsure, crowd, handlers>> /\ OthersStay /\ ChromeStays

StopsInRequest(r, before) ==    \* Seeded bug: in the request's context
    IF r \in cancelled
    THEN pc' = [pc EXCEPT ![r] = "stop"] /\ inbox' = before /\ ChromeStays
    ELSE Sends(r, "stop", before)

\* Page.stopScreencast, in a context of its own.
Stops(r, before) == Sends(r, "stop", before)

\* The maximal duration, or the end of the request, at a select; a true condition.
Stop(r) ==
    /\ \/ pc[r] = "record" /\ Stops(r, inbox)
       \/ pc[r] = "poll" /\ Answered(r, TRUE) /\ Stops(r, Tail(inbox))
    /\ UNCHANGED <<cancelled, aborted, unsure, crowd, handlers>> /\ OthersStay

StopExpiresNot(r) == FALSE      \* Seeded bug: a detached context without a time-out

\* The five seconds are over.
StopExpires(r) == TRUE

\* unsub, however the stop ended.
StopDone(r) ==
    /\ pc[r] = "stop"
    /\ \/ Replied(r, TRUE) /\ UNCHANGED unsure
       \/ /\ Replied(r, FALSE) \/ (StopExpires(r) /\ Forgets(r))
          /\ unsure' = unsure \cup {r}
    /\ handlers' = Unregistered(r)
    /\ pc' = [pc EXCEPT ![r] = "settle"]
    /\ UNCHANGED <<cancelled, aborted, crowd>> /\ OthersStay /\ ChromeStays

SettledAlways(r) == TRUE                \* Seeded bug: the channel is closed at once

\* 120 ms are enough for the read loop to call r's handler, if it does not have to
\* wait for room.
Settled(r) == r \notin Range(todo) \/ Blocked

\* A send that waits for room panics when its channel is closed.
CloseAcks(r) ==
    /\ pc[r] = "close" \/ (pc[r] = "settle" /\ Settled(r))
    /\ pc' = [pc EXCEPT ![r] = "drain"]
    /\ UNCHANGED <<cancelled, aborted, unsure, crowd, handlers, inbox>> /\ OthersStay /\ ChromeStays

\* ackWG.Wait, then the frames are taken.
Finish(r) ==
    /\ pc[r] = "drain" /\ ackCh[r] = <<>> /\ pump[r] = <<>>
    /\ pc' = [pc EXCEPT ![r] = "done"]
    /\ frames' = [frames EXCEPT ![r] = <<>>]
    /\ UNCHANGED <<sid, cancelled, aborted, unsure, crowd, handlers, loop_vars, ackCh, pump, inbox,
                   chrome_vars, panicked>>

RecordStep(r) ==
    \/ StartFails(r) \/ Started(r) \/ ScriptDone(r) \/ Poll(r) \/ NotYet(r) \/ Stop(r)
    \/ StopDone(r) \/ CloseAcks(r) \/ Finish(r)

\* Later it makes no difference.
Cancel(r) ==
    /\ r \in Leavers \ cancelled /\ pc[r] \in {"start", "script", "record", "poll"}
    /\ cancelled' = cancelled \cup {r}
    /\ UNCHANGED <<pc, aborted, unsure, crowd, handlers, inbox>> /\ OthersStay /\ ChromeStays

-----------------------------------------------------------------------------
(* Chrome.                                                                  *)

\* A frame, as long as few enough are without acknowledgement.
ShowFrame(s) ==
    /\ cast[s] # None /\ credit[s] < InFlight /\ shown < MaxFrames
    /\ shown' = shown + 1 /\ credit' = [credit EXCEPT ![s] = @ + 1]
    /\ inbox' = Append(inbox, [is |-> "frame", n |-> shown + 1, cast |-> cast[s], session |-> s])
    /\ UNCHANGED <<sid, step_vars, loop_vars, frames, ackCh, pump, cast, refused, panicked>>

\* A panic ends the process.
Next ==
    /\ panicked = None
    /\ \/ LoopStep
       \/ \E r \in Recordings : Begin(r) \/ RecordStep(r) \/ PumpStep(r) \/ Cancel(r)
       \/ \E s \in Sessions : ShowFrame(s)

Spec == Init /\ [][Next]_vars

\* The read loop, the pumps and the steps go on, time-outs come, and a select that
\* comes again and again (after evaluations) chooses the end of the recording at
\* some time.  Chrome answers what it likes, and nobody has to record or to cancel.
FairSpec ==
    /\ Spec
    /\ WF_vars(LoopStep /\ panicked = None)
    /\ \A r \in Recordings :
         /\ WF_vars(PumpStep(r) /\ panicked = None) /\ WF_vars(RecordStep(r) /\ panicked = None)
         /\ SF_vars(Stop(r) /\ panicked = None)
=============================================================================
