---------------------------- MODULE CdpClientProofs ----------------------------
(***************************************************************************)
(* Proofs about the CDP client, for every number of calls, of connections  *)
(* and of ids, with and without a callback.                                *)
(***************************************************************************)
EXTENDS CdpClientProps, TLAPS

-----------------------------------------------------------------------------
(* What each group of actions leaves alone *)

\* A step of a call other than Write touches the call and pending only.
LEMMA CallFrame ==
    ASSUME NEW c \in AllCalls,
           \/ StartCall(c) \/ PassReady(c) \/ AssignId(c) \/ Register(c)
           \/ Receive(c) \/ Expire(c) \/ GiveUpClosed(c) \/ Unregister(c)
    PROVE  UNCHANGED <<conn, net, wire, inbox, executed, ready, readyClosed, sessionID,
                       loop, got, cb, userClosed, closed, panicked, cl, ch>>
BY DEF StartCall, PassReady, AssignId, Register, Receive, Expire, GiveUpClosed, Unregister,
       shared, net_vars, ready_vars, close_vars, loop_vars, hold_vars

\* A step of Close touches the closing flags and the sockets only.
LEMMA CloseFrame ==
    ASSUME NEW u \in Closers, CloseStore(u) \/ CloseStep(u)
    PROVE  UNCHANGED <<conn, inbox, nextID, pending, pc, id, sid, rdy, ch, out,
                       ready, readyClosed, sessionID, loop, got, cb>>
BY DEF CloseStore, CloseStep, CloseCheck, CloseClosed, CloseConn, outside, call_vars, id_vars,
       net_vars, ready_vars, loop_vars, hold_vars

\* Chrome and the network touch the sockets only.
LEMMA ChromeFrame ==
    ASSUME NEW k \in Conns, Execute(k) \/ Break(k)
    PROVE  UNCHANGED <<conn, nextID, pending, pc, id, sid, rdy, ch, out,
                       ready, readyClosed, sessionID, loop, got, cb,
                       userClosed, closed, panicked, cl>>
BY DEF Execute, Break, call_vars, id_vars, ready_vars, close_vars, loop_vars, hold_vars

\* readLoop touches no call's own variables.
LEMMA ReadFrame ==
    ASSUME ReadResponse \/ Deliver \/ ReadError \/ Drain
    PROVE  UNCHANGED <<conn, net, wire, executed, nextID, pc, id, sid, rdy, out,
                       ready, readyClosed, sessionID, cb, userClosed, closed, panicked, cl>>
BY DEF ReadResponse, Deliver, ReadError, Drain, others, call_vars, id_vars,
       net_vars, ready_vars, close_vars, hold_vars

\* The rest of readLoop and reconnectLoop, the callback's Send apart, touch neither
\* calls nor pending nor what is in transit, nor do events.
LEMMA ReconnectFrame ==
    ASSUME \/ LeaveReadLoop \/ NotReady \/ CloseOld \/ Top \/ DialSucceeds \/ DialFails
           \/ Backoff \/ Install \/ TempReady \/ CallbackReturns \/ MarkReady
           \/ ShutCheck \/ ShutClose \/ EventStep
    PROVE  UNCHANGED <<wire, inbox, executed, nextID, pending, pc, id, sid, rdy, ch, out, got>>
BY DEF EventStep, ReadEvent, Dispatched,
       LeaveReadLoop, NotReady, CloseOld, Top, DialSucceeds, DialFails, Backoff, Install,
       TempReady, CallbackReturns, MarkReady, ShutCheck, ShutClose, quiet, others, call_vars,
       id_vars, net_vars, ready_vars, close_vars, hold_vars

-----------------------------------------------------------------------------
(* Ids and types.  A request on the wire has an id because its call has     *)
(* one, so TypeOK is inductive together with IdsUnique.                     *)

\* The counter only grows, and a call takes its id from it once, before it
\* registers.
LEMMA IdsStep == TypeOK /\ IdsUnique /\ [Next]_vars => IdsUnique'
<1> SUFFICES ASSUME TypeOK, IdsUnique, [Next]_vars PROVE IdsUnique'
  OBVIOUS
<1> USE DEF IdsUnique, Unnumbered, InFlight, TypeOK, CallsOK, Goto, Return
<1>1. ASSUME NEW c \in AllCalls, EnterWaitReady(c), UNCHANGED <<id, nextID>>
      PROVE  IdsUnique'
  BY <1>1 DEF EnterWaitReady
<1>2. ASSUME NEW c \in AllCalls, AssignId(c) PROVE IdsUnique'
  <2>1. id' = [id EXCEPT ![c] = nextID + 1] /\ nextID' = nextID + 1
    BY <1>2 DEF AssignId, NewId
  <2>2. pc' = [pc EXCEPT ![c] = "register"] /\ pc[c] = "assign"
    BY <1>2 DEF AssignId
  <2>3. id[c] = 0
    BY <2>2
  <2>. QED BY <2>1, <2>2, <2>3
<1>3. ASSUME NEW c \in AllCalls,
             \/ PassReady(c) \/ Register(c) \/ Write(c) \/ Receive(c)
             \/ Expire(c) \/ GiveUpClosed(c) \/ Unregister(c)
      PROVE  IdsUnique'
  <2>1. UNCHANGED <<id, nextID>>
    BY <1>3 DEF PassReady, Register, Write, Receive, Expire, GiveUpClosed, Unregister, id_vars
  <2>2. \/ pc[c] = "waitReady" /\ pc' \in {[pc EXCEPT ![c] = "assign"], [pc EXCEPT ![c] = "done"]}
        \/ pc[c] \in InFlight \cup {"register"}
             /\ \E to \in InFlight \cup {"done"} : pc' = [pc EXCEPT ![c] = to]
    BY <1>3 DEF PassReady, Register, Write, Receive, Expire, CtxDone, GiveUpClosed,
                SeesClosed, Unregister
  <2>. QED BY <2>1, <2>2
<1>4. ASSUME UNCHANGED <<id, nextID, pc>> PROVE IdsUnique'
  BY <1>4
<1>5. ASSUME NEW c \in AllCalls, StartCall(c) \/ CallStep(c) PROVE IdsUnique'
  BY <1>1, <1>2, <1>3, <1>5 DEF StartCall, CallStep
<1>6. ASSUME LoopStep \/ EventStep PROVE IdsUnique'
  <2>1. ASSUME NEW c \in CallbackCalls, CallbackSends(c) PROVE IdsUnique'
    BY <2>1, <1>1 DEF CallbackSends, AllCalls
  <2>. QED BY <1>6, <2>1, <1>4, ReadFrame, ReconnectFrame DEF LoopStep
<1>7. ASSUME NEW u \in Closers, CloseStore(u) \/ CloseStep(u) PROVE IdsUnique'
  BY <1>7, <1>4, CloseFrame
<1>8. ASSUME NEW k \in Conns, Execute(k) \/ Break(k) PROVE IdsUnique'
  BY <1>8, <1>4, ChromeFrame
<1>9. ASSUME UNCHANGED vars PROVE IdsUnique'
  BY <1>9, <1>4 DEF vars, call_vars, id_vars
<1>. QED BY <1>5, <1>6, <1>7, <1>8, <1>9 DEF Next

\* Every step keeps every variable in its type.
LEMMA TypeStep == TypeOK /\ IdsUnique /\ [Next]_vars => TypeOK'
<1> SUFFICES ASSUME TypeOK, IdsUnique, [Next]_vars PROVE TypeOK'
  OBVIOUS
<1> USE ClientAssumption DEF TypeOK
<1>1. ASSUME UNCHANGED <<conn, net, wire, inbox, executed>> PROVE NetOK'
  BY <1>1 DEF NetOK
<1>2. ASSUME UNCHANGED <<nextID, pending, pc, id, sid, rdy, ch, out>> PROVE CallsOK'
  BY <1>2 DEF CallsOK
<1>3. ASSUME UNCHANGED <<conn, sessionID, ready, readyClosed, loop, got, cb>> PROVE LoopOK'
  BY <1>3 DEF LoopOK
<1>4. ASSUME UNCHANGED <<userClosed, closed, panicked, cl>> PROVE CloseOK'
  BY <1>4 DEF CloseOK
<1>5. ASSUME NEW c \in AllCalls, EnterWaitReady(c),
             UNCHANGED <<nextID, pending, id, sid, ch, out>>
      PROVE  CallsOK'
  BY <1>5 DEF EnterWaitReady, Goto, CallsOK, CallPc, LoopOK
<1>6. ASSUME NEW c \in AllCalls, StartCall(c) PROVE TypeOK'
  <2>1. CallsOK'
    BY <1>6, <1>5, CallFrame DEF StartCall
  <2>. QED BY <2>1, <1>6, <1>1, <1>3, <1>4, CallFrame
<1>7. ASSUME NEW c \in AllCalls, CallStep(c) PROVE TypeOK'
  <2>1. ASSUME AssignId(c) PROVE CallsOK'
    <3>1. UNCHANGED <<pending, rdy, ch, out>> /\ nextID + 1 \in 0..MaxId
          /\ pc' = [pc EXCEPT ![c] = "register"] /\ nextID' = nextID + 1
          /\ id' = [id EXCEPT ![c] = nextID + 1]
      BY <2>1 DEF AssignId, NewId, Goto, CallsOK
    <3>2. PICK s \in {sessionID} \cup (IF c \in Calls THEN 1..conn ELSE {}) :
             sid' = [sid EXCEPT ![c] = s]
      BY <2>1 DEF AssignId
    <3>3. s \in 0..MaxConn
      BY DEF LoopOK, NetOK, Conns
    <3>. QED BY <3>1, <3>2, <3>3 DEF CallsOK, CallPc
  <2>2. ASSUME PassReady(c) \/ Receive(c) \/ Expire(c) \/ GiveUpClosed(c) PROVE CallsOK'
    <3>1. UNCHANGED <<nextID, pending, id, sid, rdy, ch>>
      BY <2>2 DEF PassReady, Receive, Expire, GiveUpClosed, id_vars
    <3>2. \E to \in CallPc : pc' = [pc EXCEPT ![c] = to]
      BY <2>2 DEF PassReady, Receive, Expire, CtxDone, GiveUpClosed, SeesClosed, Goto, Return, CallPc
    <3>3. ch[c] # NoResp => ch[c].kind \in Outcome
      BY DEF CallsOK, Response, Lost, Outcome
    <3>4. UNCHANGED out \/ \E r \in Outcome : out' = [out EXCEPT ![c] = r]
      BY <2>2, <3>3 DEF PassReady, Receive, Expire, CtxDone, GiveUpClosed, SeesClosed, Return, Outcome
    <3>. QED BY <3>1, <3>2, <3>4 DEF CallsOK
  <2>3. ASSUME Register(c) PROVE CallsOK'
    BY <2>3 DEF Register, Goto, CallsOK, CallPc, id_vars
  <2>4. ASSUME Unregister(c) PROVE CallsOK'
    <3>1. UNCHANGED <<nextID, id, sid, rdy, ch>> /\ pending' = [pending EXCEPT ![id[c]] = NoCall]
          /\ pc' = [pc EXCEPT ![c] = "done"]
          /\ \E r \in Outcome : out' = [out EXCEPT ![c] = r]
      BY <2>4 DEF Unregister, Deleted, Return, Goto, id_vars, Outcome
    <3>2. pending' \in [Ids -> AllCalls \cup {NoCall}]
      BY <3>1 DEF CallsOK
    <3>3. pc' \in [AllCalls -> CallPc] /\ out' \in [AllCalls -> Outcome]
      BY <3>1 DEF CallsOK, CallPc
    <3>. QED BY <3>1, <3>2, <3>3 DEF CallsOK
  <2>5. ASSUME Write(c) PROVE TypeOK'
    <3>1. UNCHANGED <<conn, net, inbox, executed, sessionID, ready, readyClosed, loop, got, cb,
                      userClosed, closed, panicked, cl, nextID, pending, id, sid, rdy, ch, out>>
      BY <2>5 DEF Write, ready_vars, close_vars, loop_vars, hold_vars, id_vars
    <3>2. pc[c] = "write" /\ (pc' = [pc EXCEPT ![c] = "wait"] \/ pc' = [pc EXCEPT ![c] = "failed"])
      BY <2>5 DEF Write, Goto
    <3>3. CallsOK'
      BY <3>1, <3>2 DEF CallsOK, CallPc
    <3>4. [id |-> id[c], cmd |-> c, sid |-> sid[c]] \in Request
      BY <3>2 DEF IdsUnique, InFlight, CallsOK, Request, Ids
    <3>5. NetOK'
      <4>1. wire' \in [Conns -> SUBSET Request]
        BY <2>5, <3>4 DEF Write, NetOK
      <4>. QED BY <4>1, <3>1 DEF NetOK
    <3>. QED BY <3>1, <3>3, <3>5, <1>3, <1>4
  <2>. QED BY <1>7, <2>1, <2>2, <2>3, <2>4, <2>5, <1>1, <1>3, <1>4, CallFrame DEF CallStep
<1>8. ASSUME ReadResponse \/ Deliver \/ ReadError \/ Drain PROVE TypeOK'
  <2>1. CloseOK'
    BY <1>8, ReadFrame, <1>4
  <2>2. inbox' \in [Conns -> SUBSET Response]
    BY <1>8 DEF ReadResponse, Deliver, ReadError, Drain, net_vars, NetOK
  <2>3. NetOK'
    BY <1>8, <2>2, ReadFrame DEF NetOK
  <2>4. ASSUME ReadResponse PROVE CallsOK' /\ LoopOK'
    <3>1. PICK r \in inbox[conn] :
             \/ /\ Awaited(r) /\ loop' = "deliver"
                /\ got' = [call |-> pending[r.id], resp |-> r]
                /\ pending' = [pending EXCEPT ![r.id] = NoCall]
             \/ loop' = "read" /\ UNCHANGED <<got, pending>>
      BY <2>4 DEF ReadResponse, At, Taken
    <3>2. r \in Response /\ pending[r.id] \in AllCalls \cup {NoCall}
      BY DEF NetOK, CallsOK, Response
    <3>3. ch' = ch
      BY <2>4 DEF ReadResponse
    <3>4. CallsOK'
      BY <3>1, <3>2, <3>3, <2>4, ReadFrame DEF CallsOK
    <3>5. LoopOK'
      <4>1. UNCHANGED <<conn, sessionID, ready, readyClosed, cb>>
        BY <2>4, ReadFrame
      <4>2. CASE /\ Awaited(r) /\ loop' = "deliver"
                 /\ got' = [call |-> pending[r.id], resp |-> r]
        <5>1. pending[r.id] \in AllCalls
          BY <3>2, <4>2 DEF Awaited
        <5>. QED BY <4>1, <4>2, <3>2, <5>1 DEF LoopOK, LoopPc
      <4>3. CASE loop' = "read" /\ UNCHANGED got
        BY <4>1, <4>3 DEF LoopOK, LoopPc
      <4>. QED BY <3>1, <4>2, <4>3
    <3>. QED BY <3>4, <3>5
  <2>5. ASSUME Deliver PROVE CallsOK' /\ LoopOK'
    <3>1. got.call \in AllCalls /\ got.resp \in Response
      BY <2>5 DEF Deliver, At, LoopOK
    <3>2. CallsOK'
      BY <2>5, <3>1, ReadFrame DEF Deliver, CallsOK
    <3>3. LoopOK'
      BY <2>5, ReadFrame DEF Deliver, At, LoopOK, LoopPc, Nothing
    <3>. QED BY <3>2, <3>3
  <2>6. ASSUME ReadError PROVE CallsOK' /\ LoopOK'
    BY <2>6, <1>2, ReadFrame DEF ReadError, hold_vars, LoopOK, LoopPc, At
  <2>7. ASSUME Drain PROVE CallsOK' /\ LoopOK'
    <3>1. CallsOK'
      BY <2>7, ReadFrame DEF Drain, FailedPending, CallsOK
    <3>2. LoopOK'
      BY <2>7, ReadFrame DEF Drain, hold_vars, LoopOK, LoopPc, At
    <3>. QED BY <3>1, <3>2
  <2>. QED BY <1>8, <2>1, <2>3, <2>4, <2>5, <2>6, <2>7
<1>9. ASSUME \/ LeaveReadLoop \/ NotReady \/ CloseOld \/ Top \/ DialSucceeds \/ DialFails
             \/ Backoff \/ Install \/ TempReady \/ CallbackReturns \/ MarkReady
             \/ ShutCheck \/ ShutClose \/ EventStep
      PROVE  TypeOK'
  <2>1. CallsOK'
    BY <1>9, ReconnectFrame, <1>2
  <2>2. CloseOK'
    <3>1. \/ UNCHANGED <<userClosed, closed, panicked, cl>>
          \/ ShutClose
      BY <1>9 DEF EventStep, ReadEvent, Dispatched,
                  LeaveReadLoop, NotReady, CloseOld, Top, DialSucceeds, DialFails, Backoff,
           Install, TempReady, CallbackReturns, MarkReady, ShutCheck, quiet, others, close_vars
    <3>. QED BY <3>1 DEF ShutClose, CloseClosedChannel, CloseOK
  <2>3. NetOK'
    <3>1. conn' \in Conns
      BY <1>9 DEF EventStep, ReadEvent, Dispatched,
                  LeaveReadLoop, NotReady, CloseOld, Top, DialSucceeds, DialFails, Backoff,
           Install, TempReady, CallbackReturns, MarkReady, ShutCheck, ShutClose, quiet,
           hold_vars, NetOK, LoopOK, Conns, At
    <3>2. net' \in [Conns -> {"none", "open", "broken", "closed"}]
      BY <1>9 DEF EventStep, ReadEvent, Dispatched,
                  LeaveReadLoop, NotReady, CloseOld, Top, DialSucceeds, DialFails, Backoff,
           Install, TempReady, CallbackReturns, MarkReady, ShutCheck, ShutClose, quiet,
           net_vars, NetOK, Conns
    <3>. QED BY <1>9, <3>1, <3>2, ReconnectFrame DEF NetOK
  <2>4. LoopOK'
    <3>1. ASSUME LeaveReadLoop \/ Top \/ DialFails \/ Backoff \/ ShutCheck \/ EventStep
          PROVE  LoopOK'
      BY <3>1 DEF EventStep, ReadEvent, Dispatched,
                  LeaveReadLoop, Top, DialFails, Backoff, AfterBackoff, ShutCheck, quiet,
           ready_vars, hold_vars, At, LoopOK, LoopPc
    <3>2. ASSUME NotReady \/ CloseOld \/ DialSucceeds PROVE LoopOK'
      <4>1. UNCHANGED <<sessionID, readyClosed, got, cb, conn>>
            /\ ready' \in {ready, ready + 1} /\ loop' \in {"closeOld", "top", "install"}
            /\ (loop' = "install" => conn < MaxConn)
        BY <3>2 DEF NotReady, CloseOld, DialSucceeds, ready_vars, hold_vars, At
      <4>. QED BY <4>1 DEF LoopOK, LoopPc
    <3>6. ASSUME TempReady \/ MarkReady PROVE LoopOK'
      <4>1. UNCHANGED <<sessionID, got, cb, conn>> /\ loop' \in {"callback", "read"}
            /\ ready' \in {ready, ready + 1}
            /\ readyClosed' \in {readyClosed \cup {ready}, readyClosed \cup {ready + 1}}
        BY <3>6 DEF TempReady, MarkReady, OpenReady, hold_vars, At
      <4>2. ready' \in Nat /\ readyClosed' \in SUBSET Nat
        BY <4>1 DEF LoopOK
      <4>. QED BY <4>1, <4>2 DEF LoopOK, LoopPc
    <3>3. ASSUME Install PROVE LoopOK'
      BY <3>3 DEF Install, ready_vars, At, LoopOK, LoopPc
    <3>4. ASSUME CallbackReturns PROVE LoopOK'
      BY <3>4 DEF CallbackReturns, ready_vars, At, LoopOK, LoopPc, NetOK, Conns
    <3>5. ASSUME ShutClose PROVE LoopOK'
      BY <3>5 DEF ShutClose, ready_vars, hold_vars, At, LoopOK, LoopPc
    <3>. QED BY <1>9, <3>1, <3>2, <3>3, <3>4, <3>5, <3>6
  <2>. QED BY <2>1, <2>2, <2>3, <2>4
<1>10. ASSUME NEW c \in CallbackCalls, CallbackSends(c) PROVE TypeOK'
  <2>1. c \in AllCalls
    BY DEF AllCalls
  <2>2. UNCHANGED <<conn, net, wire, inbox, executed, nextID, pending, id, sid, ch, out, sessionID,
                    ready, readyClosed, loop, got, userClosed, closed, panicked, cl>>
    BY <1>10 DEF CallbackSends, net_vars, ready_vars, close_vars
  <2>3. LoopOK'
    BY <1>10, <2>1, <2>2 DEF CallbackSends, LoopOK
  <2>. QED BY <1>10, <2>1, <2>2, <2>3, <1>1, <1>4, <1>5 DEF CallbackSends
<1>11. ASSUME LoopStep \/ EventStep PROVE TypeOK'
  BY <1>8, <1>9, <1>10, <1>11 DEF LoopStep
<1>12. ASSUME NEW k \in Conns, NEW how \in {"broken", "closed"}, Drop(k, how),
              UNCHANGED <<conn, inbox>>
       PROVE  NetOK'
  BY <1>12 DEF Drop, CarriedOut, NetOK
<1>13. ASSUME NEW u \in Closers, CloseStore(u) \/ CloseStep(u) PROVE TypeOK'
  <2>1. NetOK'
    BY <1>13, <1>1, <1>12, CloseFrame DEF CloseStore, CloseStep, CloseCheck, CloseClosed,
       CloseConn, outside, net_vars, NetOK
  <2>2. CloseOK'
    BY <1>13 DEF CloseStore, CloseStep, CloseCheck, CloseClosed, CloseConn, CloseAt,
       CloseClosedChannel, CloseOK
  <2>. QED BY <1>13, <2>1, <2>2, <1>2, <1>3, CloseFrame
<1>14. ASSUME NEW k \in Conns, Execute(k) \/ Break(k) PROVE TypeOK'
  <2>1. ASSUME Execute(k) PROVE NetOK'
    <3>1. PICK q \in wire[k] :
            /\ wire' = [wire EXCEPT ![k] = @ \ {q}]
            /\ inbox' = [inbox EXCEPT ![k] = @ \cup
                   {[id |-> q.id, cmd |-> q.cmd,
                     kind |-> IF q.sid \in {0, k} THEN "result" ELSE "error"]}]
            /\ CarriedOut({q})
      BY <2>1 DEF Execute
    <3>2. q \in Request /\ UNCHANGED <<conn, net>>
      BY <2>1 DEF NetOK, Execute, loop_vars, hold_vars
    <3>. QED BY <3>1, <3>2 DEF NetOK, Request, Response, CarriedOut
  <2>2. ASSUME Break(k) PROVE NetOK'
    BY <2>2, <1>12, ChromeFrame DEF Break
  <2>. QED BY <1>14, <2>1, <2>2, <1>2, <1>3, <1>4, ChromeFrame
<1>15. ASSUME UNCHANGED vars PROVE TypeOK'
  BY <1>15, <1>1, <1>2, <1>3, <1>4 DEF vars, shared, net_vars, ready_vars, close_vars, loop_vars,
     hold_vars, call_vars, id_vars
<1>. QED BY <1>6, <1>7, <1>11, <1>13, <1>14, <1>15 DEF Next

LEMMA TypeInit == Init => TypeOK /\ IdsUnique
<1> USE ClientAssumption DEF Init
<1> SUFFICES ASSUME Init PROVE TypeOK /\ IdsUnique
  OBVIOUS
<1>1. NetOK
  BY DEF NetOK, Conns
<1>2. CallsOK
  BY DEF CallsOK, Ids, CallPc, Outcome
<1>3. LoopOK
  BY DEF LoopOK, LoopPc, Nothing
<1>4. CloseOK
  BY DEF CloseOK
<1>5. IdsUnique
  BY DEF IdsUnique, Unnumbered, InFlight
<1>. QED BY <1>1, <1>2, <1>3, <1>4, <1>5 DEF TypeOK

\* Every reachable state of the client is well typed; in particular readLoop
\* never sends to a nil entry, and every call keeps an id of its own.
THEOREM ClientTypeCorrect == Spec => [](TypeOK /\ IdsUnique)
BY TypeInit, TypeStep, IdsStep, PTL DEF Spec

-----------------------------------------------------------------------------
(* The routing of responses: what IInv says beyond types and ids.          *)

Routing == NamedById /\ EmptyBeforeRegister /\ SlotFree /\ OwnAnswer /\ Reachable

\* Nothing in the routing invariant looks at the connection, the ready
\* channels or the closing flags, and what is in transit may be lost.
LEMMA RoutingFrame ==
    ASSUME Routing,
           UNCHANGED <<pending, pc, id, ch, out>>,
           \A k \in Conns : wire'[k] \subseteq wire[k] /\ inbox'[k] \subseteq inbox[k],
           \/ UNCHANGED <<loop, got>>
           \/ loop # "deliver" /\ loop' # "deliver"
    PROVE  Routing'
<1> USE DEF Routing
<1>1. NamedById'
  <2>1. ASSUME NEW k \in Conns, NEW q \in (wire[k] \cup inbox[k])'
        PROVE  (id[q.cmd] = q.id)'
    BY <2>1 DEF NamedById
  <2>. QED BY <2>1 DEF NamedById
<1>2. EmptyBeforeRegister'
  BY DEF EmptyBeforeRegister
<1>3. SlotFree'
  BY DEF SlotFree, Registered
<1>4. OwnAnswer'
  BY DEF OwnAnswer, NoResp, Lost
<1>5. Reachable'
  BY DEF Reachable
<1>. QED BY <1>1, <1>2, <1>3, <1>4, <1>5

\* A call that only moves on keeps the routing intact: it may not skip its
\* registration, and it may give up an entry only on the `closed' branch.
LEMMA RoutingMove ==
    ASSUME TypeOK, IdsUnique, Routing,
           NEW c \in AllCalls, NEW to \in CallPc,
           pc' = [pc EXCEPT ![c] = to],
           UNCHANGED <<conn, wire, inbox, pending, id, ch, loop, got>>,
           \/ pc[c] \in Unnumbered /\ to \in Unnumbered \cup {"done"}
           \/ pc[c] = "wait" /\ to = "expired"
           \/ pc[c] = "write" /\ to \in {"wait", "failed"}
           \/ pc[c] = "wait" /\ to = "done" /\ (out'[c] = "closed" \/ ch[c] # NoResp),
           \A d \in AllCalls \ {c} : out'[d] = out[d]
    PROVE  Routing'
<1> USE DEF Routing, TypeOK, CallsOK, Unnumbered, InFlight
<1>1. NamedById'
  <2>1. ASSUME NEW i \in Ids, pending[i] # NoCall
        PROVE  /\ id[pending[i]] = i
               /\ \/ pc'[pending[i]] \in InFlight
                  \/ pc'[pending[i]] = "done" /\ out'[pending[i]] = "closed"
    <3>1. pending[i] \in AllCalls
      BY <2>1
    <3>2. CASE pending[i] # c
      BY <2>1, <3>1, <3>2 DEF NamedById
    <3>3. CASE pending[i] = c
      BY <2>1, <3>1, <3>3 DEF NamedById, SlotFree, Registered
    <3>. QED BY <3>2, <3>3
  <2>2. loop = "deliver" => pc'[got.call] \in InFlight \cup {"done"}
    BY DEF NamedById, LoopOK
  <2>. QED BY <2>1, <2>2 DEF NamedById
<1>2. EmptyBeforeRegister'
  BY DEF EmptyBeforeRegister
<1>3. SlotFree'
  BY DEF SlotFree, Registered
<1>4. OwnAnswer'
  BY DEF OwnAnswer, NoResp, Lost
<1>5. Reachable'
  BY DEF Reachable
<1>. QED BY <1>1, <1>2, <1>3, <1>4, <1>5

\* The steps of a call that touch more than its program counter.
LEMMA RoutingCall ==
    ASSUME TypeOK, IdsUnique, Routing, NEW c \in AllCalls, CallStep(c)
    PROVE  Routing'
<1> USE ClientAssumption DEF Routing, TypeOK, CallsOK, CallPc, Unnumbered, InFlight
<1>1. ASSUME PassReady(c) \/ Expire(c) \/ GiveUpClosed(c) \/ Receive(c) PROVE Routing'
  <2>1. UNCHANGED <<conn, wire, inbox, pending, id, ch, loop, got>>
    BY <1>1, CallFrame DEF PassReady, Expire, GiveUpClosed, Receive, id_vars
  <2>2. \/ pc[c] = "waitReady" /\ pc' \in {[pc EXCEPT ![c] = "assign"], [pc EXCEPT ![c] = "done"]}
        \/ pc[c] = "wait" /\ pc' = [pc EXCEPT ![c] = "expired"]
        \/ pc[c] = "wait" /\ pc' = [pc EXCEPT ![c] = "done"] /\ (out'[c] = "closed" \/ ch[c] # NoResp)
    BY <1>1 DEF PassReady, Expire, CtxDone, GiveUpClosed, SeesClosed, Receive, Goto, Return
  <2>3. \A d \in AllCalls \ {c} : out'[d] = out[d]
    BY <1>1 DEF PassReady, Expire, CtxDone, GiveUpClosed, SeesClosed, Receive, Return
  <2>. QED BY <2>1, <2>2, <2>3, RoutingMove DEF Routing
<1>2. ASSUME AssignId(c) PROVE Routing'
  <2>1. /\ pc[c] = "assign" /\ pc' = [pc EXCEPT ![c] = "register"]
        /\ id' = [id EXCEPT ![c] = nextID + 1]
        /\ UNCHANGED <<wire, inbox, pending, ch, out, loop, got>>
    BY <1>2, CallFrame DEF AssignId, NewId, Goto
  <2>2. id[c] = 0 /\ ch[c] = NoResp
    BY <2>1 DEF IdsUnique, EmptyBeforeRegister
  <2>3. ASSUME NEW i \in Ids PROVE pending[i] # c
    <3>1. c # NoCall /\ i # 0
      BY DEF Ids
    <3>. QED BY <2>2, <3>1 DEF NamedById
  <2>4. \A k \in Conns : \A q \in wire[k] \cup inbox[k] : q.cmd # c
    BY <2>2 DEF NamedById, NetOK, Request, Response, Ids
  <2>5. loop = "deliver" => got.call # c
    BY <2>1 DEF NamedById
  <2>6. NamedById'
    <3>1. \A i \in Ids : pending[i] # NoCall => pending[i] \in AllCalls \ {c}
      BY <2>3
    <3>2. loop = "deliver" => got.call \in AllCalls \ {c}
      BY <2>5 DEF LoopOK
    <3>3. \A k \in Conns : \A q \in wire[k] \cup inbox[k] : q.cmd \in AllCalls \ {c}
      BY <2>4 DEF NetOK, Request, Response
    <3>4. \A d \in AllCalls \ {c} : id'[d] = id[d] /\ pc'[d] = pc[d]
      BY <2>1
    <3>. QED BY <3>1, <3>2, <3>3, <3>4, <2>1 DEF NamedById
  <2>7. EmptyBeforeRegister'
    BY <2>1, <2>2 DEF EmptyBeforeRegister
  <2>8. SlotFree' /\ OwnAnswer'
    BY <2>1 DEF SlotFree, OwnAnswer, Registered, NoResp, Lost
  <2>9. Reachable'
    BY <2>1 DEF Reachable
  <2>. QED BY <2>6, <2>7, <2>8, <2>9
<1>3. ASSUME Register(c) PROVE Routing'
  <2>1. /\ pc[c] = "register" /\ pc' = [pc EXCEPT ![c] = "write"]
        /\ pending' = [pending EXCEPT ![id[c]] = c]
        /\ UNCHANGED <<wire, inbox, id, ch, out, loop, got>>
    BY <1>3, CallFrame DEF Register, Goto, id_vars
  <2>2. id[c] \in Ids /\ ch[c] = NoResp
    BY <2>1 DEF IdsUnique, EmptyBeforeRegister, Ids
  <2>3. loop = "deliver" => got.call # c
    BY <2>1 DEF NamedById
  <2>4. NamedById'
    <3>1. ASSUME NEW i \in Ids, pending'[i] # NoCall
          PROVE  /\ id[pending'[i]] = i
                 /\ \/ pc'[pending'[i]] \in InFlight
                    \/ pc'[pending'[i]] = "done" /\ out[pending'[i]] = "closed"
      <4>1. CASE i = id[c]
        BY <2>1, <2>2, <4>1
      <4>2. CASE i # id[c]
        <5>1. pending'[i] = pending[i] /\ pending[i] \in AllCalls
          BY <2>1, <4>2, <3>1
        <5>2. pending[i] # c
          BY <3>1, <4>2, <5>1 DEF NamedById
        <5>. QED BY <5>1, <5>2, <2>1, <3>1 DEF NamedById
      <4>. QED BY <4>1, <4>2
    <3>2. loop = "deliver" => pc'[got.call] \in InFlight \cup {"done"}
      BY <2>1 DEF NamedById, LoopOK
    <3>. QED BY <3>1, <3>2, <2>1 DEF NamedById
  <2>5. EmptyBeforeRegister' /\ OwnAnswer'
    BY <2>1 DEF EmptyBeforeRegister, OwnAnswer, NoResp, Lost
  <2>6. SlotFree'
    BY <2>1, <2>2, <2>3 DEF SlotFree, Registered, NoResp
  <2>7. Reachable'
    <3>1. ASSUME NEW d \in AllCalls, pc'[d] \in {"write", "wait"}, ch[d] = NoResp
          PROVE  pending'[id[d]] = d \/ (loop = "deliver" /\ got.call = d)
      <4>1. CASE d = c
        BY <4>1, <2>1, <2>2
      <4>2. CASE d # c
        <5>1. pc[d] \in {"write", "wait"}
          BY <3>1, <4>2, <2>1
        <5>2. id[d] # id[c]
          BY <5>1, <4>2, <2>2 DEF IdsUnique, Ids
        <5>. QED BY <3>1, <5>1, <5>2, <2>1 DEF Reachable, IdsUnique, Ids
      <4>. QED BY <4>1, <4>2
    <3>. QED BY <3>1, <2>1 DEF Reachable
  <2>. QED BY <2>4, <2>5, <2>6, <2>7
<1>4. ASSUME Write(c) PROVE Routing'
  <2>1. /\ pc[c] = "write" /\ pc' \in {[pc EXCEPT ![c] = "wait"], [pc EXCEPT ![c] = "failed"]}
        /\ UNCHANGED <<conn, inbox, pending, id, ch, out, loop, got>>
    BY <1>4 DEF Write, Goto, id_vars, loop_vars, hold_vars
  <2>2. \A k \in Conns : \A q \in wire'[k] :
            q \in wire[k] \/ q = [id |-> id[c], cmd |-> c, sid |-> sid[c]]
    BY <1>4 DEF Write, NetOK
  <2>3. NamedById'
    <3>1. ASSUME NEW k \in Conns, NEW q \in wire'[k] \cup inbox[k] PROVE id[q.cmd] = q.id
      BY <2>2, <3>1 DEF NamedById
    <3>2. ASSUME NEW i \in Ids, pending[i] # NoCall
          PROVE  /\ id[pending[i]] = i
                 /\ \/ pc'[pending[i]] \in InFlight
                    \/ pc'[pending[i]] = "done" /\ out[pending[i]] = "closed"
      BY <2>1, <3>2 DEF NamedById
    <3>3. loop = "deliver" => pc'[got.call] \in InFlight \cup {"done"}
      BY <2>1 DEF NamedById, LoopOK
    <3>. QED BY <3>1, <3>2, <3>3, <2>1 DEF NamedById
  <2>4. EmptyBeforeRegister' /\ OwnAnswer'
    BY <2>1 DEF EmptyBeforeRegister, OwnAnswer, NoResp, Lost
  <2>5. SlotFree' /\ Reachable'
    BY <2>1 DEF SlotFree, Registered, Reachable, NoResp
  <2>. QED BY <2>3, <2>4, <2>5
<1>5. ASSUME Unregister(c) PROVE Routing'
  <2>1. /\ pc[c] \in {"failed", "expired"} /\ pc' = [pc EXCEPT ![c] = "done"]
        /\ pending' = [pending EXCEPT ![id[c]] = NoCall]
        /\ \A d \in AllCalls \ {c} : out'[d] = out[d]
        /\ UNCHANGED <<wire, inbox, id, ch, loop, got>>
    BY <1>5, CallFrame DEF Unregister, Deleted, Return, Goto, id_vars
  <2>2. id[c] \in Ids
    BY <2>1 DEF IdsUnique, Ids
  <2>3. \A i \in Ids : pending'[i] # NoCall => pending'[i] = pending[i] /\ pending[i] # c
    BY <2>1, <2>2 DEF NamedById
  <2>4. NamedById'
    <3>1. ASSUME NEW i \in Ids, pending'[i] # NoCall
          PROVE  /\ id[pending'[i]] = i
                 /\ \/ pc'[pending'[i]] \in InFlight
                    \/ pc'[pending'[i]] = "done" /\ out'[pending'[i]] = "closed"
      BY <2>1, <2>3, <3>1 DEF NamedById
    <3>2. loop = "deliver" => pc'[got.call] \in InFlight \cup {"done"}
      BY <2>1 DEF NamedById, LoopOK
    <3>. QED BY <3>1, <3>2, <2>1 DEF NamedById
  <2>5. EmptyBeforeRegister' /\ OwnAnswer'
    BY <2>1 DEF EmptyBeforeRegister, OwnAnswer, NoResp, Lost
  <2>6. SlotFree'
    <3>1. ASSUME NEW d \in AllCalls, NEW i \in Ids, pending'[i] = d PROVE pending[i] = d
      <4>1. d # NoCall
        OBVIOUS
      <4>. QED BY <3>1, <4>1, <2>3
    <3>2. \A d \in AllCalls : Registered(d)' => Registered(d)
      BY <3>1 DEF Registered
    <3>3. loop = "deliver" => got.call \in AllCalls
      BY DEF LoopOK
    <3>. QED BY <3>2, <3>3, <2>1 DEF SlotFree
  <2>7. Reachable'
    <3>1. ASSUME NEW d \in AllCalls, pc'[d] \in {"write", "wait"}, ch[d] = NoResp
          PROVE  pending'[id[d]] = d \/ (loop = "deliver" /\ got.call = d)
      <4>1. d # c /\ pc[d] \in {"write", "wait"}
        BY <3>1, <2>1
      <4>2. id[d] # id[c]
        BY <4>1, <2>2 DEF IdsUnique, Ids
      <4>. QED BY <3>1, <4>1, <4>2, <2>1 DEF Reachable, IdsUnique, Ids
    <3>. QED BY <3>1, <2>1 DEF Reachable
  <2>. QED BY <2>4, <2>5, <2>6, <2>7
<1>. QED BY <1>1, <1>2, <1>3, <1>4, <1>5 DEF CallStep

\* readLoop: an answer is taken from pending before it is handed over, so it
\* finds the slot free and its call without any other entry.
LEMMA RoutingRead ==
    ASSUME TypeOK, IdsUnique, Routing, ReadResponse \/ Deliver \/ ReadError \/ Drain
    PROVE  Routing'
<1> USE ClientAssumption DEF Routing, TypeOK, CallsOK, Unnumbered, InFlight
<1>0. UNCHANGED <<conn, wire, id, pc, out>>
  BY ReadFrame
<1>1. ASSUME ReadResponse PROVE Routing'
  <2>1. PICK r \in inbox[conn] :
          /\ inbox' = [inbox EXCEPT ![conn] = @ \ {r}]
          /\ \/ /\ Awaited(r) /\ loop = "read" /\ loop' = "deliver"
                /\ got' = [call |-> pending[r.id], resp |-> r]
                /\ pending' = [pending EXCEPT ![r.id] = NoCall]
             \/ /\ loop = "read" /\ loop' = "read"
                /\ UNCHANGED <<got, pending>>
    BY <1>1 DEF ReadResponse, At, Taken
  <2>2. ch' = ch
    BY <1>1 DEF ReadResponse
  <2>3. conn \in Conns /\ r \in Response /\ r.id \in Ids /\ r.cmd \in AllCalls
    BY DEF NetOK, Response
  <2>4. \A k \in Conns : wire'[k] \subseteq wire[k] /\ inbox'[k] \subseteq inbox[k]
    BY <1>0, <2>1 DEF NetOK
  <2>5. CASE loop' = "read"
    BY <2>1, <2>2, <2>4, <2>5, <1>0, RoutingFrame
  <2>6. CASE loop' = "deliver"
    <3>1. /\ got'.call = pending[r.id] /\ got'.resp = r
          /\ pending' = [pending EXCEPT ![r.id] = NoCall]
      BY <2>1, <2>6
    <3>2. pending[r.id] \in AllCalls /\ pending[r.id] # NoCall
      BY <2>1, <2>3, <2>6 DEF Awaited
    <3>3. id[r.cmd] = r.id /\ id[pending[r.id]] = r.id
      BY <2>3, <3>2 DEF NamedById
    <3>4. r.cmd = pending[r.id]
      BY <2>3, <3>2, <3>3 DEF IdsUnique, Ids
    <3>5. ASSUME NEW i \in Ids, pending'[i] # NoCall PROVE i # r.id /\ pending'[i] = pending[i]
      BY <3>1, <3>5, <2>3
    <3>6. NamedById'
      <4>1. ASSUME NEW k \in Conns, NEW q \in wire'[k] \cup inbox'[k] PROVE id[q.cmd] = q.id
        BY <2>4, <4>1 DEF NamedById
      <4>2. pc[pending[r.id]] \in InFlight \cup {"done"}
        BY <2>3, <3>2 DEF NamedById
      <4>. QED BY <4>1, <4>2, <3>1, <3>3, <3>5, <1>0, <2>6 DEF NamedById
    <3>7. EmptyBeforeRegister'
      BY <1>0, <2>2 DEF EmptyBeforeRegister
    <3>8. SlotFree'
      <4>1. ASSUME NEW d \in AllCalls, Registered(d)' PROVE Registered(d) /\ d # pending[r.id]
        <5>1. PICK i \in Ids : pending'[i] = d
          BY <4>1 DEF Registered
        <5>2. d # NoCall
          OBVIOUS
        <5>3. i # r.id /\ pending[i] = d
          BY <5>1, <5>2, <3>5
        <5>4. id[d] = i
          BY <5>2, <5>3 DEF NamedById
        <5>. QED BY <5>3, <5>4, <3>3 DEF Registered
      <4>2. Registered(pending[r.id])
        BY <2>3 DEF Registered
      <4>. QED BY <4>1, <4>2, <3>1, <3>2, <2>2 DEF SlotFree
    <3>9. OwnAnswer'
      BY <2>2, <3>1, <3>4 DEF OwnAnswer, NoResp, Lost
    <3>10. Reachable'
      <4>1. ASSUME NEW d \in AllCalls, pc[d] \in {"write", "wait"}, ch[d] = NoResp
            PROVE  pending'[id[d]] = d \/ got'.call = d
        <5>1. pending[id[d]] = d
          BY <4>1, <2>1, <2>6 DEF Reachable
        <5>2. id[d] \in Ids
          BY <4>1 DEF IdsUnique, Ids
        <5>. QED BY <5>1, <5>2, <3>1
      <4>. QED BY <4>1, <1>0, <2>2, <2>6 DEF Reachable
    <3>. QED BY <3>6, <3>7, <3>8, <3>9, <3>10
  <2>. QED BY <2>1, <2>5, <2>6
<1>2. ASSUME Deliver PROVE Routing'
  <2>1. /\ loop = "deliver" /\ loop' = "read"
        /\ ch' = [ch EXCEPT ![got.call] = got.resp]
        /\ UNCHANGED <<inbox, pending>>
    BY <1>2 DEF Deliver, At, net_vars
  <2>2. got.call \in AllCalls /\ got.resp \in Response
    BY <2>1 DEF LoopOK
  <2>3. /\ id[got.call] = got.resp.id /\ pc[got.call] \in InFlight \cup {"done"}
        /\ ~Registered(got.call) /\ got.resp.cmd = got.call
    BY <2>1 DEF NamedById, SlotFree, OwnAnswer
  <2>4. got.resp # NoResp
    BY <2>2 DEF Response, NoResp, Ids
  <2>5. NamedById' /\ EmptyBeforeRegister'
    BY <1>0, <2>1, <2>2, <2>3 DEF NamedById, EmptyBeforeRegister
  <2>6. SlotFree'
    BY <1>0, <2>1, <2>2, <2>3 DEF SlotFree, Registered
  <2>7. OwnAnswer'
    BY <1>0, <2>1, <2>2, <2>3 DEF OwnAnswer, NoResp, Lost
  <2>8. Reachable'
    BY <1>0, <2>1, <2>2, <2>4 DEF Reachable
  <2>. QED BY <2>5, <2>6, <2>7, <2>8
<1>3. ASSUME ReadError PROVE Routing'
  <2>1. /\ loop = "read" /\ loop' = "drain" /\ UNCHANGED <<got, pending, ch>>
        /\ \A k \in Conns : wire'[k] \subseteq wire[k] /\ inbox'[k] \subseteq inbox[k]
    BY <1>0, <1>3 DEF ReadError, At, hold_vars, NetOK
  <2>. QED BY <1>0, <2>1, RoutingFrame
<1>4. ASSUME Drain PROVE Routing'
  <2>1. /\ loop' = "drained" /\ loop = "drain" /\ UNCHANGED <<inbox, got>>
        /\ ch' = [c \in AllCalls |-> IF Registered(c) THEN Lost ELSE ch[c]]
        /\ pending' = [i \in Ids |-> NoCall]
    BY <1>4 DEF Drain, At, FailedPending, net_vars, hold_vars
  <2>2. Lost # NoResp
    BY DEF Lost, NoResp
  <2>3. NamedById'
    BY <1>0, <2>1 DEF NamedById
  <2>4. EmptyBeforeRegister'
    <3>1. ASSUME NEW c \in AllCalls, pc[c] \in Unnumbered \cup {"register"} PROVE ~Registered(c)
      <4>1. ASSUME NEW i \in Ids, pending[i] = c PROVE FALSE
        <5>1. c # NoCall
          OBVIOUS
        <5>. QED BY <3>1, <4>1, <5>1 DEF NamedById
      <4>. QED BY <4>1 DEF Registered
    <3>. QED BY <1>0, <2>1, <3>1 DEF EmptyBeforeRegister
  <2>5. SlotFree'
    BY <1>0, <2>1 DEF SlotFree, Registered
  <2>6. OwnAnswer'
    BY <1>0, <2>1 DEF OwnAnswer, NoResp, Lost
  <2>7. Reachable'
    <3>1. ASSUME NEW c \in AllCalls, pc[c] \in {"write", "wait"}, ch'[c] = NoResp PROVE FALSE
      <4>1. ~Registered(c) /\ ch[c] = NoResp
        BY <3>1, <2>1, <2>2
      <4>2. id[c] \in Ids
        BY <3>1 DEF IdsUnique, Ids
      <4>. QED BY <3>1, <4>1, <4>2, <2>1 DEF Reachable, Registered
    <3>. QED BY <3>1, <1>0 DEF Reachable
  <2>. QED BY <2>3, <2>4, <2>5, <2>6, <2>7
<1>. QED BY <1>1, <1>2, <1>3, <1>4

\* The callback is between connections: its Send and the steps around it find
\* nothing on its way to a channel.
LEMMA RoutingLoop ==
    ASSUME TypeOK, IdsUnique, Routing, LoopStep \/ EventStep
    PROVE  Routing'
<1>1. ASSUME \/ LeaveReadLoop \/ NotReady \/ CloseOld \/ Top \/ DialSucceeds \/ DialFails
             \/ Backoff \/ Install \/ TempReady \/ CallbackReturns \/ MarkReady
             \/ ShutCheck \/ ShutClose \/ EventStep
      PROVE  Routing'
  <2>1. loop # "deliver" /\ loop' # "deliver"
    BY <1>1 DEF EventStep, ReadEvent, Dispatched,
                LeaveReadLoop, NotReady, CloseOld, Top, DialSucceeds, DialFails, Backoff,
       AfterBackoff, Install, TempReady, CallbackReturns, MarkReady, ShutCheck, ShutClose, At
  <2>. QED BY <1>1, <2>1, ReconnectFrame, RoutingFrame
<1>2. ASSUME NEW c \in CallbackCalls, CallbackSends(c) PROVE Routing'
  <2>1. /\ c \in AllCalls /\ pc[c] = "idle" /\ pc' = [pc EXCEPT ![c] = "waitReady"]
        /\ UNCHANGED <<conn, wire, inbox, pending, id, ch, out, loop, got>>
    BY <1>2 DEF CallbackSends, EnterWaitReady, Goto, AllCalls, net_vars
  <2>. QED BY <2>1, RoutingMove DEF CallPc, Unnumbered
<1>. QED BY <1>1, <1>2, RoutingRead DEF LoopStep

\* Closing, Chrome and the network: a request may get lost, or be answered
\* under the id and with the command it carries.
LEMMA RoutingNet ==
    ASSUME TypeOK, Routing,
           \/ \E u \in Closers : CloseStore(u) \/ CloseStep(u)
           \/ \E k \in Conns : Execute(k) \/ Break(k)
    PROVE  Routing'
<1>1. ASSUME NEW u \in Closers, CloseStore(u) \/ CloseStep(u) PROVE Routing'
  <2>1. \A k \in Conns : wire'[k] \subseteq wire[k]
    BY <1>1 DEF CloseStore, CloseStep, CloseCheck, CloseClosed, CloseConn, Drop, outside,
       net_vars, TypeOK, NetOK
  <2>. QED BY <1>1, <2>1, CloseFrame, RoutingFrame
<1>2. ASSUME NEW k \in Conns, Break(k) PROVE Routing'
  <2>1. \A j \in Conns : wire'[j] \subseteq wire[j] /\ inbox'[j] = inbox[j]
    BY <1>2 DEF Break, Drop, TypeOK, NetOK
  <2>. QED BY <1>2, <2>1, ChromeFrame, RoutingFrame
<1>3. ASSUME NEW k \in Conns, Execute(k) PROVE Routing'
  <2>1. UNCHANGED <<pending, pc, id, ch, out, loop, got>>
    BY <1>3, ChromeFrame
  <2>2. PICK q \in wire[k] :
          /\ wire' = [wire EXCEPT ![k] = @ \ {q}]
          /\ inbox' = [inbox EXCEPT ![k] = @ \cup
                 {[id |-> q.id, cmd |-> q.cmd,
                   kind |-> IF q.sid \in {0, k} THEN "result" ELSE "error"]}]
    BY <1>3 DEF Execute
  <2>3. ASSUME NEW j \in Conns, NEW r \in wire'[j] \cup inbox'[j] PROVE id[r.cmd] = r.id
    BY <2>2, <2>3 DEF TypeOK, NetOK, Routing, NamedById
  <2>4. NamedById'
    BY <2>1, <2>3 DEF Routing, NamedById
  <2>. QED BY <2>1, <2>4 DEF Routing, EmptyBeforeRegister, SlotFree, Registered, OwnAnswer,
              NoResp, Lost, Reachable
<1>. QED BY <1>1, <1>2, <1>3

LEMMA RoutingStep == TypeOK /\ IdsUnique /\ Routing /\ [Next]_vars => Routing'
<1> SUFFICES ASSUME TypeOK, IdsUnique, Routing, [Next]_vars PROVE Routing'
  OBVIOUS
<1>1. ASSUME NEW c \in AllCalls, StartCall(c) PROVE Routing'
  <2>1. /\ pc[c] = "idle" /\ pc' = [pc EXCEPT ![c] = "waitReady"]
        /\ UNCHANGED <<conn, wire, inbox, pending, id, ch, out, loop, got>>
    BY <1>1, CallFrame DEF StartCall, EnterWaitReady, Goto
  <2>. QED BY <2>1, RoutingMove DEF CallPc, Unnumbered
<1>2. ASSUME UNCHANGED vars PROVE Routing'
  <2>1. UNCHANGED <<pending, pc, id, ch, out, wire, inbox, loop, got>>
    BY <1>2 DEF vars, shared, call_vars, id_vars, net_vars, loop_vars, hold_vars
  <2>. QED BY <2>1, RoutingFrame
<1>. QED BY <1>1, <1>2, RoutingCall, RoutingLoop, RoutingNet DEF Next

LEMMA RoutingInit == Init => Routing
<1> SUFFICES ASSUME Init PROVE Routing
  OBVIOUS
<1>. QED BY ClientAssumption DEF Init, Routing, NamedById, InFlight, EmptyBeforeRegister,
            SlotFree, Registered, OwnAnswer, Reachable

-----------------------------------------------------------------------------
(* The safety properties *)

\* IInv is an invariant: it holds at first and every step keeps it.
THEOREM ClientInvariant == Spec => []IInv
<1>1. Init => IInv
  BY TypeInit, RoutingInit DEF IInv, Routing
<1>2. IInv /\ [Next]_vars => IInv'
  BY TypeStep, IdsStep, RoutingStep DEF IInv, Routing
<1>. QED BY <1>1, <1>2, PTL DEF Spec

\* No send to a call's channel ever finds it full, so Drain never blocks while
\* it holds mu.
THEOREM ChannelsHaveRoom == Spec => []SlotFree
BY ClientInvariant, PTL DEF IInv

\* No call ever receives the answer to another call's command.
THEOREM AnswersAreRouted == Spec => []OwnAnswer
BY ClientInvariant, PTL DEF IInv

\* A caller that waits without an answer is registered or about to be served.
THEOREM WaitersAreReachable == Spec => []WaiterReachable
<1>1. IInv => WaiterReachable
  BY DEF IInv, Reachable, WaiterReachable
<1>. QED BY <1>1, ClientInvariant, PTL

\* A call that returned is registered no more, but for the closed branch.
THEOREM ReturnedCallsAreForgotten == Spec => []NoLeak
<1>1. IInv => NoLeak
  <2> SUFFICES ASSUME IInv, NEW c \in AllCalls, pc[c] = "done", NEW i \in Ids, pending[i] = c
               PROVE  out[c] = "closed"
    BY DEF NoLeak, Registered
  <2>1. c # NoCall
    BY ClientAssumption
  <2>. QED BY <2>1 DEF IInv, NamedById, InFlight
<1>. QED BY <1>1, ClientInvariant, PTL

-----------------------------------------------------------------------------
(*****************************************************************************)
(* The CDP client implements the at-most-once command service, for every   *)
(* number of calls, connections and ids.                                   *)
(*****************************************************************************)

(* ExecutedOnce is inductive together with IInv *)

\* Only a write, a lost connection and Chrome change what has been sent; a call
\* that has been past its write does not come back to it.
LEMMA SentFrame ==
    ASSUME TypeOK, SentOnce, UNCHANGED <<wire, executed>>,
           \A c \in AllCalls : pc'[c] \in Unnumbered \cup {"register", "write"} =>
                               pc[c] \in Unnumbered \cup {"register", "write"}
    PROVE  SentOnce'
BY DEF SentOnce

\* A connection loses its requests, some of them carried out.
LEMMA SentDrop ==
    ASSUME TypeOK, SentOnce, AnswersAreReal, NEW k \in Conns, NEW how, Drop(k, how),
           UNCHANGED <<pc, inbox, loop, got, ch>>
    PROVE  ExecutedOnce'
<1> USE DEF TypeOK, NetOK, Unnumbered
<1>1. PICK S \in SUBSET wire[k] : CarriedOut(S)
  BY DEF Drop
<1>2. wire' = [wire EXCEPT ![k] = {}]
  BY DEF Drop
<1>3. \A q \in S : q \in wire[k] /\ executed[q.cmd] = 0
  BY DEF SentOnce
<1>4. ASSUME NEW c \in AllCalls
      PROVE  executed'[c] = IF \E q \in S : q.cmd = c THEN 1 ELSE executed[c]
  BY <1>1, <1>3 DEF CarriedOut
<1>5. ASSUME NEW j \in Conns PROVE wire'[j] \subseteq wire[j] /\ (j = k => wire'[j] = {})
  BY <1>2
<1>6. SentOnce'
  <2>1. \A c \in AllCalls : executed'[c] \in 0..1
    BY <1>4 DEF SentOnce
  <2>2. ASSUME NEW c \in AllCalls, pc[c] \in Unnumbered \cup {"register", "write"}
        PROVE  executed'[c] = 0 /\ \A j \in Conns : \A q \in wire'[j] : q.cmd # c
    BY <2>2, <1>3, <1>4, <1>5 DEF SentOnce
  <2>3. ASSUME NEW j \in Conns, NEW q \in wire'[j] PROVE executed'[q.cmd] = 0
    <3>1. q \in wire[j] /\ j # k /\ q.cmd \in AllCalls
      BY <1>5 DEF Request
    <3>2. \A r \in S : r.cmd # q.cmd
      BY <3>1, <1>3 DEF SentOnce
    <3>. QED BY <3>1, <3>2, <1>4 DEF SentOnce
  <2>4. ASSUME NEW i \in Conns, NEW j \in Conns, NEW q \in wire'[i], NEW r \in wire'[j],
               q.cmd = r.cmd
        PROVE  i = j /\ q = r
    BY <2>4, <1>5 DEF SentOnce
  <2>. QED BY <2>1, <2>2, <2>3, <2>4 DEF SentOnce
<1>7. AnswersAreReal'
  <2>1. ASSUME NEW c \in AllCalls, executed[c] = 1 PROVE executed'[c] = 1
    BY <2>1, <1>4
  <2>2. loop = "deliver" => got.resp.cmd \in AllCalls
    BY DEF LoopOK, Response
  <2>3. \A j \in Conns : \A r \in inbox[j] : r.cmd \in AllCalls
    BY DEF Response
  <2>4. \A c \in AllCalls : ch[c] \notin {NoResp, Lost} => ch[c].cmd \in AllCalls
    BY DEF CallsOK, Response
  <2>. QED BY <2>1, <2>2, <2>3, <2>4 DEF AnswersAreReal
<1>. QED BY <1>6, <1>7 DEF ExecutedOnce

\* Chrome carries out one request and answers it.
LEMMA SentExecute ==
    ASSUME TypeOK, SentOnce, AnswersAreReal, NEW k \in Conns, Execute(k)
    PROVE  ExecutedOnce'
<1> USE DEF TypeOK, NetOK, Unnumbered
<1>1. PICK q \in wire[k] :
        /\ wire' = [wire EXCEPT ![k] = @ \ {q}]
        /\ CarriedOut({q})
        /\ inbox' = [inbox EXCEPT ![k] = @ \cup
               {[id |-> q.id, cmd |-> q.cmd,
                 kind |-> IF q.sid \in {0, k} THEN "result" ELSE "error"]}]
  BY DEF Execute
<1>2. q.cmd \in AllCalls /\ executed[q.cmd] = 0 /\ UNCHANGED <<pc, loop, got, ch>>
  BY ChromeFrame DEF SentOnce, Request
<1>3. executed' = [executed EXCEPT ![q.cmd] = 1]
  <2>1. executed' = [c \in AllCalls |-> IF q.cmd = c THEN executed[c] + 1 ELSE executed[c]]
    BY <1>1 DEF CarriedOut
  <2>2. \A c \in AllCalls : executed'[c] = IF c = q.cmd THEN 1 ELSE executed[c]
    BY <2>1, <1>2
  <2>. QED BY <2>1, <2>2, <1>2
<1>4. SentOnce'
  <2>1. ASSUME NEW c \in AllCalls
        PROVE  /\ executed'[c] \in 0..1
               /\ pc[c] \in Unnumbered \cup {"register", "write"} =>
                     executed'[c] = 0 /\ \A j \in Conns : \A r \in wire'[j] : r.cmd # c
    BY <1>1, <1>2, <1>3 DEF SentOnce
  <2>2. ASSUME NEW j \in Conns, NEW r \in wire'[j]
        PROVE  r \in wire[j] /\ r.cmd \in AllCalls /\ r.cmd # q.cmd
    <3>1. r \in wire[j] /\ (j = k => r # q)
      BY <1>1
    <3>. QED BY <3>1 DEF SentOnce, Request
  <2>3. ASSUME NEW j \in Conns, NEW r \in wire'[j] PROVE executed'[r.cmd] = 0
    BY <1>3, <2>2 DEF SentOnce
  <2>4. ASSUME NEW i \in Conns, NEW j \in Conns, NEW r \in wire'[i], NEW s \in wire'[j],
               r.cmd = s.cmd
        PROVE  i = j /\ r = s
    BY <2>2, <2>4 DEF SentOnce
  <2>. QED BY <1>2, <2>1, <2>3, <2>4 DEF SentOnce
<1>5. AnswersAreReal'
  <2>1. \A c \in AllCalls : executed[c] = 1 => executed'[c] = 1
    BY <1>3
  <2>2. ASSUME NEW j \in Conns, NEW r \in inbox'[j] PROVE executed'[r.cmd] = 1
    <3>1. CASE r \in inbox[j]
      BY <3>1, <2>1 DEF AnswersAreReal, Response
    <3>2. CASE r.cmd = q.cmd
      BY <3>2, <1>2, <1>3
    <3>. QED BY <3>1, <3>2, <1>1
  <2>3. loop = "deliver" => executed'[got.resp.cmd] = 1
    BY <2>1 DEF AnswersAreReal, LoopOK, Response
  <2>4. \A c \in AllCalls : ch[c] \notin {NoResp, Lost} => executed'[ch[c].cmd] = 1
    BY <2>1 DEF AnswersAreReal, CallsOK, Response
  <2>. QED BY <1>2, <2>2, <2>3, <2>4 DEF AnswersAreReal
<1>. QED BY <1>4, <1>5 DEF ExecutedOnce

LEMMA ExecutedOnceStep == IInv /\ ExecutedOnce /\ [Next]_vars => ExecutedOnce'
<1> SUFFICES ASSUME IInv, ExecutedOnce, [Next]_vars PROVE ExecutedOnce'
  OBVIOUS
<1> USE ClientAssumption DEF IInv, ExecutedOnce
<1>1. ASSUME UNCHANGED <<executed, inbox, loop, got, ch>>, AnswersAreReal PROVE AnswersAreReal'
  BY <1>1 DEF AnswersAreReal
<1>2. ASSUME NEW c \in AllCalls, NEW to \in CallPc, pc' = [pc EXCEPT ![c] = to],
             UNCHANGED <<wire, executed>>,
             pc[c] \in Unnumbered \cup {"register", "write"}
                \/ to \notin Unnumbered \cup {"register", "write"}
      PROVE  SentOnce'
  BY <1>2, SentFrame DEF TypeOK, CallsOK
<1>3. ASSUME NEW c \in AllCalls, StartCall(c) PROVE ExecutedOnce'
  BY <1>3, <1>1, <1>2, CallFrame DEF StartCall, EnterWaitReady, Goto, CallPc, Unnumbered
<1>4. ASSUME NEW c \in AllCalls, CallStep(c) PROVE ExecutedOnce'
  <2>1. ASSUME \/ PassReady(c) \/ AssignId(c) \/ Register(c) \/ Receive(c)
               \/ Expire(c) \/ GiveUpClosed(c) \/ Unregister(c)
        PROVE  ExecutedOnce'
    <3>1. UNCHANGED <<wire, inbox, executed, loop, got, ch>>
      BY <2>1, CallFrame
    <3>2. \E to \in CallPc : /\ pc' = [pc EXCEPT ![c] = to]
                             /\ \/ pc[c] \in Unnumbered \cup {"register", "write"}
                                \/ to \notin Unnumbered \cup {"register", "write"}
      BY <2>1 DEF PassReady, AssignId, Register, Receive, Expire, CtxDone, GiveUpClosed,
         SeesClosed, Unregister, Return, Goto, CallPc, Unnumbered
    <3>. QED BY <3>1, <3>2, <1>1, <1>2
  <2>2. ASSUME Write(c) PROVE ExecutedOnce'
    <3>1. /\ pc[c] = "write" /\ pc' \in {[pc EXCEPT ![c] = "wait"], [pc EXCEPT ![c] = "failed"]}
          /\ UNCHANGED <<inbox, executed, loop, got, ch>>
      BY <2>2 DEF Write, Goto, loop_vars, hold_vars
    <3>2. CASE UNCHANGED wire
      BY <3>1, <3>2, <1>1, <1>2 DEF CallPc, Unnumbered
    <3>3. CASE wire' = [wire EXCEPT ![conn] =
                          @ \cup {[id |-> id[c], cmd |-> c, sid |-> sid[c]]}]
      <4> DEFINE q0 == [id |-> id[c], cmd |-> c, sid |-> sid[c]]
      <4>1. executed[c] = 0 /\ \A k \in Conns : \A q \in wire[k] : q.cmd # c
        BY <3>1 DEF SentOnce
      <4>2. ASSUME NEW k \in Conns, NEW q \in wire'[k]
            PROVE  q \in wire[k] \/ (k = conn /\ q = q0)
        BY <3>3 DEF TypeOK, NetOK
      <4>3. ASSUME NEW d \in AllCalls, pc'[d] \in Unnumbered \cup {"register", "write"}
            PROVE  executed[d] = 0 /\ \A k \in Conns : \A q \in wire'[k] : q.cmd # d
        <5>1. d # c /\ pc[d] \in Unnumbered \cup {"register", "write"}
          BY <4>3, <3>1 DEF TypeOK, CallsOK, Unnumbered
        <5>. QED BY <5>1, <4>2 DEF SentOnce
      <4>4. \A k \in Conns : \A q \in wire'[k] : executed[q.cmd] = 0
        BY <4>1, <4>2 DEF SentOnce
      <4>5. ASSUME NEW j \in Conns, NEW k \in Conns, NEW q \in wire'[j], NEW r \in wire'[k],
                   q.cmd = r.cmd
            PROVE  j = k /\ q = r
        BY <4>1, <4>2, <4>5 DEF SentOnce
      <4>6. SentOnce'
        BY <3>1, <4>3, <4>4, <4>5 DEF SentOnce
      <4>. QED BY <4>6, <3>1, <1>1
    <3>. QED BY <2>2, <3>2, <3>3 DEF Write
  <2>. QED BY <1>4, <2>1, <2>2 DEF CallStep
<1>5. ASSUME UNCHANGED <<wire, executed, pc>> PROVE SentOnce'
  BY <1>5, SentFrame
<1>6. ASSUME ReadResponse \/ Deliver \/ ReadError \/ Drain PROVE AnswersAreReal'
  <2>1. UNCHANGED executed
    BY <1>6, ReadFrame
  <2>2. ASSUME ReadResponse PROVE AnswersAreReal'
    <3>1. PICK r \in inbox[conn] :
            /\ inbox' = [inbox EXCEPT ![conn] = @ \ {r}]
            /\ \/ loop' = "deliver" /\ got' = [call |-> pending[r.id], resp |-> r]
               \/ loop' = "read"
      BY <2>2 DEF ReadResponse, At
    <3>2. executed[r.cmd] = 1 /\ \A k \in Conns : inbox'[k] \subseteq inbox[k]
      BY <3>1 DEF AnswersAreReal, TypeOK, NetOK
    <3>3. UNCHANGED ch
      BY <2>2 DEF ReadResponse
    <3>. QED BY <2>1, <3>1, <3>2, <3>3 DEF AnswersAreReal
  <2>3. ASSUME Deliver PROVE AnswersAreReal'
    <3>1. /\ loop = "deliver" /\ loop' = "read" /\ UNCHANGED inbox
          /\ ch' = [ch EXCEPT ![got.call] = got.resp]
      BY <2>3 DEF Deliver, At, net_vars
    <3>. QED BY <2>1, <3>1 DEF AnswersAreReal, TypeOK, CallsOK
  <2>4. ASSUME ReadError PROVE AnswersAreReal'
    BY <2>1, <2>4 DEF ReadError, At, AnswersAreReal, TypeOK, NetOK
  <2>5. ASSUME Drain PROVE AnswersAreReal'
    BY <2>1, <2>5 DEF Drain, FailedPending, At, net_vars, AnswersAreReal
  <2>. QED BY <1>6, <2>2, <2>3, <2>4, <2>5
<1>7. ASSUME \/ LeaveReadLoop \/ NotReady \/ CloseOld \/ Top \/ DialSucceeds \/ DialFails
             \/ Backoff \/ Install \/ TempReady \/ CallbackReturns \/ MarkReady
             \/ ShutCheck \/ ShutClose \/ EventStep
      PROVE  AnswersAreReal'
  <2>1. loop' # "deliver"
    BY <1>7 DEF EventStep, ReadEvent, Dispatched,
                LeaveReadLoop, NotReady, CloseOld, Top, DialSucceeds, DialFails, Backoff,
       AfterBackoff, Install, TempReady, CallbackReturns, MarkReady, ShutCheck, ShutClose, At
  <2>. QED BY <1>7, <2>1, ReconnectFrame DEF AnswersAreReal
<1>8. ASSUME NEW c \in CallbackCalls, CallbackSends(c) PROVE ExecutedOnce'
  <2>1. /\ c \in AllCalls /\ pc[c] = "idle" /\ pc' = [pc EXCEPT ![c] = "waitReady"]
        /\ UNCHANGED <<wire, inbox, executed, ch, loop, got>>
    BY <1>8 DEF CallbackSends, EnterWaitReady, Goto, AllCalls, net_vars
  <2>. QED BY <2>1, <1>1, <1>2 DEF CallPc, Unnumbered
<1>9. ASSUME LoopStep \/ EventStep PROVE ExecutedOnce'
  BY <1>5, <1>6, <1>7, <1>8, <1>9, ReadFrame, ReconnectFrame DEF LoopStep
<1>10. ASSUME NEW u \in Closers, CloseStore(u) \/ CloseStep(u) PROVE ExecutedOnce'
  <2>1. UNCHANGED <<pc, inbox, loop, got, ch>>
    BY <1>10, CloseFrame
  <2>2. CASE CloseConn(u)
    BY <2>1, <2>2, SentDrop DEF CloseConn, TypeOK, NetOK
  <2>3. CASE UNCHANGED <<wire, executed>>
    BY <2>1, <2>3, <1>1, <1>5
  <2>. QED BY <1>10, <2>2, <2>3 DEF CloseStore, CloseStep, CloseCheck, CloseClosed, outside, net_vars
<1>11. ASSUME NEW k \in Conns, Execute(k) \/ Break(k) PROVE ExecutedOnce'
  <2>1. CASE Break(k)
    BY <2>1, ChromeFrame, SentDrop DEF Break
  <2>. QED BY <1>11, <2>1, SentExecute
<1>12. ASSUME UNCHANGED vars PROVE ExecutedOnce'
  BY <1>12, <1>1, <1>5 DEF vars, shared, net_vars, call_vars, loop_vars, hold_vars
<1>. QED BY <1>3, <1>4, <1>9, <1>10, <1>11, <1>12 DEF Next

\* No command is carried out twice, and every answer comes from Chrome.
THEOREM CommandsExecuteOnce == Spec => []ExecutedOnce
<1>1. Init => ExecutedOnce
  BY ClientAssumption DEF Init, ExecutedOnce, SentOnce, AnswersAreReal
<1>. QED BY <1>1, ExecutedOnceStep, ClientInvariant, PTL DEF Spec

-----------------------------------------------------------------------------
(* The refinement *)

\* What a step of one call means to the service.
LEMMA PhaseStep ==
    ASSUME TypeOK, NEW c \in AllCalls, NEW to \in CallPc, pc' = [pc EXCEPT ![c] = to]
    PROVE  Phase' = [Phase EXCEPT ![c] = IF to = "idle" THEN "new"
                                         ELSE IF to = "done" THEN "returned" ELSE "called"]
BY DEF Phase, TypeOK, CallsOK, CallPc

LEMMA CommandsInit == Init => Commands!Init
BY DEF Init, Phase, Commands!Init

\* Requests carried out, whether answered or not.
LEMMA CommandsExecute ==
    ASSUME TypeOK, ExecutedOnce, NEW k \in Conns, NEW S \in SUBSET wire[k], CarriedOut(S),
           UNCHANGED <<pc, out>>
    PROVE  Commands!Next
<1> USE DEF TypeOK, NetOK, CallsOK
<1> DEFINE T == {q.cmd : q \in S}
<1>1. T \in SUBSET AllCalls
  BY DEF Request
<1>2. ASSUME NEW c \in T PROVE executed[c] = 0 /\ pc[c] # "idle"
  BY DEF ExecutedOnce, SentOnce, Unnumbered, Request
<1>3. executed' = [c \in AllCalls |-> IF c \in T THEN 1 ELSE executed[c]]
  BY <1>2 DEF CarriedOut
<1>4. Commands!Execute(T)
  BY <1>1, <1>2, <1>3 DEF Commands!Execute, Phase
<1>. QED BY <1>1, <1>4 DEF Commands!Next

LEMMA CommandsStep == IInv /\ ExecutedOnce /\ [Next]_vars => [Commands!Next]_(Commands!vars)
<1> SUFFICES ASSUME IInv, ExecutedOnce, [Next]_vars PROVE Commands!Next \/ UNCHANGED Commands!vars
  OBVIOUS
<1> USE ClientAssumption DEF IInv, Commands!vars
<1>1. ASSUME UNCHANGED <<pc, executed, out>> PROVE UNCHANGED Commands!vars
  BY <1>1 DEF Phase
<1>2. ASSUME NEW c \in AllCalls, EnterWaitReady(c), UNCHANGED <<executed, out>>
      PROVE  Commands!Next
  <2>1. pc[c] = "idle" /\ pc' = [pc EXCEPT ![c] = "waitReady"]
    BY <1>2 DEF EnterWaitReady, Goto
  <2>2. Commands!Call(c)
    BY <1>2, <2>1, PhaseStep DEF Commands!Call, Phase, CallPc
  <2>. QED BY <2>2 DEF Commands!Next
<1>3. ASSUME NEW c \in AllCalls, NEW from \in CallPc \ {"idle", "done"},
             NEW to \in CallPc \ {"idle", "done"}, Goto(c, from, to), UNCHANGED <<executed, out>>
      PROVE  UNCHANGED Commands!vars
  <2>1. pc[c] = from /\ pc' = [pc EXCEPT ![c] = to]
    BY <1>3 DEF Goto
  <2>2. UNCHANGED Phase
    BY <2>1, PhaseStep DEF Phase, TypeOK, CallsOK
  <2>. QED BY <1>3, <2>2 DEF Phase
<1>4. ASSUME NEW c \in AllCalls, NEW from \in CallPc \ {"idle", "done"},
             NEW r \in Outcome \ {"none"}, Return(c, from, r), UNCHANGED executed,
             r \in {"result", "error"} => executed[c] = 1
      PROVE  Commands!Next
  <2>1. pc[c] = from /\ pc' = [pc EXCEPT ![c] = "done"] /\ out' = [out EXCEPT ![c] = r]
    BY <1>4 DEF Return, Goto
  <2>2. Commands!Return(c, r)
    BY <1>4, <2>1, PhaseStep DEF Commands!Return, Commands!Answers, Phase, CallPc
  <2>. QED BY <2>2 DEF Commands!Next, Commands!Answers, Commands!Failures, Outcome
<1>5. ASSUME NEW c \in AllCalls, StartCall(c) PROVE Commands!Next
  BY <1>5, <1>2, CallFrame DEF StartCall
<1>6. ASSUME NEW c \in AllCalls, CallStep(c) PROVE Commands!Next \/ UNCHANGED Commands!vars
  <2>1. UNCHANGED executed
    BY <1>6, CallFrame DEF CallStep, Write
  <2>2. ASSUME PassReady(c) \/ AssignId(c) \/ Register(c) \/ Write(c)
        PROVE  UNCHANGED Commands!vars
    BY <2>1, <2>2, <1>3 DEF PassReady, AssignId, Register, Write, CallPc
  <2>3. ASSUME Receive(c) PROVE Commands!Next
    <3>1. ch[c] # NoResp /\ Return(c, "wait", ch[c].kind)
      BY <2>3 DEF Receive
    <3>2. ch[c].kind \in Outcome \ {"none"}
      BY <3>1 DEF TypeOK, CallsOK, Response, Lost, Outcome
    <3>3. ch[c].kind \in {"result", "error"} => executed[c] = 1
      BY <3>1 DEF OwnAnswer, ExecutedOnce, AnswersAreReal, Lost
    <3>. QED BY <2>1, <3>1, <3>2, <3>3, <1>4 DEF CallPc
  <2>4. ASSUME Expire(c) PROVE Commands!Next \/ UNCHANGED Commands!vars
    BY <2>1, <2>4, <1>3, <1>4 DEF Expire, CtxDone, CallPc, Outcome
  <2>5. ASSUME GiveUpClosed(c) \/ Unregister(c) PROVE Commands!Next
    BY <2>1, <2>5, <1>4 DEF GiveUpClosed, SeesClosed, Unregister, CallPc, Outcome
  <2>. QED BY <1>6, <2>2, <2>3, <2>4, <2>5 DEF CallStep
<1>7. ASSUME NEW c \in CallbackCalls, CallbackSends(c) PROVE Commands!Next
  BY <1>7, <1>2 DEF CallbackSends, AllCalls, net_vars
<1>8. ASSUME LoopStep \/ EventStep PROVE Commands!Next \/ UNCHANGED Commands!vars
  BY <1>1, <1>7, <1>8, ReadFrame, ReconnectFrame DEF LoopStep
<1>9. ASSUME NEW u \in Closers, CloseStore(u) \/ CloseStep(u)
      PROVE  Commands!Next \/ UNCHANGED Commands!vars
  <2>1. UNCHANGED <<pc, out>>
    BY <1>9, CloseFrame
  <2>2. CASE CloseConn(u)
    BY <2>1, <2>2, CommandsExecute DEF CloseConn, Drop, TypeOK, NetOK
  <2>3. CASE UNCHANGED executed
    BY <2>1, <2>3, <1>1
  <2>. QED BY <1>9, <2>2, <2>3 DEF CloseStore, CloseStep, CloseCheck, CloseClosed, outside, net_vars
<1>10. ASSUME NEW k \in Conns, Execute(k) \/ Break(k) PROVE Commands!Next
  <2>1. \E S \in SUBSET wire[k] : CarriedOut(S)
    BY <1>10 DEF Execute, Break, Drop
  <2>. QED BY <1>10, <2>1, ChromeFrame, CommandsExecute
<1>11. ASSUME UNCHANGED vars PROVE UNCHANGED Commands!vars
  BY <1>11, <1>1 DEF vars, shared, net_vars, call_vars
<1>. QED BY <1>5, <1>6, <1>8, <1>9, <1>10, <1>11 DEF Next

\* Every behaviour of the client, reconnections and all, is one of the
\* at-most-once command service.
THEOREM ClientImplementsCommands == Spec => ImplementsCommands
BY CommandsInit, CommandsStep, ClientInvariant, CommandsExecuteOnce, PTL
   DEF Spec, ImplementsCommands, Commands!Spec
=============================================================================
