--------------------------- MODULE EventStreamProps ---------------------------
(***************************************************************************)
(* Correctness properties of event subscriptions.                          *)
(***************************************************************************)
EXTENDS EventStream

\* What the handlers of a stream have passed on and its peer got or may get.
Hand(s)   == IF inHand[s] = 0 THEN <<>> ELSE <<inHand[s]>>
Passed(s) == sent[s] \o Hand(s) \o queue[s]

\* The events a stream's registrations entitle it to, of those whose handlers
\* have been called.
Due(s) == {i \in 1..Len(log) :
              /\ log[i].method \in regs[s] /\ since[s][log[i].method] < i
              /\ Forwards(s, log[i])
              /\ ~(i = Len(log) /\ s \in Range(todo))}

\* It has not begun to leave.
Serving(s) == pc[s] \in {"idle", "register", "select", "sending"}

Increasing(q) == \A i, j \in DOMAIN q : i < j => q[i] < q[j]

\* A peer sees events in the order Chrome sent them and none twice, whatever
\* registers, leaves and overflows meanwhile (dispatchEvent, :504-517).
InOrder == \A s \in Subs : Increasing(Passed(s))

\* A stream has one event in its hand, while it sends it.
InHand == \A s \in Subs : pc[s] = "sending" <=> inHand[s] # 0

\* A stream registers for the events of its domain in turn, and for no other.
Registering ==
    \A s \in Subs :
        /\ regs[s] \subseteq Wanted(s)
        /\ pc[s] = "register" => \E k \in 0..(Cardinality(Wanted(s)) - 1) : regs[s] = 1..k
        /\ \A m \in regs[s] : since[s][m] <= Len(log)

\* A handler is called once for an event, which came after its registration; the
\* last event is not passed on before.
Dispatched ==
    /\ IsInjective(todo)
    /\ \A s \in Range(todo) :
          LET m == Last(log).method IN
          /\ log # <<>> /\ m \in Wanted(s) /\ Len(log) \notin Range(Passed(s))
          /\ Serving(s) => m \in regs[s] /\ since[s][m] < Len(log)

\* A peer sees only what it subscribed to: events of its domain's handlers and,
\* for the handlers that look at it, of the session it named.
Subscribed ==
    \A s \in Subs : \A i \in Range(Passed(s)) :
        /\ i <= Len(log)
        /\ log[i].method \in Wanted(s)
        /\ Profile(s).bySession => request[s].session \in {NoSession, log[i].session}

\* Types, what is registered and dispatched, and what was asked for.
Inv == TypeOK /\ InHand /\ Registering /\ Dispatched /\ Subscribed

\* Nothing is lost that need not be: a blocking handler loses no event from its
\* registration on, a dropping one loses none while all that is due fits in its
\* channel, and what is lost is always the newest.  Nor is anything passed on to a
\* stream that it is not entitled to.
Complete ==
    \A s \in Subs : Serving(s) =>
        /\ Range(Passed(s)) \subseteq Due(s)
        /\ Blocks(s) \/ Cardinality(Due(s)) <= Cap => Due(s) \subseteq Range(Passed(s))
        /\ \A i \in Due(s) :
              Cardinality({j \in Due(s) : j <= i}) <= Cap => i \in Range(Passed(s))

\* A stream that returned has left no handler behind, and one that leaves takes
\* nobody else's handler with it (On's unregister, :299-309).
OnlyOwnHandlers ==
    /\ \A s \in Subs : pc[s] \in {"idle", "close", "done"} => regs[s] = {}
    /\ \A m \in Methods : /\ IsInjective(handlers[m])
                          /\ Range(handlers[m]) = {s \in Subs : m \in regs[s]}

\* A stream whose peer left returns, however full its channel and however stuck
\* the read loop is on it or on another: unregistering waits for nobody.
LeaversReturn == \A s \in Subs : cancelled[s] ~> pc[s] \in {"idle", "done"} \/ panicked

\* Only a blocking domain's stream holds up commands, and only when its peer
\* stops reading; any number of dropping streams may be stuck.
CommandsFlow ==
    (\A s \in Slow : ~Profile(s).blocking) /\ answer = "waiting"
        ~> answer = "delivered" \/ clientDone \/ panicked

-----------------------------------------------------------------------------
(* What a comment says of subscriptions and the code does not do *)

\* cdpclient.go:293 `Returns a function to unregister the handler': a handler
\* does not send to the channel of a stream that has unregistered it and closed
\* the channel.
UnregisteredIsSilent == ~panicked
=============================================================================
