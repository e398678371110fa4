--------------------------- MODULE ChromeProxyProps ---------------------------
(***************************************************************************)
(* Correctness properties of chrome-proxy.                                 *)
(***************************************************************************)
EXTENDS ChromeProxy

Consecutive(q) == \A i \in 1..(Len(q) - 1) : q[i + 1] = q[i] + 1

\* The latest call of a list; 0 is none.
Latest(q) == IF q = <<>> THEN 0 ELSE q[Len(q)]

\* Where a handler holds mu.
Holds(r) == pc[r] \in {"send", "recv", "record", "fail"}

\* mu has one holder, and whoever comes to a step has one to go (sendStep, runSteps).
OneAtATime ==
    /\ \A r \in Requests : Holds(r) <=> mu = r
    /\ \A r \in Requests : pc[r] \notin {"fail", "done"} => left[r] # 0

\* Between steps nothing is on the stream; during one, its question or its
\* answer, unless it broke (exchange).
OnTheStream ==
    /\ (\A r \in Requests : pc[r] # "recv") => asked = <<>> /\ answers = <<>>
    /\ asked # <<>> => stream = "open"
    /\ \A r \in Requests : pc[r] = "recv" =>
          /\ seq[r] = stepN /\ got[r] = 0
          /\ \/ asked = <<stepN>> /\ answers = <<>>
             \/ asked = <<>> /\ answers = <<stepN>>
             \/ asked = <<>> /\ answers = <<>>

\* Every request gets the answers to its own steps, although nobody compares
\* ids: between a Send and its Recv nobody else uses the stream (exchange).
OwnAnswers ==
    \A r \in Requests : pc[r] = "record" => seq[r] = stepN /\ got[r] \in {0, seq[r]}

\* The steps that should be in the history: those made but the one that is underway.
Underway == {r \in Requests : pc[r] \in {"recv", "record"}}
Made     == stepN - Cardinality(Underway)

\* The history has every step once, failed ones too, in the order they were
\* made, and only the oldest leave the ring (recordCall, appendCall).
NothingUnrecorded ==
    /\ Consecutive(calls)
    /\ Len(calls) = IF Made < MaxCalls THEN Made ELSE MaxCalls
    /\ Latest(calls) = Made

\* What a subscription has brought its page, or is about to with the snapshot.
Brought(p) == IF ws[p] = "seed" THEN seed[p].calls ELSE fed[p]

\* The messages lead from call a to call b, one at a time: upto[i] is the latest
\* call after the i-th of them.
Leads(msgs, a, b) ==
    \E upto \in [0..Len(msgs) -> 0..b] :
        /\ upto[0] = a /\ upto[Len(msgs)] = b
        /\ \A i \in 1..Len(msgs) :
              \/ msgs[i].calls = <<>> /\ upto[i] = upto[i - 1]
              \/ msgs[i].calls = <<upto[i]>> /\ upto[i] = upto[i - 1] + 1

\* A subscriber loses no update between the snapshot and the stream, nor later,
\* and gets none twice; one that falls behind is cut off, not skipped over
\* (subscribe `no update is lost', :159-160, and broadcast).
CaughtUp ==
    \A p \in Pages : ws[p] \in {"seed", "feed"} =>
        /\ ws[p] = "seed" => fed[p] = <<>>
        /\ Consecutive(Brought(p))
        /\ \E b \in 0..stepN : /\ Leads(queue[p], Latest(Brought(p)), b)
                               /\ p \in subs => b = Latest(calls)
        /\ p \in subs =>
              state = IF queue[p] # <<>> THEN queue[p][Len(queue[p])].state
                      ELSE IF ws[p] = "seed" THEN seed[p].state ELSE shown[p].state

\* A subscriber's channel is closed by its drop or by its cancel, once, and
\* nobody sends on it afterwards (broadcast, cancel).
ChannelsClosedOnce ==
    /\ ~panicked
    /\ \A p \in subs : ~chClosed[p] /\ ws[p] # "off"

\* Types, mu and the stream, the ring, and the channels.
Inv == TypeOK /\ OneAtATime /\ OnTheStream /\ NothingUnrecorded /\ ChannelsClosedOnce

-----------------------------------------------------------------------------
(* Liveness, under FairSpec *)

\* A request that runs steps returns, however stalled the dashboards are.
RequestsReturn == \A r \in Requests : pc[r] # "idle" ~> pc[r] = "done"

UpToDate(p) ==
    /\ shown[p].state = state
    /\ \A i \in DOMAIN calls : i = Len(calls) =>
           \E j \in DOMAIN shown[p].calls : shown[p].calls[j] = calls[i]

\* A page that reads ends up with the current state and the latest call on it.
PagesCatchUp ==
    \A p \in Pages : p \in readers =>
        <>[](nSubs[p] = MaxSubs /\ ws[p] = "off") \/ <>[]UpToDate(p)
=============================================================================
