--------------------------- MODULE InteractiveProps ---------------------------
(***************************************************************************)
(* Correctness properties of the interactive service.                      *)
(***************************************************************************)
EXTENDS Interactive

InReady(m) == {i \in DOMAIN ready : ready[i] = m}

\* Nobody has a manager that somebody else has: it is in the channel once, or
\* held by one stream, or in the hands of one background goroutine.  Retries,
\* resets, cancellations and releases neither lose nor duplicate one (Acquire
\* and Release, :210-269), so `p.ready <- m' always finds room.
OneOwner ==
    \A m \in mgrs :
        LET background == IF job[m] # "none" /\ Holders(m) = {} THEN 1 ELSE 0
            idle == IF ~Pooled /\ ~sem THEN 1 ELSE 0
        IN Cardinality(InReady(m)) + Cardinality(Holders(m)) + background + idle = 1

\* A client is never in a Chrome that holds another client's state, and a
\* Chrome in the channel holds nobody's (Recycle `wiping all browser state').
CleanBrowser ==
    /\ \A c \in Clients : held[c] # NoManager /\ job[held[c]] = "none"
            => dirty[held[c]] \subseteq {c}
    /\ \A i \in DOMAIN ready : dirty[ready[i]] = {}

\* A manager whose launch failed is not put back: whoever takes one from the
\* channel has a browser (Release retries until it succeeds, :251-268).
ReadyHasBrowser == \A i \in DOMAIN ready : chrome[ready[i]] # "none"

\* The counter is the number of pending and active clients, and bounded.
CountsAdmitted ==
    Pooled => /\ clients = Cardinality({c \in Clients : pc[c] \notin {"idle", "done"}})
              /\ clients <= Cardinality(mgrs)

\* A stream has a manager from the grant until its release, alone, and waits for
\* it when it is recycled; whatever is in the browser is that stream's.
Leased == {"announce", "recv", "step", "reset", "release"}

HoldsAlone(c) ==
    /\ held[c] \in mgrs
    /\ \A d \in Clients : held[d] = held[c] => d = c
    /\ job[held[c]] \in IF pc[c] \in {"reset", "release"} THEN {"recycle", "launch"} ELSE {"none"}
    /\ dirty[held[c]] \subseteq {c}

Leasing == \A c \in Clients :
    /\ held[c] # NoManager <=> pc[c] \in Leased
    /\ held[c] # NoManager => HoldsAlone(c)
    /\ pc[c] = "release" => ~Pooled

\* What is in the channel is there once, wiped, and nobody is busy with it.
Queued == \A i \in DOMAIN ready :
    /\ Pooled /\ ready[i] \in mgrs
    /\ \A j \in DOMAIN ready : ready[j] = ready[i] => j = i
    /\ Holders(ready[i]) = {} /\ job[ready[i]] = "none" /\ dirty[ready[i]] = {}

\* A recycling that has torn down has wiped, and ends with a browser.
Wiped == \A m \in Managers :
    /\ job[m] # "none" => m \in mgrs
    /\ job[m] \notin {"none", "recycle"} => dirty[m] = {}
    /\ job[m] = "return" => chrome[m] # "none"

\* No manager is lost: a pool's is in the channel, with a stream or in the
\* background; the single one is with a stream, or idle and wiped.
Placed == \A m \in mgrs :
    /\ Pooled => InReady(m) # {} \/ Holders(m) # {} \/ job[m] # "none"
    /\ ~Pooled => IF sem THEN Holders(m) # {}
                         ELSE Holders(m) = {} /\ job[m] = "none" /\ dirty[m] = {}

\* `p.ready <- m' never waits: there is room for every manager that is returned.
RoomToReturn == \A m \in mgrs : job[m] = "return" => Len(ready) < Cardinality(mgrs)

\* Types, browsers in the channel and the counter, and where the managers are.
Inv ==
    /\ TypeOK
    /\ ReadyHasBrowser /\ CountsAdmitted
    /\ Leasing /\ Queued /\ Wiped /\ Placed

-----------------------------------------------------------------------------
\* How far a stream is, as its client sees it.
Stage(p) == CASE p = "idle"    -> "new"
              [] p = "waiting" -> "pending"
              [] p = "done"    -> "over"
              [] OTHER         -> "open"

Phase == [c \in Clients |-> Stage(pc[c])]

\* The state a client may meet in the browser it has.
Seen == [c \in Clients |-> IF held[c] = NoManager THEN {} ELSE dirty[held[c]]]

\* A single Chrome admits everybody, one after the other.
Slots == IF Pooled THEN Cardinality(mgrs) ELSE Cardinality(Clients)

Promise == INSTANCE Leases WITH
    max <- Slots, phase <- Phase, seen <- Seen

\* The service implements Leases: exclusive and clean browsers, and nobody
\* turned away while there is a slot.
ImplementsLeases == Promise!Spec

-----------------------------------------------------------------------------
(* Liveness, under FairSpec *)

\* Warm-ups that hang take managers from the pool, and the counter still admits
\* clients for them: some clients have to wait until others leave.
Crowded == clients > Cardinality({m \in mgrs : job[m] # "stuck"})

\* A pending client gets a Chrome although no other client ever leaves: with a
\* slot goes a manager that is ready or on its way (`stays PENDING and is handed
\* that Chrome the instant its recycle completes', :168-170), unless its warm-up
\* hangs.  A warm-up that hangs costs the pool its own manager and no other.
PendingServed ==
    \A c \in Clients :
        Pooled /\ pc[c] = "waiting" ~> pc[c] # "waiting" \/ Crowded \/ RootDone

\* `Retries so a throttled/transient failure can't permanently shrink the pool'
\* (:249-250): a manager that was released gets back to the channel, and so does one
\* that is warmed up, through any number of failures, or its warm-up hangs.
PoolRefills ==
    \A m \in Managers :
        Pooled /\ m \in mgrs /\ Holders(m) = {}
            ~> InReady(m) # {} \/ Holders(m) # {} \/ job[m] = "stuck" \/ RootDone

\* A stream whose peer left returns, even out of a step in a Chrome that died,
\* a reset or a release.
LeaversReturn == \A c \in Clients : cancelled[c] ~> pc[c] = "done"

=============================================================================
