-------------------------------- MODULE Leases --------------------------------
(***************************************************************************)
(* What internal/server/interactive promises a client: a bounded number of *)
(* clients are admitted, each gets a browser of its own with nobody else's *)
(* state in it, and keeps that state until it resets it or leaves.         *)
(***************************************************************************)
EXTENDS Naturals, FiniteSets

CONSTANT Clients    \* Session streams

VARIABLES
    max,        \* clients admitted at once; fixed
    phase,      \* client -> "new", "pending", "open" or "over"
    seen        \* client -> the clients whose state its browser holds

vars == <<max, phase, seen>>

Admitted == {c \in Clients : phase[c] \in {"pending", "open"}}

Init ==
    /\ max \in Nat \ {0}
    /\ phase = [c \in Clients |-> "new"]
    /\ seen = [c \in Clients |-> {}]

Become(c, from, to) == phase[c] = from /\ phase' = [phase EXCEPT ![c] = to]

\* Only a client that finds room is admitted.
Admit(c) ==
    /\ Become(c, "new", "pending")
    /\ Cardinality(Admitted) < max
    /\ UNCHANGED <<max, seen>>

\* Only when all the slots are taken is a client turned away.
TurnAway(c) ==
    /\ Become(c, "new", "over")
    /\ Cardinality(Admitted) >= max
    /\ UNCHANGED <<max, seen>>

Withdraw(c) == Become(c, "pending", "over") /\ UNCHANGED <<max, seen>>

\* A lease begins with a browser nobody has used.
Grant(c) ==
    /\ Become(c, "pending", "open")
    /\ UNCHANGED <<max, seen>>

Use(c) ==
    /\ phase[c] = "open"
    /\ seen' = [seen EXCEPT ![c] = {c}]
    /\ UNCHANGED <<max, phase>>

Wipe(c) ==
    /\ phase[c] = "open"
    /\ seen' = [seen EXCEPT ![c] = {}]
    /\ UNCHANGED <<max, phase>>

Leave(c) ==
    /\ Become(c, "open", "over")
    /\ seen' = [seen EXCEPT ![c] = {}]
    /\ UNCHANGED max

Next == \E c \in Clients :
    Admit(c) \/ TurnAway(c) \/ Withdraw(c) \/ Grant(c) \/ Use(c) \/ Wipe(c) \/ Leave(c)

Spec == Init /\ [][Next]_vars
=============================================================================
