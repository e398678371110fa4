----------------------------- MODULE CdpCommands -----------------------------
(***************************************************************************)
(* What internal/cdpclient promises about a command, whatever happens to   *)
(* connections: Chrome carries it out at most once and only after it was   *)
(* asked for, the call returns at most once, and an answer from Chrome     *)
(* (a result or a protocol error) is returned only for a command Chrome    *)
(* has carried out.  A failed call says nothing: the command may have been *)
(* carried out, may still be, or may never be.                             *)
(***************************************************************************)
EXTENDS Naturals

CONSTANT Commands

Answers  == {"result", "error"}
Failures == {"lost", "write", "ctx", "closed"}

VARIABLES
    phase,     \* "new", "called" or "returned"
    executed,  \* how often Chrome has carried a command out
    outcome    \* what the call returned

vars == <<phase, executed, outcome>>

TypeOK ==
    /\ phase \in [Commands -> {"new", "called", "returned"}]
    /\ executed \in [Commands -> 0..1]
    /\ outcome \in [Commands -> {"none"} \cup Answers \cup Failures]

Init ==
    /\ phase = [c \in Commands |-> "new"]
    /\ executed = [c \in Commands |-> 0]
    /\ outcome = [c \in Commands |-> "none"]

Call(c) ==
    /\ phase[c] = "new"
    /\ phase' = [phase EXCEPT ![c] = "called"]
    /\ UNCHANGED <<executed, outcome>>

\* One answer for one command, or several commands of a dying connection;
\* the caller may have given up by then.
Execute(S) ==
    /\ \A c \in S : phase[c] # "new" /\ executed[c] = 0
    /\ executed' = [c \in Commands |-> IF c \in S THEN 1 ELSE executed[c]]
    /\ UNCHANGED <<phase, outcome>>

Return(c, result) ==
    /\ phase[c] = "called"
    /\ result \in Answers => executed[c] = 1
    /\ phase' = [phase EXCEPT ![c] = "returned"]
    /\ outcome' = [outcome EXCEPT ![c] = result]
    /\ UNCHANGED executed

Next ==
    \/ \E c \in Commands : Call(c)
    \/ \E S \in SUBSET Commands : Execute(S)
    \/ \E c \in Commands : \E r \in Answers \cup Failures : Return(c, r)

Spec == Init /\ [][Next]_vars
=============================================================================
