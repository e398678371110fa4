---------------------------- MODULE MCRecording ----------------------------
(* Instances of recordings for TLC. *)
EXTENDS RecordingProps

CONSTANTS r1, r2, A, B

\* Both record the session A, or the second one a session of its own.
SharedOrOwn == {[r \in {r1, r2} |-> A], [r \in {r1, r2} |-> IF r = r1 THEN A ELSE B]}

\* The first one alone records A.
Alone == {[r \in {r1} |-> A]}
=============================================================================
