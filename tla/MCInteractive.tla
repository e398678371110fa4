---------------------------- MODULE MCInteractive ----------------------------
(* Instances of the interactive service for TLC. *)
EXTENDS InteractiveProps

CONSTANTS m1, m2

OneOrTwo == {{m1}, {m1, m2}}
=============================================================================
