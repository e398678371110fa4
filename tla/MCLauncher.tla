----------------------------- MODULE MCLauncher -----------------------------
(* Instances of chromerpc processes that start and sweep Chrome, for TLC.   *)
EXTENDS LauncherProps

\* Pools launch twice, other processes once.
LaunchesOf == [o \in Owners |-> IF o \in Pools THEN 2 ELSE 1]
=============================================================================
