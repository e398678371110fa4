---------------------------- MODULE MCNavigation ----------------------------
(* Instances of navigations for TLC. *)
EXTENDS NavigationProps
=============================================================================
