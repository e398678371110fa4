---------------------------- MODULE MCRunContexts ----------------------------
(* Instances of runs and browser contexts for TLC, with the routes that the *)
(* domain servers' unary methods take.                                      *)
EXTENDS RunContextsProps, DomainCommands
=============================================================================
