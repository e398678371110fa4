---------------------------- MODULE MCEventStream ----------------------------
(* Instances of event subscriptions for TLC. *)
EXTENDS EventStreamProps, EventDomains

Blocked   == {p \in {ProfileOf(d) : d \in Domains} : p.blocking}
BothKinds == {ProfileOf(Page), ProfileOf(Tracing)}
=============================================================================
