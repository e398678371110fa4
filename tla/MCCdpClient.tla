----------------------------- MODULE MCCdpClient -----------------------------
(* Instances of the CDP client for TLC. *)
EXTENDS CdpClientProps
=============================================================================
