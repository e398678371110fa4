---------------------------- MODULE MCChromeProxy ----------------------------
(* Instances of chrome-proxy for TLC. *)
EXTENDS ChromeProxyProps
=============================================================================
