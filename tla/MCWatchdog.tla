---------------------------- MODULE MCWatchdog ----------------------------
(* Two backends of this host, alike.                                       *)
EXTENDS Watchdog, TLC

CONSTANTS b1, b2

MCPids == {b1, b2}
=============================================================================
