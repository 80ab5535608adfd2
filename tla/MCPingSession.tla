---------------------------- MODULE MCPingSession ----------------------------
(* PingSession for TLC: two sessions, enough for one that runs while the    *)
(* handle names another one, and for an end that clears a handle not its    *)
(* own.                                                                     *)
EXTENDS PingSession
=============================================================================
