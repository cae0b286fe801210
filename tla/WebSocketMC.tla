----------------------------- MODULE WebSocketMC ----------------------------
(* Small instances of WebSocket for TLC; the values of the constants are   *)
(* in ws.cfg.                                                              *)
EXTENDS WebSocket

=============================================================================
