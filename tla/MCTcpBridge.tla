----------------------------- MODULE MCTcpBridge -----------------------------
(* TcpBridge for TLC.                                                       *)
EXTENDS TcpBridge
=============================================================================
