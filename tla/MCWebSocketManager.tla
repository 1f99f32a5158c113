------------------------- MODULE MCWebSocketManager -------------------------
(* WebSocketManager for TLC: two emitting threads, of which the timer emits *)
(* twice: enough for either queue to be full when the next event comes.     *)
EXTENDS WebSocketManager

CONSTANTS timer, reader

MCSources == {timer, reader}
MCMaxEvents == [s \in MCSources |-> IF s = timer THEN 2 ELSE 1]
=============================================================================
