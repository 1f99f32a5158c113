---------------------------- MODULE MCDutMonitor ----------------------------
(* DutMonitor for TLC: a board that prints two tests, and one more when the *)
(* port is opened again, or one test each time, of three.                   *)
EXTENDS DutMonitor

MCBoards == {<<2, 1>>, <<1, 1, 1>>}
=============================================================================
