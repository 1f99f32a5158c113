--------------------------- MODULE MCSerialWorker ---------------------------
(* SerialWorker for TLC: two callers, interchangeable.                      *)
EXTENDS SerialWorker, TLC

CONSTANTS c1, c2

TwoCallers == {c1, c2}
CallerSymmetry == Permutations(TwoCallers)

PunctualFaults == FaultKinds \ {"slowReader"}
=============================================================================
