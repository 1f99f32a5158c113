-------------------------- MODULE MCCaptureCommand --------------------------
(* CaptureCommand for TLC: two callers, interchangeable.                    *)
EXTENDS CaptureCommand, TLC

CONSTANTS c1, c2

TwoCallers == {c1, c2}
(* The second capture's command prints its own text.                       *)
SecondAlike == {<<<<2, 1>>, 2>>}

CallerSymmetry == Permutations(TwoCallers)
=============================================================================
