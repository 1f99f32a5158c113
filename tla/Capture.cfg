\* The board may answer late, writes fail, others type, and the port be closed
\* meanwhile.
SPECIFICATION FairSpec
CONSTANTS
    c1 = c1
    c2 = c2
    Callers <- TwoCallers
    Nobody = Nobody
    OutLines = 1
    Alike <- SecondAlike
    MaxCaptures = 2
    MaxTyped = 1
    Faults = {"timeout", "write", "close"}
CHECK_DEADLOCK FALSE
INVARIANTS
    TypeOK CaptureRight CollectsForHolder
PROPERTY CapturesReturn
