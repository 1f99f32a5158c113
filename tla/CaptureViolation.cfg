\* A board that echoes what is typed.
SPECIFICATION Spec
CONSTANTS
    c1 = c1
    c2 = c2
    Callers <- TwoCallers
    Nobody = Nobody
    OutLines = 1
    Alike = {}
    MaxCaptures = 1
    MaxTyped = 0
    Faults = {"echo"}
CHECK_DEADLOCK FALSE
SYMMETRY CallerSymmetry
INVARIANT OutputComplete
