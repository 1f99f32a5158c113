SPECIFICATION Spec
CONSTANTS
    c1 = c1
    c2 = c2
    Callers <- TwoCallers
    MaxSessions = 3
    MaxChunks = 1
    Overlap = TRUE
    Faults = {}
SYMMETRY CallerSymmetry
INVARIANT SessionHasRawLog
