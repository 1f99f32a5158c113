\* One request at a time; everything may fail but the reader's punctuality.
SPECIFICATION Spec
CONSTANTS
    c1 = c1
    c2 = c2
    Callers <- TwoCallers
    MaxSessions = 3
    MaxChunks = 3
    Overlap = FALSE
    Faults <- PunctualFaults
SYMMETRY CallerSymmetry
INVARIANTS
    RawFirst StatusTruthful SessionSafe LogFaithful DownstreamInOrder LoudFailure
