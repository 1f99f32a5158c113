\* Readers, timers and requests interleave in every way.
SPECIFICATION FairSpec
CONSTANTS
    RingMax = 2
    MaxLines = 3
    MaxSessions = 2
CHECK_DEADLOCK FALSE
INVARIANTS
    LinesKept TimersRight ReplayFaithful
PROPERTY LineGetsOut
