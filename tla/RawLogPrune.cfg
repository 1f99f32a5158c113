\* Logs are pruned; no two writes share an mtime, no two sessions a second.
SPECIFICATION Spec
CONSTANTS
    SegmentBytes = 2
    TotalBytes = 3
    MaxSuffix = 2
    SecondLength = 1
    MinStep = 1
    MaxTime = 7
    MaxBytes = 6
    MaxChunk = 3
    MaxMissed = 1
    Faults <- AllErrors
INVARIANTS
    SegmentCounted SegmentsRetained
PROPERTY PrunesAtNeed
