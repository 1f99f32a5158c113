\* Writes share an mtime and sessions a second, and the clock may step back.
SPECIFICATION Spec
CONSTANTS
    SegmentBytes = 2
    TotalBytes = 2
    MaxSuffix = 2
    SecondLength = 100
    MinStep = 0
    MaxTime = 1
    MaxBytes = 7
    MaxChunk = 3
    MaxMissed = 1
    Faults <- NamesFaults
INVARIANTS
    DiskBound DurableInTime
PROPERTY SyncedStays
