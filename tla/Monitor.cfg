\* Openings that fail or not, a fan-out that loses events, connections that break.
SPECIFICATION Spec
CONSTANTS
    MaxTurns = 2
    Boards <- MCBoards
    MaxParts = 2
    PipeMax = 1
    WireMax = 1
    MaxFills = 2
    None = None
CHECK_DEADLOCK FALSE
INVARIANTS TypeOK ShowsNode OneSocket
