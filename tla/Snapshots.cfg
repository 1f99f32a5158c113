\* Every order of lines, with sessions that end, go on and start anew.
SPECIFICATION Spec
CONSTANTS
    Cores = {"0"}
    Keys = {"MemFree"}
    Radios = {"2G"}
    Values = {v1, v2}
    Headers <- SameCount
    WaitLines = 2
    HistoryMax = 2
    MaxLines = 4
    MaxBoards = 3
    MaxSessions = 2
    None = None
    Absent = Absent
CHECK_DEADLOCK FALSE
SYMMETRY ValueSymmetry
INVARIANTS TypeOK FoldsAgree HistoryComplete NothingLingers
