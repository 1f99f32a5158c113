\* A tty that does not fail while it is read: no false alarm, no lost line,
\* and every request and every chunk comes to its end.
SPECIFICATION FairSpec
CONSTANTS
    c1 = c1
    c2 = c2
    Callers <- TwoCallers
    MaxSessions = 2
    MaxChunks = 2
    Overlap = FALSE
    Faults = {"ttyClose", "logCreate", "logWrite", "logSync"}
INVARIANTS
    ClosesCleanly
PROPERTIES CallsReturn ReadIsLogged
