\* Clients that come, type and hang up, a serial reader, and close().
SPECIFICATION FairSpec
CONSTANTS
    c1 = c1
    c2 = c2
    Clients = {c1, c2}
    Typists = {c1}
    QueueMax = 2
    MaxChunks = 3
CHECK_DEADLOCK FALSE
INVARIANTS TypeOK DropsCounted
PROPERTIES FeedSpec ClientsGo LoggingGoesOn
