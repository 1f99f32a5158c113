\* Two emitting threads, two clients that come and go, and the shutdown.
SPECIFICATION FairSpec
CONSTANTS
    timer = timer
    reader = reader
    c1 = c1
    c2 = c2
    Clients = {c1, c2}
    Sources <- MCSources
    MaxEvents <- MCMaxEvents
    QueueMax = 1
CHECK_DEADLOCK FALSE
INVARIANTS TypeOK NoGap LiveInOrder
PROPERTIES FeedSpec EventsGetOut
