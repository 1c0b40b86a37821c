SPECIFICATION FairSpec
CONSTANTS
    Turns = {t1, t2}
    Unbound = {t1}
    Clients = {c1}
    MaxItems = 1
    After = {1}
    QueueSize = 2
    Watched = {t2}
    NoTurn = none
INVARIANTS TypeOK ToldIsStored Reachable
PROPERTIES ImplementsContract StreamsEnd
CHECK_DEADLOCK FALSE
