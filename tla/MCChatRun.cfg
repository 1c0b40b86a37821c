\* Two sends, one client that comes back, one abort; a queue of one.
CONSTANTS
    m1 = m1
    m2 = m2
    None = None
    Sends = {m1, m2}
    Watchers = {w1}
    Aborts = {b1}
    Leaving = {w1}
    MaxEvents <- UnequalRuns
    QueueSize = 1
SPECIFICATION FairSpec
INVARIANTS StreamInOrder EndedComplete
PROPERTIES ImplementsContract AttachEnds
CHECK_DEADLOCK FALSE
