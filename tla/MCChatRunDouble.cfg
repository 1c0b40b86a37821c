\* Two sends of one session.
CONSTANTS
    m1 = m1
    m2 = m2
    None = None
    Sends = {m1, m2}
    Watchers = {}
    Aborts = {}
    Leaving = {m1, m2}
    MaxEvents <- UnequalRuns
    QueueSize = 3
SPECIFICATION Spec
INVARIANTS OneRun
CHECK_DEADLOCK FALSE
