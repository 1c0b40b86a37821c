\* Two requests of one browser, one of another that is opened meanwhile.
CONSTANTS
    q1 = q1
    q2 = q2
    o = o
    b1 = b1
    b2 = b2
    w1 = w1
    w2 = w2
    w3 = w3
    Requests = {q1, q2, o}
    Opens = {o}
    Browsers = {b1, b2}
    Of <- TwoOfOne
    Workers = {w1, w2, w3}
    On <- Spread
    BootRetries = 1
    MaxCookies = 2
    MaxPairs = 2
SYMMETRY Symmetry
SPECIFICATION Spec
INVARIANTS TypeOK GenerationNamesCookie Bounded RefreshSentOnce RefreshIsNeeded NoStandstill
PROPERTIES OnlyRefusedReplaced
CHECK_DEADLOCK FALSE
