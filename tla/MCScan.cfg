\* One attempt and two scanners on one action, every answer of the verifier.
CONSTANTS
    r1 = r1
    r2 = r2
    a1 = a1
    a2 = a2
    s1 = s1
    s2 = s2
    c1 = c1
    Runs = {r1}
    Attempts = {a1}
    Scanners = {s1, s2}
    Sessions = {c1}
    Home <- OneHome
    Doubts = {"effect_unknown", "error"}
    Proposals <- Disagreeing
    None = None
    TicketTTL = 2
    ExecLease = 1
    RecoveryLease = 1
    MaxClock = 2
    MaxVersion = 5
SYMMETRY Symmetry
SPECIFICATION Spec
INVARIANTS ClaimProvesSnapshot QuietAfterDelete
PROPERTIES ClosedRunsStay OneReading
CHECK_DEADLOCK FALSE
