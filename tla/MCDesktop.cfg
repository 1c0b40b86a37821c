\* The desktop build, two attempts on one action: what survives without row locks.
CONSTANTS
    r1 = r1
    a1 = a1
    a2 = a2
    s1 = s1
    c1 = c1
    Runs = {r1}
    Attempts = {a1,a2}
    Scanners = {}
    Sessions = {c1}
    Home <- OneHome
    Doubts = {}
    Proposals <- Agreeing
    None = None
    TicketTTL = 2
    ExecLease = 1
    RecoveryLease = 1
    MaxClock = 2
    MaxVersion = 4
SYMMETRY Symmetry
SPECIFICATION DesktopSpec
INVARIANTS DesktopOneGovernedCall
CHECK_DEADLOCK FALSE
