\* Two attempts and one scanner on one action, also against the contract.
CONSTANTS
    r1 = r1
    r2 = r2
    a1 = a1
    a2 = a2
    s1 = s1
    s2 = s2
    c1 = c1
    Runs = {r1}
    Attempts = {a1, a2}
    Scanners = {s1}
    Sessions = {c1}
    Home <- OneHome
    Doubts = {}
    Proposals <- Agreeing
    None = None
    TicketTTL = 2
    ExecLease = 1
    RecoveryLease = 1
    MaxClock = 2
    MaxVersion = 4
SYMMETRY Symmetry
SPECIFICATION Spec
INVARIANTS TypeOK RowsAgree OneGovernedCall ToldIsDurable
PROPERTIES ImplementsContract
CHECK_DEADLOCK FALSE
