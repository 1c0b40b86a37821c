SPECIFICATION Spec
CONSTANTS
    m1 = m1
    m2 = m2
    t1 = t1
    t2 = t2
    p1 = p1
    p2 = p2
    i1 = i1
    i2 = i2
    app1 = app1
    Managers = {m1, m2}
    Threads = {t1, t2}
    Main = main
    Instances = {i1, i2}
    AppOf <- OneApp
    Pids = {p1, p2}
    MaxSpawns = 2
    MaxFaults = 2
    NoThread = none
    NoManager = none
    Stranger = stranger
INVARIANTS TypeOK Accounted OneRuntime ReadyIsRecorded
PROPERTY OnlyLateStrangers
SYMMETRY Symmetry
