\* Three jobs, a wait of two, one window, a worker and a lane installed at the same time.
CONSTANTS
    j1 = j1
    j2 = j2
    j3 = j3
    Jobs = {j1, j2, j3}
    WaitLimit = 2
    Native = FALSE
    SinkBound = 3
    WindowBound = 1
SPECIFICATION FairFunnelSpec
INVARIANTS
    TypeOK
    Custody
PROPERTIES
    RetiresOnlyItsOwn
    OldestLeavesFirst
    KeepsContract
CHECK_DEADLOCK FALSE
