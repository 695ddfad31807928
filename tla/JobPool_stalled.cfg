\* Two described threads and one interactive one, any of which may fail to start and the
\* described ones get stuck, and a frame thread that offloads and cancels.
CONSTANTS
    j1 = j1
    j2 = j2
    k1 = k1
    d1 = d1
    d2 = d2
    o1 = o1
    Jobs <- MCJobs
    Interactive <- MCInteractive
    RdJob <- MCRdJob
    RdOpaque <- MCRdOpaque
    WaitLimit = 1
    Native = TRUE
    SinkBound = 1
    WindowBound = 0
SPECIFICATION StalledPoolSpec
INVARIANTS
    PoolTypeOK
    OwedIsCarried
    ExecutedOnce
PROPERTIES
    JobsSettle
CHECK_DEADLOCK FALSE
