\* One render and one tile batch through two generations of workers.
CONSTANTS
    j1 = j1
    t1 = t1
    Jobs <- RenderAndBatch
    TileJobs <- Batch
    CanLend = TRUE
    WaitLimit = 1
    Native = FALSE
    SinkBound = 5
    WindowBound = 2
    GenBound = 2
SPECIFICATION PortSpec
INVARIANTS
    PortTypeOK
    SomethingWillCome
    LentWhileRead
CHECK_DEADLOCK FALSE
