\* One render under the fairness of the event loops, a lane without batches beside it.
CONSTANTS
    j1 = j1
    t1 = t1
    Jobs <- RenderOnly
    TileJobs <- NoBatch
    CanLend = TRUE
    WaitLimit = 1
    Native = FALSE
    SinkBound = 5
    WindowBound = 2
    GenBound = 2
SPECIFICATION FairPortSpec
PROPERTIES
    RendersSettle
    RepliesAreFreed
CHECK_DEADLOCK FALSE
