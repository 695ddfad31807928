\* One area, two runs of it at most, a launch in between and two archive generations,
\* under fairness of the threads and of the screen's frames.
CONSTANTS
    None = None
    Areas = {"a"}
    Generations = {1, 2}
    Archive <- TwoArchives
    SegmentBytes = 4
    CoalesceGap = 1
    Slots = {1, 2}
    MaxStarts = 2
    MaxDeletes = 1
    MaxLaunches = 1
SPECIFICATION FairSpec
CHECK_DEADLOCK FALSE
INVARIANTS
    TypeOK
    PublishedIsWhole
    CompleteIsListed
    TransfersTheQuote
    WholeRowIsWhole
PROPERTIES
    RowsAreAnswered
