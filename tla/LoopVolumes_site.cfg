\* One site, two volumes under three addresses; room for two decoded volumes, two errands,
\* one archive on the heap and one on the medium.
CONSTANTS
    None = None
    Stamps = {1, 3, 4}
    CollectedAt <- Identity
    Named = {1, 3}
    Cap = 2
    DecodedCeiling = 2
    ArchiveCeiling = 1
    SpillCeiling = 1
    MaxFrames = 2
    Lookahead = None
    MoveBound = 3
SPECIFICATION FairSpec
CHECK_DEADLOCK FALSE
INVARIANTS
    TypeOK
    OneErrandPerMark
    ReleasedBaseHasWayBack
PROPERTIES
    ListedFramesKeepAForm
    DownloadsFinish
    ReaderGetsGates
