\* The same site with one errand at a time.
CONSTANTS
    None = None
    Stamps = {1, 3, 4}
    CollectedAt <- Identity
    Named = {1, 3}
    Cap = 1
    DecodedCeiling = 2
    ArchiveCeiling = 1
    SpillCeiling = 1
    MaxFrames = 2
    Lookahead = None
    MoveBound = 3
SPECIFICATION FairSpec
CHECK_DEADLOCK FALSE
PROPERTIES DecodesCease
