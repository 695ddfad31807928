\* The page's queue, the native lane, and a native process whose free thread never started.
CONSTANTS
    outer = outer
    inner = inner
    loose = loose
    other = other
    None = None
    Payloads <- MCPayloads
    Declared <- MCDeclared
    Struct <- MCStruct
    Inner <- MCInner
    Builds <- EveryBuild
SPECIFICATION DiscardSpec
INVARIANTS
    TypeOK
    LedgerIsExact
    QueueKeepsTheLoopAwake
PROPERTIES
    EveryDiscardIsFreed
CHECK_DEADLOCK FALSE
