CONSTANTS
    Keys = {1, 2}
    Paths = {11, 12, 13}
    Revisions = {1}
    NoEntry = NoEntry
    NoCard = NoCard
    CardKeys <- MCOwnKeys
    InitialFiles <- MCAnyFile
    OpenMayFail = TRUE
    WriteMayFail = TRUE
SPECIFICATION Spec
INVARIANTS TypeOK AcknowledgedIsNotStale MemoryIsNotBehind
PROPERTIES DurableLifecycle NothingPendingOneEdge
