CONSTANTS
    Keys = {1, 2}
    Paths = {11, 12}
    Revisions = {1}
    NoEntry = NoEntry
    NoCard = NoCard
    Procs = {p1, p2}
    CardAt <- MCCardAt
    Commands <- MCOverlappingCommands
    InitialFiles <- MCNoFile
    MayOverlap = TRUE
    MayStop = TRUE
    OpenMayFail = TRUE
    WriteMayFail = TRUE
SPECIFICATION FairSpec
INVARIANT TypeOK
PROPERTIES PublishesItsOwnFuture EveryCommandEnds
