CONSTANTS
    Keys = {1, 2}
    Paths = {11, 12}
    Revisions = {1}
    NoEntry = NoEntry
    NoCard = NoCard
    Procs = {p1, p2}
    CardAt <- MCCardAt
    Commands <- MCAllCommands
    InitialFiles <- MCDraftOrNoFile
    MayOverlap = FALSE
    MayStop = TRUE
    OpenMayFail = TRUE
    WriteMayFail = TRUE
SPECIFICATION Spec
INVARIANT RegisterActivateCanBeRepeated
PROPERTY SerialLifecycle
