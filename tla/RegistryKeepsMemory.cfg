CONSTANTS
    Keys = {1, 2}
    Paths = {11, 12}
    Revisions = {1}
    NoEntry = NoEntry
    NoCard = NoCard
    CardKeys <- MCOwnKeys
    InitialFiles <- MCNoFile
    OpenMayFail = TRUE
    WriteMayFail = FALSE
SPECIFICATION Spec
PROPERTY FailedSaveKeepsEntries
