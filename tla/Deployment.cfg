CONSTANTS
    Keys = {1, 2, 3}
    Paths = {11, 12}
    Revisions = {"u1", "u2"}
    NoEntry = NoEntry
    NoCard = NoCard
    Procs = {p1, p2}
    ServiceKeys = {1, 2}
    Misread <- MCMisread
    NotHttp = NotHttp
    Nothing = Nothing
    Commands <- MCCommands
    AuthorTexts <- MCAuthorTexts
    InitialRegistries <- MCRegistries
    MaxEdits = 1
CHECK_DEADLOCK FALSE
SYMMETRY Symmetry
SPECIFICATION Spec
INVARIANTS TypeOK RegisteredWasChecked
PROPERTIES DeploysTheCard BootstrapReadsItsOwnCard
