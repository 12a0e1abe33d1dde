CONSTANTS
    Procs = {p1}
    Services = {1}
    Models = {}
    Payloads = {"a"}
    NoOutputs = "none"
    SchemaFiles <- MCSchemaFiles
    Requests <- MCRunRequests
    FirstStatuses = {"active", "absent"}
    MaxCalls = 1
    MaxChanges = 1
    MayStop = FALSE
    LogMayFail = FALSE
    MayThrow = TRUE
SPECIFICATION Spec
INVARIANT EveryCallIsRecorded
CHECK_DEADLOCK FALSE
