CONSTANTS
    Procs = {p1, p2}
    Services = {1}
    Models = {3}
    Payloads = {"a"}
    NoOutputs = "none"
    SchemaFiles <- MCSchemaFiles
    Requests <- MCRequests
    FirstStatuses = {"active", "absent"}
    MaxCalls = 2
    MaxChanges = 1
    MayStop = TRUE
    LogMayFail = TRUE
    MayThrow = TRUE
SPECIFICATION Spec
INVARIANTS TypeOK SuccessIsChecked RoutedIsNotRefused AuditAgrees
CHECK_DEADLOCK FALSE
SYMMETRY MCSymmetry
