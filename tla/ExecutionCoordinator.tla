-------------------------- MODULE ExecutionCoordinator --------------------------
(***************************************************************************)
(* ExecutionCoordinator::Run and RouteForAgent                             *)
(* (src/runtime/execution_coordinator.cpp) in the processes that the       *)
(* commands run and agent-run start (src/cli/main.cpp).  Each process      *)
(* works on the registry as it was when it started, reads the schema       *)
(* files of a package when it needs them, and appends one line to the      *)
(* audit log, which all of them share.                                     *)
(*                                                                         *)
(* Meanwhile other commands change the registry, package owners edit their *)
(* schemas, and processes are killed.  What the runner does between Load   *)
(* and its result is ServiceExchange; here it is the choice of a result.   *)
(***************************************************************************)
EXTENDS Naturals, Sequences, FiniteSetsExt

CONSTANTS
    Procs,         \* processes that can run at one time
    Services,      \* keys of the python_http_service backend
    Models,        \* keys of the onnx backend
    Payloads,      \* inputs and outputs that are told apart
    NoOutputs,     \* the empty object of a failure
    SchemaFiles,   \* the input and output schema files a package can have, each
                   \* as the payloads it accepts
    FirstStatuses, \* the statuses algorithms have at first
    Requests,      \* what callers ask for
    MaxCalls,      \* bound: the calls of a behaviour
    MaxChanges,    \* bound: the changes of the registry and the schemas
    MayStop,       \* whether a process may be killed
    LogMayFail,    \* whether the log may refuse a line
    MayThrow       \* whether the JSON and YAML values a runner converts may be
                   \* of another type than it takes for granted

Keys == Services \cup Models

RunRequests   == [kind : {"run"}, key : Keys, inputs : Payloads]
AgentRequests == [kind : {"agent"}, suited : SUBSET Services, inputs : Payloads]

ASSUME KeysAssumption == Services \cap Models = {}
ASSUME PayloadsAssumption == NoOutputs \notin Payloads
ASSUME SchemaFilesAssumption ==
    SchemaFiles \subseteq [in  : SUBSET (Payloads \cup {NoOutputs}),
                           out : SUBSET (Payloads \cup {NoOutputs})]
ASSUME RequestsAssumption == Requests \subseteq RunRequests \cup AgentRequests
ASSUME BoundsAssumption == MaxCalls \in Nat /\ MaxChanges \in Nat
ASSUME FlagsAssumption ==
    MayStop \in BOOLEAN /\ LogMayFail \in BOOLEAN /\ MayThrow \in BOOLEAN

VARIABLES
    life,       \* the status of each key in the registry file
    schemas,    \* the schema files of each package now
    changes,    \* how many changes there were
    pc,         \* where each process stands
    call,       \* its call: a number and the request
    snapshot,   \* the registry it loaded
    key,        \* the algorithm it runs
    result,     \* the result it holds, or has answered with
    log,        \* the audit log: what each line says, and of which call
    seen        \* history: the schema files since its call began

vars == <<life, schemas, changes, pc, call, snapshot, key, result, log, seen>>

Registry == INSTANCE AlgorithmLifecycle

ASSUME FirstStatusesAssumption == FirstStatuses \subseteq Registry!LifeStatus

NoKey == 0
NoCall == [number |-> 0, request |-> [kind |-> "none"]]

(***************************************************************************)
(* A result names the call it answers by its request_id, which a service   *)
(* may echo wrongly: "own" or "other".                                     *)
(***************************************************************************)
Failure(code) ==
    [ok |-> FALSE, code |-> code, id |-> "own", outputs |-> NoOutputs]
Success(id, outputs) ==
    [ok |-> TRUE, code |-> "none", id |-> id, outputs |-> outputs]
NoResult == Failure("none")

calls == Max({call[p].number : p \in Procs})

Init ==
    /\ life \in [Keys -> FirstStatuses]
    /\ schemas \in [Keys -> SchemaFiles]
    /\ changes = 0
    /\ pc = [p \in Procs |-> "idle"]
    /\ call = [p \in Procs |-> NoCall]
    /\ snapshot = [p \in Procs |-> [k \in Keys |-> "absent"]]
    /\ key = [p \in Procs |-> NoKey]
    /\ result = [p \in Procs |-> NoResult]
    /\ log = <<>>
    /\ seen = [p \in Procs |-> {}]

(***************************************************************************)
(* main loads the registry and hands the request to the coordinator.       *)
(***************************************************************************)
Start(p, r) ==
    /\ pc[p] \in {"idle", "answered"}
    /\ calls < MaxCalls
    /\ call' = [call EXCEPT ![p] = [number |-> calls + 1, request |-> r]]
    /\ snapshot' = [snapshot EXCEPT ![p] = life]
    /\ pc' = [pc EXCEPT ![p] = IF r.kind = "agent" THEN "routing" ELSE "checking"]
    /\ key' = [key EXCEPT ![p] = IF r.kind = "agent" THEN NoKey ELSE r.key]
    /\ result' = [result EXCEPT ![p] = NoResult]
    /\ seen' = [seen EXCEPT ![p] = {schemas}]
    /\ UNCHANGED <<life, schemas, changes, log>>

(***************************************************************************)
(* RouteForAgent considers the active services that suit the condition and *)
(* takes one of them; which one is the subject of AgentRouting.  Without   *)
(* one it answers at once.                                                 *)
(***************************************************************************)
CandidatesOfAnyStatus(p) == call[p].request.suited
Candidates(p) == {k \in call[p].request.suited : snapshot[p][k] = "active"}

RouteRecordingNoMatch(p) ==
    /\ pc[p] = "routing"
    /\ IF Candidates(p) = {}
       THEN pc' = [pc EXCEPT ![p] = "finishing"] /\ UNCHANGED key
       ELSE /\ pc' = [pc EXCEPT ![p] = "checking"]
            /\ \E k \in Candidates(p) : key' = [key EXCEPT ![p] = k]
    /\ UNCHANGED <<life, schemas, changes, call, snapshot, result, log, seen>>

Route(p) ==
    /\ pc[p] = "routing"
    /\ IF Candidates(p) = {}
       THEN /\ pc' = [pc EXCEPT ![p] = "answered"]
            /\ result' = [result EXCEPT ![p] = Failure("AlgorithmNotFound")]
            /\ UNCHANGED key
       ELSE /\ pc' = [pc EXCEPT ![p] = "checking"]
            /\ \E k \in Candidates(p) : key' = [key EXCEPT ![p] = k]
            /\ UNCHANGED result
    /\ UNCHANGED <<life, schemas, changes, call, snapshot, log, seen>>

Ends(p, res) ==
    /\ pc' = [pc EXCEPT ![p] = "finishing"]
    /\ result' = [result EXCEPT ![p] = res]

(***************************************************************************)
(* Run looks the key up in what the process loaded, and validates the      *)
(* inputs with the schema file as it is now.                               *)
(***************************************************************************)
Refusal(p) ==
    IF snapshot[p][key[p]] = "absent" THEN "AlgorithmNotFound"
    ELSE IF snapshot[p][key[p]] # "active" THEN "AlgorithmNotActive"
    ELSE IF call[p].request.inputs \notin schemas[key[p]].in THEN "InputSchemaInvalid"
    ELSE "none"

Check(p) ==
    /\ pc[p] = "checking"
    /\ IF Refusal(p) # "none" THEN Ends(p, Failure(Refusal(p)))
       ELSE pc' = [pc EXCEPT ![p] = "loading"] /\ UNCHANGED result
    /\ UNCHANGED <<life, schemas, changes, call, snapshot, key, log, seen>>

(***************************************************************************)
(* The factory knows both backends.  Only OnnxRunner::Load can fail.       *)
(***************************************************************************)
Load(p) ==
    /\ pc[p] = "loading"
    /\ \/ pc' = [pc EXCEPT ![p] = "running"] /\ UNCHANGED result
       \/ key[p] \in Models /\ Ends(p, Failure("OnnxLoadFailed"))
    /\ UNCHANGED <<life, schemas, changes, call, snapshot, key, log, seen>>

(***************************************************************************)
(* The runner returns.  A service chooses the request_id of its answer,    *)
(* and the outputs also of a failure.                                      *)
(***************************************************************************)
RunFails(p) ==
    /\ pc[p] = "running"
    /\ \E id \in IF key[p] \in Services THEN {"own", "other"} ELSE {"own"},
          out \in IF key[p] \in Services THEN Payloads \cup {NoOutputs} ELSE {NoOutputs} :
            Ends(p, [Failure("RunnerFailed") EXCEPT !.id = id, !.outputs = out])
    /\ UNCHANGED <<life, schemas, changes, call, snapshot, key, log, seen>>

RunReturns(p) ==
    /\ pc[p] = "running"
    /\ \E id \in IF key[p] \in Services THEN {"own", "other"} ELSE {"own"},
          out \in Payloads :
            result' = [result EXCEPT ![p] = Success(id, out)]
    /\ pc' = [pc EXCEPT ![p] = "validating"]
    /\ UNCHANGED <<life, schemas, changes, call, snapshot, key, log, seen>>

(***************************************************************************)
(* Nothing between the runner and main catches what nlohmann::json and     *)
(* yaml-cpp throw: of a service, a field of its answer can have another    *)
(* type; of a model, a value of its configuration files, which Load and    *)
(* Run convert, or a text where Run expects numbers.                       *)
(***************************************************************************)
Throws(p) ==
    /\ MayThrow
    /\ pc[p] = "running" \/ (pc[p] = "loading" /\ key[p] \in Models)
    /\ pc' = [pc EXCEPT ![p] = "answered"]
    /\ result' = [result EXCEPT ![p] = Failure("InvalidArgument")]
    /\ UNCHANGED <<life, schemas, changes, call, snapshot, key, log, seen>>

(***************************************************************************)
(* Outputs of a success are validated with the output schema as it is now; *)
(* a failure that replaces a success does not show them.                   *)
(***************************************************************************)
ValidateOutputsUnread(p) ==
    /\ pc[p] = "validating"
    /\ Ends(p, result[p])
    /\ UNCHANGED <<life, schemas, changes, call, snapshot, key, log, seen>>

ValidateOutputs(p) ==
    /\ pc[p] = "validating"
    /\ Ends(p, IF result[p].outputs \in schemas[key[p]].out THEN result[p]
               ELSE Failure("OutputSchemaInvalid"))
    /\ UNCHANGED <<life, schemas, changes, call, snapshot, key, log, seen>>

(***************************************************************************)
(* finalize appends a line and hands the result on, whether or not the     *)
(* line was written; the process prints it and ends.                       *)
(***************************************************************************)
Line(p) == [call |-> call[p].number, key |-> key[p], result |-> result[p]]

FinalizeLoggingFailuresTwice(p) ==
    /\ pc[p] = "finishing"
    /\ log' = IF result[p].ok THEN Append(log, Line(p)) ELSE log \o <<Line(p), Line(p)>>
    /\ pc' = [pc EXCEPT ![p] = "recorded"]
    /\ UNCHANGED <<life, schemas, changes, call, snapshot, key, result, seen>>

Finalize(p) ==
    /\ pc[p] = "finishing"
    /\ \/ log' = Append(log, Line(p))
       \/ LogMayFail /\ UNCHANGED log
    /\ pc' = [pc EXCEPT ![p] = "recorded"]
    /\ UNCHANGED <<life, schemas, changes, call, snapshot, key, result, seen>>

Answer(p) ==
    /\ pc[p] = "recorded"
    /\ pc' = [pc EXCEPT ![p] = "answered"]
    /\ UNCHANGED <<life, schemas, changes, call, snapshot, key, result, log, seen>>

(***************************************************************************)
(* The process is killed; what it had is gone.                             *)
(***************************************************************************)
Stop(p) ==
    /\ MayStop
    /\ pc[p] \notin {"idle", "answered"}
    /\ pc' = [pc EXCEPT ![p] = "idle"]
    /\ key' = [key EXCEPT ![p] = NoKey]
    /\ result' = [result EXCEPT ![p] = NoResult]
    /\ UNCHANGED <<life, schemas, changes, call, snapshot, log, seen>>

(***************************************************************************)
(* Other commands change the registry; owners of packages their schemas.   *)
(***************************************************************************)
ChangeRegistry ==
    /\ changes < MaxChanges
    /\ changes' = changes + 1
    /\ \E k \in Keys : Registry!Change(k)
    /\ UNCHANGED <<schemas, pc, call, snapshot, key, result, log, seen>>

EditSchemas ==
    /\ changes < MaxChanges
    /\ changes' = changes + 1
    /\ \E k \in Keys, files \in SchemaFiles : schemas' = [schemas EXCEPT ![k] = files]
    /\ seen' = [p \in Procs |-> seen[p] \cup {schemas'}]
    /\ UNCHANGED <<life, pc, call, snapshot, key, result, log>>

Step(p) ==
    \/ Route(p) \/ Check(p) \/ Load(p)
    \/ RunFails(p) \/ RunReturns(p) \/ Throws(p)
    \/ ValidateOutputs(p) \/ Finalize(p) \/ Answer(p)

Next ==
    \/ \E p \in Procs :
        \/ \E r \in Requests : Start(p, r)
        \/ Step(p) \/ Stop(p)
    \/ ChangeRegistry \/ EditSchemas

Spec == Init /\ [][Next]_vars
-----------------------------------------------------------------------------
Results == [ok : BOOLEAN,
            code : {"none", "AlgorithmNotFound", "AlgorithmNotActive",
                    "InputSchemaInvalid", "OnnxLoadFailed", "RunnerFailed",
                    "OutputSchemaInvalid", "InvalidArgument"},
            id : {"own", "other"}, outputs : Payloads \cup {NoOutputs}]

(***************************************************************************)
(* Types of the variables.                                                 *)
(***************************************************************************)
TypeOK ==
    /\ life \in [Keys -> Registry!LifeStatus]
    /\ schemas \in [Keys -> SchemaFiles]
    /\ changes \in 0..MaxChanges
    /\ pc \in [Procs -> {"idle", "routing", "checking", "loading", "running",
                         "validating", "finishing", "recorded", "answered"}]
    /\ call \in [Procs -> [number : 1..MaxCalls, request : Requests] \cup {NoCall}]
    /\ snapshot \in [Procs -> [Keys -> Registry!LifeStatus]]
    /\ key \in [Procs -> Keys \cup {NoKey}]
    /\ result \in [Procs -> Results]
    /\ log \in Seq([call : 1..MaxCalls, key : Keys, result : Results])
    /\ seen \in [Procs -> SUBSET [Keys -> SchemaFiles]]

Answered(p) == pc[p] = "answered"
LinesOf(n) == {i \in DOMAIN log : log[i].call = n}

(***************************************************************************)
(* A caller that gets outputs as a success gets them from an algorithm     *)
(* that was active in the registry its process loaded; and the inputs were *)
(* accepted by an input schema, the outputs by an output schema, that the  *)
(* package had during the call, whatever was edited meanwhile.             *)
(***************************************************************************)
SuccessIsChecked ==
    \A p \in Procs : Answered(p) /\ result[p].ok =>
        /\ snapshot[p][key[p]] = "active"
        /\ \E s \in seen[p] : call[p].request.inputs \in s[key[p]].in
        /\ \E s \in seen[p] : result[p].outputs \in s[key[p]].out

(***************************************************************************)
(* RouteForAgent selects, and Run looks up again what was selected: a call *)
(* that was routed to an algorithm is never refused for its status.        *)
(***************************************************************************)
RoutedIsNotRefused ==
    \A p \in Procs :
        Answered(p) /\ call[p].request.kind = "agent" /\ key[p] # NoKey =>
            result[p].code \notin {"AlgorithmNotFound", "AlgorithmNotActive"}

(***************************************************************************)
(* The audit log never contradicts an answer: of a call there is at most   *)
(* one line, and once the caller has an answer the line says the same.  A  *)
(* process that is killed after it wrote its line leaves a line of a call  *)
(* that nobody got an answer to, and no second one.                        *)
(***************************************************************************)
AuditAgrees ==
    /\ \A n \in 1..MaxCalls : Cardinality(LinesOf(n)) <= 1
    /\ \A p \in Procs : Answered(p) =>
        \A i \in LinesOf(call[p].number) : log[i] = Line(p)

(***************************************************************************)
(* What the specification of the library says of the audit log: every call *)
(* is recorded, that is, once its caller has an answer.                    *)
(***************************************************************************)
EveryCallIsRecorded ==
    \A p \in Procs : Answered(p) => LinesOf(call[p].number) # {}
=============================================================================
