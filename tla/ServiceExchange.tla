---------------------------- MODULE ServiceExchange ----------------------------
(***************************************************************************)
(* One conversation of the library with a Python service: PythonHttpRunner *)
(* (src/runtime/python_http_runner.cpp) asks /health and then /predict,    *)
(* PythonServiceValidator (src/validation/python_service_validator.cpp)    *)
(* asks /health, /metadata and /predict.  Both send every request up to    *)
(* kRetryAttempts times while the failure is one they retry.               *)
(*                                                                         *)
(* The service is another process: it starts, loads, stops and is replaced *)
(* at any time, answers late, slowly or never, and goes on with a request  *)
(* whose client has given up.                                              *)
(***************************************************************************)
EXTENDS Naturals, Sequences

CONSTANTS
    Conversations,  \* the endpoints in the order each caller asks them
    kRetryAttempts  \* how often one request is sent at most

Endpoints == {"/health", "/metadata", "/predict"}

ASSUME ConversationsAssumption ==
    \A asked \in Conversations :
        /\ asked \in Seq(Endpoints)
        /\ Len(asked) > 0
        /\ \A i \in 1..Len(asked) : asked[i] = "/predict" <=> i = Len(asked)
ASSUME AttemptsAssumption == kRetryAttempts \in Nat \ {0}

VARIABLES
    service,   \* "down", "loading", "ready", or "other": a different algorithm
    stages,    \* the conversation this is
    stage,     \* the position in stages
    attempt,   \* how often the request of this stage failed before
    asking,    \* a request is on its way and unanswered
    arriving,  \* bytes of its answer are coming in, each in time
    late,      \* predict requests given up by the client, still at the service
    executed,  \* how often the service of the card ran this prediction
    strange,   \* how often a different algorithm ran it
    last,      \* what the last request came to
    outcome    \* how the conversation ended, or "none"

progress == <<stages, stage, attempt, asking, last, outcome>>
vars == <<service, progress, arriving, late, executed, strange>>

(***************************************************************************)
(* What one request can come to.  "Ok" is an answer that passes the checks *)
(* of its endpoint; "ServiceFailed" is /predict answering ok=false, and    *)
(* "Thrown" a field of the wrong JSON type, which ends in an exception.    *)
(***************************************************************************)
Retryable == {"ServiceUnavailable", "ServiceTimeout", "ServiceNotReady"}
Final     == {"ServiceHttpError", "ServiceResponseInvalid", "ServiceFailed",
              "ServiceMetadataMismatch", "ServiceOutputSchemaInvalid",
              "GoldenCaseFailed", "InputSchemaInvalid", "InvalidArgument", "Thrown"}
Codes     == {"Ok"} \cup Retryable \cup Final

IsRetryableAlways(code) == code # "Ok"
IsRetryableStatusCode(code) == code \in Retryable

Current == stages[stage]

(***************************************************************************)
(* Only the validator asks /metadata, and only it validates outputs here;  *)
(* those of a run are validated by ExecutionCoordinator.                   *)
(***************************************************************************)
Validating == "/metadata" \in {stages[i] : i \in 1..Len(stages)}

Init ==
    /\ service \in {"down", "loading", "ready", "other"}
    /\ stages \in Conversations
    /\ stage = 1
    /\ attempt = 0
    /\ asking = FALSE
    /\ arriving = FALSE
    /\ late = 0
    /\ executed = 0
    /\ strange = 0
    /\ last = "none"
    /\ outcome = "none"

(***************************************************************************)
(* Before the first /predict the validator loads and checks the golden     *)
(* request of the package and the input schema it must satisfy; without    *)
(* them nothing is sent.                                                   *)
(***************************************************************************)
GoldenRequestFails ==
    /\ outcome = "none" /\ ~asking
    /\ Validating
    /\ Current = "/predict" /\ attempt = 0
    /\ outcome' \in {"GoldenCaseFailed", "InputSchemaInvalid", "Thrown"}
    /\ UNCHANGED <<service, stages, stage, attempt, asking, arriving,
                   late, executed, strange, last>>

Ask ==
    /\ outcome = "none" /\ ~asking
    /\ asking' = TRUE
    /\ UNCHANGED <<service, stages, stage, attempt, arriving,
                   late, executed, strange, last, outcome>>

(***************************************************************************)
(* The answer begins to come in, stops coming, or comes on.  What the card *)
(* limits is each read (ConfigureTimeouts sets the timeouts of httplib,    *)
(* which count from the last byte), so that no timeout ends a request      *)
(* whose answer keeps arriving.                                            *)
(***************************************************************************)
Trickle ==
    /\ asking
    /\ service # "down"
    /\ arriving' = ~arriving
    /\ UNCHANGED <<service, progress, late, executed, strange>>

Close(code) ==
    /\ asking' = FALSE
    /\ arriving' = FALSE
    /\ last' = code
    /\ UNCHANGED stages

(***************************************************************************)
(* RetryUntilOk: the next stage after an answer that passes, the same      *)
(* request again after a failure that is retried, the end otherwise.       *)
(***************************************************************************)
ConcludeOffByOne(code) ==
    /\ Close(code)
    /\ IF code = "Ok" /\ stage < Len(stages)
       THEN stage' = stage + 1 /\ attempt' = 0 /\ UNCHANGED outcome
       ELSE IF IsRetryableStatusCode(code) /\ attempt + 2 < kRetryAttempts
       THEN attempt' = attempt + 1 /\ UNCHANGED <<stage, outcome>>
       ELSE outcome' = code /\ UNCHANGED <<stage, attempt>>

ConcludeOneMore(code) ==
    /\ Close(code)
    /\ IF code = "Ok" /\ stage < Len(stages)
       THEN stage' = stage + 1 /\ attempt' = 0 /\ UNCHANGED outcome
       ELSE IF IsRetryableStatusCode(code) /\ attempt < kRetryAttempts
       THEN attempt' = attempt + 1 /\ UNCHANGED <<stage, outcome>>
       ELSE outcome' = code /\ UNCHANGED <<stage, attempt>>

ConcludeUncounted(code) ==
    /\ Close(code)
    /\ IF code = "Ok" /\ stage < Len(stages)
       THEN stage' = stage + 1 /\ attempt' = 0 /\ UNCHANGED outcome
       ELSE IF code = "ServiceTimeout" THEN UNCHANGED <<stage, attempt, outcome>>
       ELSE IF IsRetryableStatusCode(code) /\ attempt + 1 < kRetryAttempts
       THEN attempt' = attempt + 1 /\ UNCHANGED <<stage, outcome>>
       ELSE outcome' = code /\ UNCHANGED <<stage, attempt>>

Conclude(code) ==
    /\ Close(code)
    /\ IF code = "Ok" /\ stage < Len(stages)
       THEN stage' = stage + 1 /\ attempt' = 0 /\ UNCHANGED outcome
       ELSE IF IsRetryableStatusCode(code) /\ attempt + 1 < kRetryAttempts
       THEN attempt' = attempt + 1 /\ UNCHANGED <<stage, outcome>>
       ELSE outcome' = code /\ UNCHANGED <<stage, attempt>>

(***************************************************************************)
(* What /health and /metadata can answer: the identity of the service is   *)
(* compared with the card before its readiness is looked at, and           *)
(* /metadata must name the backend type as well.                           *)
(***************************************************************************)
HealthAnswers ==
    CASE service = "loading" -> {"ServiceNotReady"}
      [] service = "ready"   -> {"Ok", "ServiceNotReady"}
      [] service = "other"   -> {"ServiceResponseInvalid"}
      [] service = "down"    -> {}

MetadataAnswers ==
    {"ServiceMetadataMismatch"} \cup (IF service = "other" THEN {} ELSE {"Ok"})

(***************************************************************************)
(* Any server can also answer an HTTP status of its own, an answer that is *)
(* not what the protocol says, or a gateway's 503 or 504.                  *)
(***************************************************************************)
BadAnswers == {"ServiceHttpError", "ServiceResponseInvalid",
               "ServiceNotReady", "ServiceTimeout"}

Answered ==
    /\ asking
    /\ Current # "/predict"
    /\ service # "down"
    /\ \E code \in BadAnswers \cup
            (IF Current = "/health" THEN HealthAnswers ELSE MetadataAnswers) :
            Conclude(code)
    /\ UNCHANGED <<service, late, executed, strange>>

(***************************************************************************)
(* A prediction that was run and answered.  The answer of a different      *)
(* algorithm is recognised by its identity; a failure the service reports  *)
(* is its own code in a run, and an invalid answer for the validator.      *)
(***************************************************************************)
PredictAnswersUnchecked ==
    BadAnswers \cup {"Ok", "ServiceFailed", "Thrown"}
PredictAnswers ==
    BadAnswers \cup {"Thrown"} \cup
    (IF service # "ready" THEN {}
     ELSE IF Validating THEN {"Ok", "ServiceOutputSchemaInvalid"}
     ELSE {"Ok", "ServiceFailed"})

Ran ==
    IF service = "ready" THEN executed' = executed + 1 /\ UNCHANGED strange
    ELSE strange' = strange + 1 /\ UNCHANGED executed

Predicted ==
    /\ asking
    /\ Current = "/predict"
    /\ service \in {"ready", "other"}
    /\ \E code \in PredictAnswers : Conclude(code)
    /\ Ran
    /\ UNCHANGED <<service, late>>

(***************************************************************************)
(* A service that is not ready refuses, and so can one that is.            *)
(***************************************************************************)
PredictRefused ==
    /\ asking
    /\ Current = "/predict"
    /\ service # "down"
    /\ \E code \in BadAnswers : Conclude(code)
    /\ UNCHANGED <<service, late, executed, strange>>

(***************************************************************************)
(* Nothing listens, the connection is lost or times out before the service *)
(* has the request, or the answer to a question that runs nothing does not *)
(* come, or not to its end.                                                *)
(***************************************************************************)
NotDeliveredIfDown ==
    /\ asking
    /\ service = "down"
    /\ \E code \in {"ServiceUnavailable", "ServiceTimeout"} : Conclude(code)
    /\ UNCHANGED <<service, late, executed, strange>>

NotDelivered ==
    /\ asking
    /\ \E code \in {"ServiceUnavailable", "ServiceTimeout"} : Conclude(code)
    /\ UNCHANGED <<service, late, executed, strange>>

(***************************************************************************)
(* The card checks of the registry accept any URL; HttpClient refuses one  *)
(* that is not http://host[:port], or fails on its port, before it sends   *)
(* anything.                                                               *)
(***************************************************************************)
InvalidUrl ==
    /\ asking
    /\ attempt = 0
    /\ \E code \in {"InvalidArgument", "Thrown"} : Conclude(code)
    /\ UNCHANGED <<service, late, executed, strange>>

(***************************************************************************)
(* The read fails, which is taken for a timeout, while the service has the *)
(* request: it may still run it.                                           *)
(***************************************************************************)
GivenUp ==
    /\ asking
    /\ Current = "/predict"
    /\ service # "down"
    /\ Conclude("ServiceTimeout")
    /\ late' = late + 1
    /\ UNCHANGED <<service, executed, strange>>

RunLate ==
    /\ late > 0
    /\ service \in {"ready", "other"}
    /\ late' = late - 1
    /\ Ran
    /\ UNCHANGED <<service, progress, arriving>>

(***************************************************************************)
(* The service changes; one that goes down forgets what it had.            *)
(***************************************************************************)
ServiceChanges ==
    /\ service' \in {"down", "loading", "ready", "other"} \ {service}
    /\ late' = IF service' = "down" THEN 0 ELSE late
    /\ arriving' = (arriving /\ service' # "down")
    /\ UNCHANGED <<progress, executed, strange>>

Next ==
    \/ GoldenRequestFails \/ Ask \/ Trickle
    \/ Answered \/ Predicted \/ PredictRefused
    \/ InvalidUrl \/ NotDelivered \/ GivenUp
    \/ RunLate \/ ServiceChanges

(***************************************************************************)
(* The client runs, and a request whose answer stays away for the timeout  *)
(* of the card is ended; one whose answer keeps arriving is not.  Of the   *)
(* service nothing is assumed.  (What the client itself sends is finite,   *)
(* so that its writes end or time out.)                                    *)
(***************************************************************************)
ReadTimesOut == ~arriving /\ NotDelivered

Fairness == WF_vars(Ask) /\ WF_vars(ReadTimesOut)

Spec     == Init /\ [][Next]_vars
FairSpec == Spec /\ Fairness
-----------------------------------------------------------------------------
(***************************************************************************)
(* Types of the variables.                                                 *)
(***************************************************************************)
TypeOK ==
    /\ service \in {"down", "loading", "ready", "other"}
    /\ stages \in Conversations
    /\ stage \in 1..Len(stages)
    /\ attempt \in 0..kRetryAttempts-1
    /\ asking \in BOOLEAN /\ arriving \in BOOLEAN
    /\ late \in Nat /\ executed \in Nat /\ strange \in Nat
    /\ last \in Codes \cup {"none"}
    /\ outcome \in Codes \cup {"none"}

(***************************************************************************)
(* A prediction is run, or still waits to be run, at most once for every   *)
(* time it was sent, so that a conversation without a retry runs it at     *)
(* most once, and none runs it more than kRetryAttempts times, also after  *)
(* the client has given up.                                                *)
(***************************************************************************)
RunsOnlyWhatWasSent ==
    LET sent == IF Current # "/predict" THEN 0
                ELSE IF asking \/ outcome # "none" THEN attempt + 1 ELSE attempt
    IN  executed + strange + late + (IF asking /\ Current = "/predict" THEN 1 ELSE 0)
            <= sent

(***************************************************************************)
(* A conversation that ends well was answered by the algorithm of the card,*)
(* which ran the prediction, although the process behind the address may   *)
(* have changed after it reported that it was ready.                       *)
(***************************************************************************)
OkWasRunByTheAlgorithm == outcome = "Ok" => executed > 0

(***************************************************************************)
(* The client gives up for a transient reason only after every attempt.    *)
(***************************************************************************)
GivesUpAfterAllAttempts == outcome \in Retryable => attempt + 1 = kRetryAttempts

(***************************************************************************)
(* An answer that is not a transient failure is never asked for again.     *)
(***************************************************************************)
NoQuestionAfterAnAnswer ==
    [][asking' /\ ~asking => attempt = 0 \/ last \in Retryable]_vars

(***************************************************************************)
(* Liveness: the conversation ends, whatever the service does, unless from *)
(* some time on one and the same request stays open for ever because bytes *)
(* of its answer come again and again: nothing else, no retry and no       *)
(* replacement of the service, can keep the caller.                        *)
(***************************************************************************)
ConversationEnds ==
    <>(outcome # "none") \/ (<>[]asking /\ []<>arriving)

(***************************************************************************)
(* What the specification of the library says of /predict: it is called    *)
(* only when the service is ready, that is, never after the service has    *)
(* just said that it is not.                                               *)
(***************************************************************************)
PredictOnlyWhenReady ==
    [][asking' /\ ~asking /\ Current = "/predict" => last # "ServiceNotReady"]_vars
=============================================================================
