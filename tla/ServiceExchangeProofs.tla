------------------------- MODULE ServiceExchangeProofs -------------------------
(***************************************************************************)
(* Proofs about ServiceExchange, for every set of conversations that end   *)
(* with /predict and every bound on the attempts.                          *)
(*                                                                         *)
(* The client's half of a step is Conclude, whatever was answered: it is   *)
(* looked at once, and the actions add what the service has done.          *)
(***************************************************************************)
EXTENDS ServiceExchange, Integers, TLAPS

(***************************************************************************)
(* What the client knows of its own conversation: a request is on its way  *)
(* only until the end, an answer arrives only to a request, and a request  *)
(* is repeated only after a failure that may pass.                         *)
(***************************************************************************)
Client ==
    /\ asking => outcome = "none"
    /\ arriving => asking
    /\ outcome = "none" /\ ~asking => attempt = 0 \/ last \in Retryable

(***************************************************************************)
(* The inductive invariant: nothing has been run before the last stage, so *)
(* that the count of what was sent may begin with it.                      *)
(***************************************************************************)
IInv ==
    /\ TypeOK
    /\ Client
    /\ RunsOnlyWhatWasSent
    /\ OkWasRunByTheAlgorithm
    /\ GivesUpAfterAllAttempts

(***************************************************************************)
(* A conversation asks for the prediction last, and only last.             *)
(***************************************************************************)
LEMMA PredictIsLast ==
    ASSUME TypeOK
    PROVE  /\ Len(stages) \in Nat \ {0}
           /\ Current \in Endpoints
           /\ Current = "/predict" <=> stage = Len(stages)
  BY ConversationsAssumption DEF TypeOK, Current

(***************************************************************************)
(* The three ways in which RetryUntilOk and its callers go on.             *)
(***************************************************************************)
Advances(code) ==
    /\ code = "Ok" /\ stage < Len(stages)
    /\ stage' = stage + 1 /\ attempt' = 0 /\ outcome' = outcome

Repeats(code) ==
    /\ code \in Retryable /\ attempt + 1 < kRetryAttempts
    /\ attempt' = attempt + 1 /\ stage' = stage /\ outcome' = outcome

Ends(code) ==
    /\ code = "Ok" => stage = Len(stages)
    /\ code \in Retryable => attempt + 1 = kRetryAttempts
    /\ outcome' = code /\ stage' = stage /\ attempt' = attempt

(***************************************************************************)
(* Conclude does one of the three, and takes the request back.             *)
(***************************************************************************)
LEMMA ConcludeCases ==
    ASSUME TypeOK, NEW code \in Codes, Conclude(code)
    PROVE  /\ asking' = FALSE /\ arriving' = FALSE
           /\ last' = code /\ stages' = stages
           /\ Advances(code) \/ Repeats(code) \/ Ends(code)
  <1>1. /\ stage \in 1..Len(stages) /\ Len(stages) \in Nat
        /\ attempt \in 0..kRetryAttempts-1 /\ kRetryAttempts \in Nat
    BY PredictIsLast, AttemptsAssumption DEF TypeOK
  <1>2. "Ok" \notin Retryable
    BY DEF Retryable
  <1> QED
    BY <1>1, <1>2 DEF Conclude, Close, IsRetryableStatusCode, Advances, Repeats, Ends

(***************************************************************************)
(* Whatever a request came to, the client's variables stay well-typed and  *)
(* it gives up for a reason.                                               *)
(***************************************************************************)
LEMMA ConcludeKeeps ==
    ASSUME IInv, asking, NEW code \in Codes, Conclude(code)
    PROVE  /\ stages' \in Conversations /\ stage' \in 1..Len(stages')
           /\ attempt' \in 0..kRetryAttempts-1
           /\ asking' \in BOOLEAN /\ arriving' \in BOOLEAN
           /\ last' \in Codes \cup {"none"} /\ outcome' \in Codes \cup {"none"}
           /\ Client'
           /\ GivesUpAfterAllAttempts'
  <1>1. /\ asking' = FALSE /\ arriving' = FALSE
        /\ last' = code /\ stages' = stages
        /\ Advances(code) \/ Repeats(code) \/ Ends(code)
    BY ConcludeCases DEF IInv
  <1>2. /\ stage \in 1..Len(stages) /\ Len(stages) \in Nat
        /\ attempt \in 0..kRetryAttempts-1 /\ kRetryAttempts \in Nat \ {0}
        /\ stages \in Conversations /\ outcome = "none"
    BY PredictIsLast, AttemptsAssumption DEF TypeOK, IInv, Client
  <1>3. "none" \notin Retryable /\ "none" \notin Codes
    BY DEF Retryable, Codes, Final
  <1>4. CASE Advances(code)
    <2>1. /\ stage' = stage + 1 /\ attempt' = 0 /\ outcome' = "none"
          /\ stage < Len(stages)
      BY <1>2, <1>4 DEF Advances
    <2>2. stage' \in 1..Len(stages) /\ attempt' \in 0..kRetryAttempts-1
      BY <1>2, <2>1
    <2> QED
      BY <1>1, <1>2, <1>3, <2>1, <2>2 DEF Client, GivesUpAfterAllAttempts
  <1>5. CASE Repeats(code)
    <2>1. /\ stage' = stage /\ attempt' = attempt + 1 /\ outcome' = "none"
          /\ code \in Retryable
      BY <1>2, <1>5 DEF Repeats
    <2>2. stage' \in 1..Len(stages) /\ attempt' \in 0..kRetryAttempts-1
      BY <1>2, <1>5, <2>1 DEF Repeats
    <2> QED
      BY <1>1, <1>2, <1>3, <2>1, <2>2 DEF Client, GivesUpAfterAllAttempts
  <1>6. CASE Ends(code)
    BY <1>1, <1>2, <1>3, <1>6 DEF Ends, Client, GivesUpAfterAllAttempts
  <1> QED
    BY <1>1, <1>4, <1>5, <1>6

(***************************************************************************)
(* The count: what is run, or may still run, and the request on its way,   *)
(* against what was sent.                                                  *)
(***************************************************************************)
Runs == executed + strange + late
Sent ==
    IF Current # "/predict" THEN 0
    ELSE IF asking \/ outcome # "none" THEN attempt + 1 ELSE attempt

(***************************************************************************)
(* An answered request may leave one run more behind when it asked for the *)
(* prediction, and none otherwise.                                         *)
(***************************************************************************)
LEMMA ConcludeCounts ==
    ASSUME IInv, asking, NEW code \in Codes, Conclude(code),
           late' \in Nat, executed' \in Nat, strange' \in Nat,
           Runs' <= Runs + (IF Current = "/predict" THEN 1 ELSE 0)
    PROVE  RunsOnlyWhatWasSent'
  <1>1. /\ asking' = FALSE /\ arriving' = FALSE
        /\ last' = code /\ stages' = stages
        /\ Advances(code) \/ Repeats(code) \/ Ends(code)
    BY ConcludeCases DEF IInv
  <1>2. /\ stage \in 1..Len(stages) /\ Len(stages) \in Nat
        /\ attempt \in Nat /\ executed \in Nat /\ strange \in Nat /\ late \in Nat
        /\ outcome = "none"
        /\ Current = "/predict" <=> stage = Len(stages)
    BY PredictIsLast, AttemptsAssumption DEF TypeOK, IInv, Client
  <1>3. Runs + (IF Current = "/predict" THEN 1 ELSE 0)
            <= (IF Current = "/predict" THEN attempt + 1 ELSE 0)
    BY <1>2 DEF IInv, RunsOnlyWhatWasSent, Runs
  <1>4. /\ Runs' <= (IF Current = "/predict" THEN attempt + 1 ELSE 0)
        /\ Runs' \in Int
    <2>1. Runs' \in Int
      BY DEF Runs
    <2>2. executed \in Nat /\ strange \in Nat /\ late \in Nat
      BY <1>2
    <2>3. Runs \in Nat
      BY <2>2 DEF Runs
    <2> QED
      BY <1>2, <1>3, <2>1, <2>3
  <1>5. "none" \notin Codes
    BY DEF Codes, Retryable, Final
  <1>6. CASE Advances(code)
    <2>1. Current # "/predict" /\ attempt' = 0 /\ outcome' = "none"
      BY <1>2, <1>6 DEF Advances
    <2>2. Runs' <= Sent' /\ asking' = FALSE
      BY <1>1, <1>4, <2>1 DEF Sent
    <2> QED
      BY <1>2, <1>4, <2>2 DEF RunsOnlyWhatWasSent, Sent, Runs
  <1>7. CASE Repeats(code)
    <2>1. Current' = Current /\ attempt' = attempt + 1 /\ outcome' = "none"
      BY <1>1, <1>2, <1>7 DEF Repeats, Current
    <2>2. Runs' <= Sent' /\ asking' = FALSE
      BY <1>1, <1>4, <2>1 DEF Sent
    <2> QED
      BY <1>2, <1>4, <2>2 DEF RunsOnlyWhatWasSent, Sent, Runs
  <1>8. CASE Ends(code)
    <2>1. Current' = Current /\ attempt' = attempt /\ outcome' # "none"
      BY <1>1, <1>5, <1>8 DEF Ends, Current
    <2>2. Runs' <= Sent' /\ asking' = FALSE
      BY <1>1, <1>4, <2>1 DEF Sent
    <2> QED
      BY <1>2, <1>4, <2>2 DEF RunsOnlyWhatWasSent, Sent, Runs
  <1> QED
    BY <1>1, <1>6, <1>7, <1>8

(***************************************************************************)
(* The step of an answered request, from what the service has done in it.  *)
(***************************************************************************)
LEMMA ConcludedKeepsIInv ==
    ASSUME IInv, asking, NEW code \in Codes, Conclude(code),
           service' \in {"down", "loading", "ready", "other"},
           late' \in Nat, executed' \in Nat, strange' \in Nat,
           Runs' <= Runs + (IF Current = "/predict" THEN 1 ELSE 0),
           executed' >= executed,
           code = "Ok" /\ Current = "/predict" => executed' > 0
    PROVE  IInv'
  <1>1. TypeOK' /\ Client' /\ GivesUpAfterAllAttempts'
    BY ConcludeKeeps DEF TypeOK
  <1>2. RunsOnlyWhatWasSent'
    BY ConcludeCounts
  <1>3. OkWasRunByTheAlgorithm'
    <2>1. outcome' = outcome \/ Ends(code)
      BY ConcludeCases DEF IInv, Advances, Repeats
    <2>2. CASE outcome' = outcome
      BY <2>2 DEF IInv, TypeOK, OkWasRunByTheAlgorithm
    <2>3. CASE Ends(code)
      BY <2>3, PredictIsLast DEF IInv, Ends, OkWasRunByTheAlgorithm
    <2> QED
      BY <2>1, <2>2, <2>3
  <1> QED
    BY <1>1, <1>2, <1>3 DEF IInv

(***************************************************************************)
(* An answered request that ran nothing, and may have been left behind at  *)
(* the service if it asked for the prediction.                             *)
(***************************************************************************)
LEMMA NothingRanKeepsIInv ==
    ASSUME IInv, asking, NEW code \in Codes, Conclude(code),
           UNCHANGED <<service, executed, strange>>,
           late' = late \/ (late' = late + 1 /\ Current = "/predict"),
           code = "Ok" => Current # "/predict"
    PROVE  IInv'
  <1>1. /\ service \in {"down", "loading", "ready", "other"}
        /\ late \in Nat /\ executed \in Nat /\ strange \in Nat
    BY DEF IInv, TypeOK
  <1>2. /\ late' \in Nat /\ executed' \in Nat /\ strange' \in Nat
        /\ executed' >= executed
    BY <1>1
  <1>3. Runs' <= Runs + (IF Current = "/predict" THEN 1 ELSE 0)
    BY <1>1 DEF Runs
  <1> QED
    BY <1>1, <1>2, <1>3, ConcludedKeepsIInv

(***************************************************************************)
(* The invariant holds when a conversation begins.                         *)
(***************************************************************************)
LEMMA InitIInv == Init => IInv
  <1> SUFFICES ASSUME Init PROVE IInv
    OBVIOUS
  <1>1. TypeOK
    <2>1. stages \in Conversations /\ Len(stages) \in Nat /\ Len(stages) > 0
      BY ConversationsAssumption DEF Init
    <2>2. 1 \in 1..Len(stages) /\ 0 \in 0..kRetryAttempts-1
      BY <2>1, AttemptsAssumption
    <2> QED
      BY <2>1, <2>2 DEF Init, TypeOK
  <1>2. "none" \notin Retryable
    BY DEF Retryable
  <1> QED
    BY <1>1, <1>2 DEF Init, IInv, Client, RunsOnlyWhatWasSent, Current,
       OkWasRunByTheAlgorithm, GivesUpAfterAllAttempts

(***************************************************************************)
(* Every step of the client, the network and the service keeps it.         *)
(***************************************************************************)
LEMMA NextIInv == IInv /\ [Next]_vars => IInv'
  <1> SUFFICES ASSUME IInv, [Next]_vars PROVE IInv'
    OBVIOUS
  <1>1. /\ service \in {"down", "loading", "ready", "other"}
        /\ late \in Nat /\ executed \in Nat /\ strange \in Nat /\ attempt \in Nat
    BY AttemptsAssumption DEF IInv, TypeOK
  <1>2. CASE GoldenRequestFails
    <2>1. {"GoldenCaseFailed", "InputSchemaInvalid", "Thrown"} \subseteq Codes \ Retryable
      BY DEF Codes, Retryable, Final
    <2>2. TypeOK' /\ Client' /\ GivesUpAfterAllAttempts' /\ OkWasRunByTheAlgorithm'
      BY <1>2, <2>1 DEF GoldenRequestFails, IInv, TypeOK, Client,
         GivesUpAfterAllAttempts, OkWasRunByTheAlgorithm
    <2>3. RunsOnlyWhatWasSent'
      BY <1>1, <1>2 DEF GoldenRequestFails, IInv, RunsOnlyWhatWasSent, Current
    <2> QED
      BY <2>2, <2>3 DEF IInv
  <1>3. CASE Ask
    <2>1. TypeOK' /\ Client' /\ GivesUpAfterAllAttempts' /\ OkWasRunByTheAlgorithm'
      BY <1>3 DEF Ask, IInv, TypeOK, Client, GivesUpAfterAllAttempts, OkWasRunByTheAlgorithm
    <2>2. RunsOnlyWhatWasSent'
      BY <1>1, <1>3 DEF Ask, IInv, RunsOnlyWhatWasSent, Current
    <2> QED
      BY <2>1, <2>2 DEF IInv
  <1>4. CASE Answered
    <2>1. BadAnswers \cup HealthAnswers \cup MetadataAnswers \subseteq Codes
      BY <1>1 DEF BadAnswers, HealthAnswers, MetadataAnswers, Codes, Retryable, Final
    <2>2. PICK code \in Codes : Conclude(code)
      BY <1>4, <2>1 DEF Answered
    <2> QED
      BY <1>4, <2>2, NothingRanKeepsIInv DEF Answered
  <1>5. CASE Predicted
    <2>1. PICK code \in PredictAnswers : Conclude(code)
      BY <1>5 DEF Predicted
    <2>2. code \in Codes /\ (code = "Ok" => service = "ready")
      BY <2>1 DEF PredictAnswers, BadAnswers, Codes, Retryable, Final
    <2>3. /\ late' = late /\ service' = service /\ asking /\ Current = "/predict"
          /\ \/ service = "ready" /\ executed' = executed + 1 /\ strange' = strange
             \/ service # "ready" /\ executed' = executed /\ strange' = strange + 1
      BY <1>5 DEF Predicted, Ran
    <2>4. /\ late' \in Nat /\ executed' \in Nat /\ strange' \in Nat
          /\ executed' >= executed
          /\ code = "Ok" => executed' > 0
      BY <1>1, <2>2, <2>3
    <2>5. Runs' <= Runs + (IF Current = "/predict" THEN 1 ELSE 0)
      BY <1>1, <2>3 DEF Runs
    <2> QED
      BY <1>1, <2>1, <2>2, <2>3, <2>4, <2>5, ConcludedKeepsIInv
  <1>6. CASE PredictRefused
    <2>1. PICK code \in BadAnswers : Conclude(code)
      BY <1>6 DEF PredictRefused
    <2>2. code \in Codes /\ code # "Ok"
      BY DEF BadAnswers, Codes, Retryable, Final
    <2> QED
      BY <1>6, <2>1, <2>2, NothingRanKeepsIInv DEF PredictRefused
  <1>7. CASE InvalidUrl
    <2>1. PICK code \in {"InvalidArgument", "Thrown"} : Conclude(code)
      BY <1>7 DEF InvalidUrl
    <2>2. code \in Codes /\ code # "Ok"
      BY DEF Codes, Final
    <2> QED
      BY <1>7, <2>1, <2>2, NothingRanKeepsIInv DEF InvalidUrl
  <1>8. CASE NotDelivered
    <2>1. PICK code \in {"ServiceUnavailable", "ServiceTimeout"} : Conclude(code)
      BY <1>8 DEF NotDelivered
    <2>2. code \in Codes /\ code # "Ok"
      BY DEF Codes, Retryable
    <2> QED
      BY <1>8, <2>1, <2>2, NothingRanKeepsIInv DEF NotDelivered
  <1>9. CASE GivenUp
    <2>1. "ServiceTimeout" \in Codes
      BY DEF Codes, Retryable
    <2> QED
      BY <1>9, <2>1, NothingRanKeepsIInv DEF GivenUp
  <1>10. CASE RunLate
    <2>1. /\ UNCHANGED <<service, progress, arriving>> /\ late' = late - 1 /\ late > 0
          /\ \/ executed' = executed + 1 /\ strange' = strange
             \/ executed' = executed /\ strange' = strange + 1
      BY <1>10 DEF RunLate, Ran
    <2>2. /\ late' \in Nat /\ executed' \in Nat /\ strange' \in Nat
          /\ executed' >= executed
      BY <1>1, <2>1
    <2>3. TypeOK' /\ Client' /\ GivesUpAfterAllAttempts' /\ OkWasRunByTheAlgorithm'
      BY <1>1, <2>1, <2>2 DEF progress, IInv, TypeOK, Client,
         GivesUpAfterAllAttempts, OkWasRunByTheAlgorithm
    <2>4. RunsOnlyWhatWasSent'
      BY <1>1, <2>1 DEF progress, IInv, RunsOnlyWhatWasSent, Current
    <2> QED
      BY <2>3, <2>4 DEF IInv
  <1>11. CASE ServiceChanges
    <2>1. /\ UNCHANGED <<progress, executed, strange>> /\ late' \in {0, late}
          /\ arriving' = (arriving /\ service' # "down")
          /\ service' \in {"down", "loading", "ready", "other"}
      BY <1>11 DEF ServiceChanges
    <2>2. TypeOK' /\ Client' /\ GivesUpAfterAllAttempts' /\ OkWasRunByTheAlgorithm'
      BY <1>1, <2>1 DEF progress, IInv, TypeOK, Client,
         GivesUpAfterAllAttempts, OkWasRunByTheAlgorithm
    <2>3. UNCHANGED <<stages, stage, attempt, asking, outcome, executed, strange>>
      BY <2>1 DEF progress
    <2>4. RunsOnlyWhatWasSent'
      <3>1. CASE late' = late
        BY <2>3, <3>1 DEF IInv, RunsOnlyWhatWasSent, Current
      <3>2. CASE late' = 0
        BY <1>1, <2>3, <3>2 DEF IInv, RunsOnlyWhatWasSent, Current
      <3> QED
        BY <2>1, <3>1, <3>2
    <2> QED
      BY <2>2, <2>4 DEF IInv
  <1>12. CASE Trickle
    <2>1. /\ UNCHANGED <<service, progress, late, executed, strange>>
          /\ asking /\ arriving' \in BOOLEAN
      BY <1>12 DEF Trickle, IInv, TypeOK
    <2> QED
      BY <2>1 DEF progress, IInv, TypeOK, Client, RunsOnlyWhatWasSent, Current,
         GivesUpAfterAllAttempts, OkWasRunByTheAlgorithm
  <1>13. CASE UNCHANGED vars
    BY <1>13 DEF vars, progress, IInv, TypeOK, Client, RunsOnlyWhatWasSent, Current,
       GivesUpAfterAllAttempts, OkWasRunByTheAlgorithm
  <1> QED
    BY <1>2, <1>3, <1>4, <1>5, <1>6, <1>7, <1>8, <1>9, <1>10, <1>11, <1>13,
       <1>12 DEF Next
-----------------------------------------------------------------------------
(***************************************************************************)
(* Every conversation keeps the inductive invariant, whatever the service  *)
(* does.                                                                   *)
(***************************************************************************)
THEOREM Invariance == Spec => []IInv
  BY InitIInv, NextIInv, PTL DEF Spec

(***************************************************************************)
(* The variables of a conversation have their types.                       *)
(***************************************************************************)
THEOREM TypeCorrect == Spec => []TypeOK
  <1>1. IInv => TypeOK
    BY DEF IInv
  <1> QED
    BY <1>1, Invariance, PTL

(***************************************************************************)
(* A prediction is run at most as often as RetryUntilOk has sent it, also  *)
(* by a service that goes on after the client has given up.                *)
(***************************************************************************)
THEOREM NoRunWithoutARequest == Spec => []RunsOnlyWhatWasSent
  <1>1. IInv => RunsOnlyWhatWasSent
    BY DEF IInv
  <1> QED
    BY <1>1, Invariance, PTL

(***************************************************************************)
(* A conversation that ends well had its prediction run by the algorithm   *)
(* of the card, however often the service was replaced.                    *)
(***************************************************************************)
THEOREM OkIsTheAlgorithms == Spec => []OkWasRunByTheAlgorithm
  <1>1. IInv => OkWasRunByTheAlgorithm
    BY DEF IInv
  <1> QED
    BY <1>1, Invariance, PTL

(***************************************************************************)
(* The client gives up for a reason that may pass only after its last      *)
(* attempt.                                                                *)
(***************************************************************************)
THEOREM NoEarlySurrender == Spec => []GivesUpAfterAllAttempts
  <1>1. IInv => GivesUpAfterAllAttempts
    BY DEF IInv
  <1> QED
    BY <1>1, Invariance, PTL

(***************************************************************************)
(* A request is sent again only after a failure that may pass.             *)
(***************************************************************************)
THEOREM AnswersAreFinal == Spec => NoQuestionAfterAnAnswer
  <1>1. IInv /\ [Next]_vars =>
            [asking' /\ ~asking => attempt = 0 \/ last \in Retryable]_vars
    <2> SUFFICES ASSUME IInv, Next, asking', ~asking
                 PROVE  attempt = 0 \/ last \in Retryable
      OBVIOUS
    <2>1. Ask
      BY DEF Next, GoldenRequestFails, Answered, Predicted, PredictRefused, InvalidUrl,
         Trickle, Conclude, Close, NotDelivered, GivenUp, RunLate, ServiceChanges, progress
    <2> QED
      BY <2>1 DEF Ask, IInv, Client
  <1> QED
    BY <1>1, Invariance, PTL DEF Spec, NoQuestionAfterAnAnswer
=============================================================================
