----------------------- MODULE ExecutionCoordinatorProofs -----------------------
(***************************************************************************)
(* Proofs about ExecutionCoordinator, for any number of processes, calls,  *)
(* algorithms and changes, with kills, lost lines and thrown replies.      *)
(*                                                                         *)
(* A step of one process changes nothing that another process holds, so    *)
(* that what a process knows of its own call (ProcessInv) is looked at for *)
(* the process that takes the step, and what the calls share, their        *)
(* numbers and the audit log (Audit), apart from it.                       *)
(***************************************************************************)
EXTENDS ExecutionCoordinator, FiniteSetTheorems, SequenceTheorems,
        WellFoundedInduction, TLAPS

Logged  == {"idle", "recorded", "answered"}
Past    == {"checking", "loading", "running", "validating", "finishing"}

(***************************************************************************)
(* A process that works has a call, has seen the files as they are, and    *)
(* has no result before the runner returns or the call is refused.         *)
(***************************************************************************)
Begun(p) ==
    /\ pc[p] # "idle" => call[p].number # 0 /\ schemas \in seen[p]
    /\ pc[p] \in {"routing", "checking", "loading", "running"} =>
        result[p] = NoResult

(***************************************************************************)
(* The algorithm of a call: none before it is routed, then one of the      *)
(* library, and if RouteForAgent chose it, an active one.                  *)
(***************************************************************************)
Chosen(p) ==
    /\ pc[p] = "routing" => call[p].request.kind = "agent" /\ key[p] = NoKey
    /\ pc[p] \in Past => key[p] \in Keys
    /\ call[p].request.kind = "agent" /\ key[p] # NoKey =>
        /\ snapshot[p][key[p]] = "active"
        /\ result[p].code \notin {"AlgorithmNotFound", "AlgorithmNotActive"}

(***************************************************************************)
(* What was checked before the algorithm is loaded, and before its outputs *)
(* leave.                                                                  *)
(***************************************************************************)
Checked(p) ==
    /\ pc[p] \in {"loading", "running", "validating"} \/ result[p].ok =>
        /\ snapshot[p][key[p]] = "active"
        /\ \E s \in seen[p] : call[p].request.inputs \in s[key[p]].in
    /\ result[p].ok /\ pc[p] # "validating" =>
        \E s \in seen[p] : result[p].outputs \in s[key[p]].out

ProcessInv(p) == Begun(p) /\ Chosen(p) /\ Checked(p)

(***************************************************************************)
(* No two calls have one number, no two lines are of one call, each line   *)
(* is of a call that was made, of a call that still runs there is none,    *)
(* and once it is written the result stays what it says.                   *)
(***************************************************************************)
Audit ==
    /\ \A p, q \in Procs : call[p].number = call[q].number /\ p # q =>
        call[p].number = 0
    /\ \A i, j \in DOMAIN log : log[i].call = log[j].call => i = j
    /\ \A i \in DOMAIN log : \E p \in Procs : log[i].call <= call[p].number
    /\ \A p \in Procs : \A i \in LinesOf(call[p].number) :
        /\ pc[p] \in Logged
        /\ pc[p] \in {"recorded", "answered"} => log[i] = Line(p)

IInv == TypeOK /\ (\A p \in Procs : ProcessInv(p)) /\ Audit

(***************************************************************************)
(* A non-empty set of natural numbers has a least one.                     *)
(***************************************************************************)
LEMMA LeastExists ==
    ASSUME NEW S, S \subseteq Nat, S # {}
    PROVE  \E k \in S : \A j \in S : k <= j
  <1>1. PICK less : /\ IsWellFoundedOn(less, Nat)
                    /\ \A m, n \in Nat : m < n => <<m, n>> \in less
    <2> DEFINE Less == OpToRel(<, Nat)
    <2>1. IsWellFoundedOn(Less, Nat)
      BY NatLessThanWellFounded
    <2>2. \A m, n \in Nat : m < n => <<m, n>> \in Less
      BY DEF OpToRel
    <2> HIDE DEF Less
    <2> QED
      BY <2>1, <2>2
  <1>2. PICK k \in S : \A j \in S : ~(<<j, k>> \in less)
    <2>1. IsWellFoundedOn(less, Nat)
      BY <1>1
    <2> QED
      BY <2>1, WFMin
  <1>3. \A j \in S : j \in Nat /\ k \in Nat /\ ~(j < k)
    BY <1>1, <1>2
  <1> QED
    BY <1>3

(***************************************************************************)
(* The number of the next call is greater than that of any other: among    *)
(* the calls of the processes one has the greatest number.                 *)
(***************************************************************************)
LEMMA CallsIsGreatest ==
    ASSUME TypeOK, NEW p \in Procs
    PROVE  /\ calls \in 0..MaxCalls
           /\ \A q \in Procs : call[q].number \in 0..calls
  <1> DEFINE Numbers == {call[q].number : q \in Procs}
             Left    == {MaxCalls - n : n \in Numbers}
  <1>1. Numbers \subseteq 0..MaxCalls
    BY BoundsAssumption DEF TypeOK, NoCall
  <1>2. \A q \in Procs : call[q].number \in Numbers
    OBVIOUS
  <1> HIDE DEF Numbers
  <1>3. Left \subseteq Nat
    BY <1>1, BoundsAssumption
  <1>4. MaxCalls - call[p].number \in Left
    BY <1>2
  <1>5. PICK l \in Left : \A m \in Left : l <= m
    <2> HIDE DEF Left
    <2> QED
      BY <1>3, <1>4, LeastExists
  <1>6. PICK n \in Numbers : l = MaxCalls - n
    OBVIOUS
  <1>7. \A m \in Numbers : n >= m
    BY <1>1, <1>5, <1>6, BoundsAssumption
  <1>8. Max(Numbers) \in Numbers /\ \A m \in Numbers : Max(Numbers) >= m
    BY <1>7 DEF Max
  <1>9. calls = Max(Numbers)
    BY DEF calls, Numbers
  <1>10. calls \in 0..MaxCalls
    BY <1>1, <1>8, <1>9
  <1>11. \A m \in Numbers : m \in 0..calls
    BY <1>1, <1>8, <1>9, BoundsAssumption
  <1> QED
    BY <1>2, <1>10, <1>11

(***************************************************************************)
(* What a request asks for.                                                *)
(***************************************************************************)
LEMMA RequestKinds ==
    ASSUME NEW r \in Requests
    PROVE  /\ r.kind \in {"run", "agent"}
           /\ r.kind = "run" => r.key \in Keys
           /\ r.kind = "agent" => r.suited \subseteq Services
  BY RequestsAssumption DEF RunRequests, AgentRequests

(***************************************************************************)
(* A process with a call has a number for it and one of the requests.      *)
(***************************************************************************)
LEMMA CallTypes ==
    ASSUME TypeOK, NEW p \in Procs, call[p].number # 0
    PROVE  call[p].number \in 1..MaxCalls /\ call[p].request \in Requests
  BY DEF TypeOK, NoCall

(***************************************************************************)
(* An operation of another command leaves every key a status of the        *)
(* lifecycle.                                                              *)
(***************************************************************************)
LEMMA ChangeTypes ==
    ASSUME TypeOK, NEW k \in Keys, Registry!Change(k)
    PROVE  life' \in [Keys -> Registry!LifeStatus]
  <1>1. PICK s \in Registry!OneStep[life[k]] : life' = [life EXCEPT ![k] = s]
    BY DEF Registry!Change
  <1>2. life[k] \in Registry!LifeStatus
    BY DEF TypeOK
  <1>3. s \in Registry!LifeStatus
    BY <1>1, <1>2 DEF Registry!OneStep, Registry!LifeStatus
  <1> QED
    BY <1>1, <1>3 DEF TypeOK

(***************************************************************************)
(* The steps of one process that neither make a call nor write a line: the *)
(* registry, the files and the other processes stay as they are.           *)
(***************************************************************************)
Quiet(p) ==
    /\ UNCHANGED <<life, schemas, changes, call, snapshot, log, seen>>
    /\ \E at \in {"idle", "answered"} \cup Past,
          k \in Keys \cup {NoKey}, res \in Results :
        /\ pc' = [pc EXCEPT ![p] = at]
        /\ key' = [key EXCEPT ![p] = k]
        /\ result' = [result EXCEPT ![p] = res]

(***************************************************************************)
(* A quiet step keeps the types.                                           *)
(***************************************************************************)
LEMMA QuietKeepsTypes ==
    ASSUME TypeOK, NEW p \in Procs, Quiet(p)
    PROVE  TypeOK'
  BY DEF TypeOK, Quiet, Past

(***************************************************************************)
(* The results of the steps are results.                                   *)
(***************************************************************************)
LEMMA ResultTypes ==
    /\ \A code \in {"none", "AlgorithmNotFound", "AlgorithmNotActive",
                    "InputSchemaInvalid", "OnnxLoadFailed",
                    "OutputSchemaInvalid", "InvalidArgument"} :
        Failure(code) \in Results
    /\ \A id \in {"own", "other"}, out \in Payloads \cup {NoOutputs} :
        /\ [Failure("RunnerFailed") EXCEPT !.id = id, !.outputs = out] \in Results
        /\ Success(id, out) \in Results
  BY DEF Failure, Success, Results

(***************************************************************************)
(* Routing: the candidate taken is one of the active services, and without *)
(* one the call is over.                                                   *)
(***************************************************************************)
LEMMA RouteKeeps ==
    ASSUME TypeOK, NEW p \in Procs, ProcessInv(p), Route(p)
    PROVE  Quiet(p) /\ ProcessInv(p)'
  <1> DEFINE C == Candidates(p)
  <1>1. call[p].request \in Requests /\ call[p].request.kind = "agent"
    BY CallTypes DEF Route, ProcessInv, Begun, Chosen
  <1>2. C \in SUBSET Services
    BY <1>1, RequestKinds DEF Candidates
  <1>3. /\ pc[p] = "routing" /\ key[p] = NoKey
        /\ ~result[p].ok /\ result[p].code = "none"
        /\ key[p] \in Keys \cup {NoKey} /\ result[p] \in Results
        /\ UNCHANGED <<life, schemas, changes, call, snapshot, log, seen>>
        /\ call[p].number # 0 /\ schemas \in seen[p]
    BY DEF Route, ProcessInv, Begun, Chosen, TypeOK, NoResult, Failure
  <1>4. CASE C = {}
    <2>1. /\ pc' = [pc EXCEPT ![p] = "answered"]
          /\ result' = [result EXCEPT ![p] = Failure("AlgorithmNotFound")]
          /\ key' = [key EXCEPT ![p] = key[p]]
      BY <1>4 DEF Route, TypeOK
    <2>2. Quiet(p)
      BY <1>3, <2>1, ResultTypes DEF Quiet
    <2>3. /\ pc'[p] = "answered" /\ key'[p] = NoKey
          /\ result'[p] = Failure("AlgorithmNotFound")
      BY <1>3, <2>1 DEF TypeOK
    <2> QED
      BY <1>3, <2>2, <2>3
      DEF ProcessInv, Begun, Chosen, Checked, Failure, Past
  <1>5. CASE C # {}
    <2>1. PICK best \in C : key' = [key EXCEPT ![p] = best]
      BY <1>5 DEF Route
    <2>2. best \in Keys /\ snapshot[p][best] = "active"
      BY <1>2, <2>1 DEF Candidates, Keys
    <2>3. /\ pc' = [pc EXCEPT ![p] = "checking"]
          /\ result' = [result EXCEPT ![p] = result[p]]
          /\ key' = [key EXCEPT ![p] = best]
      BY <1>5, <2>1 DEF Route, TypeOK
    <2> HIDE DEF C
    <2>4. Quiet(p)
      BY <1>3, <2>2, <2>3 DEF Quiet, Past
    <2>5. pc'[p] = "checking" /\ key'[p] = best /\ result'[p] = result[p]
      BY <2>3 DEF TypeOK
    <2> QED
      BY <1>3, <2>2, <2>4, <2>5
      DEF ProcessInv, Begun, Chosen, Checked, Past
  <1> QED
    BY <1>4, <1>5

(***************************************************************************)
(* Run before the runner is asked: what is refused never passed, and what  *)
(* passes was active and had its inputs accepted by a file of the call.    *)
(***************************************************************************)
LEMMA CheckKeeps ==
    ASSUME TypeOK, NEW p \in Procs, ProcessInv(p), Check(p)
    PROVE  Quiet(p) /\ ProcessInv(p)'
  <1>1. /\ pc[p] = "checking"
        /\ key[p] \in Keys /\ result[p] \in Results
        /\ UNCHANGED <<life, schemas, changes, call, snapshot, log, seen>>
        /\ key' = [key EXCEPT ![p] = key[p]]
        /\ call[p].number # 0 /\ schemas \in seen[p]
    BY DEF Check, ProcessInv, Begun, Chosen, TypeOK, Past
  <1>2. Refusal(p) \in {"none", "AlgorithmNotFound", "AlgorithmNotActive",
                       "InputSchemaInvalid"}
    BY DEF Refusal
  <1>3. CASE Refusal(p) # "none"
    <2>1. /\ pc' = [pc EXCEPT ![p] = "finishing"]
          /\ result' = [result EXCEPT ![p] = Failure(Refusal(p))]
      BY <1>3 DEF Check, Ends
    <2>2. Quiet(p)
      BY <1>1, <1>2, <2>1, ResultTypes DEF Quiet, Past
    <2>3. /\ pc'[p] = "finishing" /\ key'[p] = key[p]
          /\ ~result'[p].ok /\ result'[p].code = Refusal(p)
      BY <1>1, <2>1 DEF TypeOK, Failure
    <2>4. snapshot[p][key[p]] = "active" =>
            Refusal(p) \notin {"AlgorithmNotFound", "AlgorithmNotActive"}
      BY DEF Refusal
    <2> QED
      BY <1>1, <2>2, <2>3, <2>4 DEF ProcessInv, Begun, Chosen, Checked, Past
  <1>4. CASE Refusal(p) = "none"
    <2>1. /\ pc' = [pc EXCEPT ![p] = "loading"]
          /\ result' = [result EXCEPT ![p] = result[p]]
      BY <1>4 DEF Check, TypeOK
    <2>2. Quiet(p)
      BY <1>1, <2>1 DEF Quiet, Past
    <2>3. pc'[p] = "loading" /\ key'[p] = key[p] /\ result'[p] = result[p]
      BY <1>1, <2>1 DEF TypeOK
    <2>4. /\ snapshot[p][key[p]] = "active"
          /\ call[p].request.inputs \in schemas[key[p]].in
      BY <1>4 DEF Refusal
    <2> QED
      BY <1>1, <2>2, <2>3, <2>4 DEF ProcessInv, Begun, Chosen, Checked, Past
  <1> QED
    BY <1>3, <1>4

(***************************************************************************)
(* A step that ends or interrupts a call after its checks, with a result   *)
(* that is no success, keeps what is known of the call.                    *)
(***************************************************************************)
LEMMA FailingKeeps ==
    ASSUME TypeOK, NEW p \in Procs, ProcessInv(p),
           NEW at \in {"finishing", "answered"}, NEW res \in Results,
           pc[p] \in Past, ~res.ok,
           res.code \notin {"AlgorithmNotFound", "AlgorithmNotActive"},
           pc' = [pc EXCEPT ![p] = at], result' = [result EXCEPT ![p] = res],
           UNCHANGED <<life, schemas, changes, call, snapshot, key, log, seen>>
    PROVE  Quiet(p) /\ ProcessInv(p)'
  <1>1. key' = [key EXCEPT ![p] = key[p]] /\ key[p] \in Keys \cup {NoKey}
    BY DEF TypeOK
  <1>2. Quiet(p)
    BY <1>1 DEF Quiet, Past
  <1>3. pc'[p] = at /\ result'[p] = res
    BY DEF TypeOK
  <1> QED
    BY <1>2, <1>3 DEF ProcessInv, Begun, Chosen, Checked, Past

(***************************************************************************)
(* A step that goes on after the checks: with the algorithm it has, and    *)
(* with a success only where the outputs are still to be validated or were *)
(* accepted by a file of the call.                                         *)
(***************************************************************************)
LEMMA GoingOnKeeps ==
    ASSUME TypeOK, NEW p \in Procs, ProcessInv(p),
           NEW at \in {"validating", "finishing"}, NEW res \in Results,
           pc[p] \in {"running", "validating"},
           \/ res.code \notin {"AlgorithmNotFound", "AlgorithmNotActive"}
           \/ res = result[p],
           res.ok /\ at # "validating" =>
               \E s \in seen[p] : res.outputs \in s[key[p]].out,
           pc' = [pc EXCEPT ![p] = at], result' = [result EXCEPT ![p] = res],
           UNCHANGED <<life, schemas, changes, call, snapshot, key, log, seen>>
    PROVE  Quiet(p) /\ ProcessInv(p)'
  <1>1. key' = [key EXCEPT ![p] = key[p]] /\ key[p] \in Keys \cup {NoKey}
    BY DEF TypeOK
  <1>2. Quiet(p)
    BY <1>1 DEF Quiet, Past
  <1>3. pc'[p] = at /\ result'[p] = res
    BY DEF TypeOK
  <1> QED
    BY <1>2, <1>3 DEF ProcessInv, Begun, Chosen, Checked, Past

(***************************************************************************)
(* The factory makes a runner, or OnnxRunner::Load fails.                  *)
(***************************************************************************)
LEMMA LoadKeeps ==
    ASSUME TypeOK, NEW p \in Procs, ProcessInv(p), Load(p)
    PROVE  Quiet(p) /\ ProcessInv(p)'
  <1>1. /\ pc[p] = "loading"
        /\ UNCHANGED <<life, schemas, changes, call, snapshot, key, log, seen>>
    BY DEF Load
  <1>2. CASE pc' = [pc EXCEPT ![p] = "running"] /\ UNCHANGED result
    <2>1. /\ key' = [key EXCEPT ![p] = key[p]] /\ key[p] \in Keys \cup {NoKey}
          /\ result' = [result EXCEPT ![p] = result[p]] /\ result[p] \in Results
      BY <1>1, <1>2 DEF TypeOK
    <2>2. Quiet(p)
      BY <1>1, <1>2, <2>1 DEF Quiet, Past
    <2>3. pc'[p] = "running"
      BY <1>2 DEF TypeOK
    <2> QED
      BY <1>1, <1>2, <2>2, <2>3 DEF ProcessInv, Begun, Chosen, Checked, Past
  <1>3. CASE Ends(p, Failure("OnnxLoadFailed"))
    <2>1. Failure("OnnxLoadFailed") \in Results
      BY ResultTypes
    <2>2. /\ ~Failure("OnnxLoadFailed").ok
          /\ Failure("OnnxLoadFailed").code = "OnnxLoadFailed"
      BY DEF Failure
    <2>3. pc[p] \in Past
      BY <1>1 DEF Past
    <2> QED
      BY <1>1, <1>3, <2>1, <2>2, <2>3, FailingKeeps DEF Ends
  <1> QED
    BY <1>2, <1>3 DEF Load

(***************************************************************************)
(* The runner fails, returns a result, or a value it converts makes the    *)
(* call end by an exception.                                               *)
(***************************************************************************)
LEMMA RunKeeps ==
    ASSUME TypeOK, NEW p \in Procs, ProcessInv(p),
           RunFails(p) \/ RunReturns(p) \/ Throws(p)
    PROVE  Quiet(p) /\ ProcessInv(p)'
  <1>1. /\ pc[p] \in {"loading", "running"} /\ pc[p] \in Past
        /\ UNCHANGED <<life, schemas, changes, call, snapshot, key, log, seen>>
    BY DEF RunFails, RunReturns, Throws, Past
  <1>2. CASE RunFails(p)
    <2> DEFINE Failed(id, out) ==
                 [Failure("RunnerFailed") EXCEPT !.id = id, !.outputs = out]
    <2>1. PICK id \in {"own", "other"}, out \in Payloads \cup {NoOutputs} :
            Ends(p, Failed(id, out))
      BY <1>2 DEF RunFails
    <2>2. Failed(id, out) \in Results
      BY ResultTypes
    <2>3. ~Failed(id, out).ok /\ Failed(id, out).code = "RunnerFailed"
      BY DEF Failure
    <2> QED
      BY <1>1, <2>1, <2>2, <2>3, FailingKeeps DEF Ends
  <1>3. CASE RunReturns(p)
    <2>1. PICK id \in {"own", "other"}, out \in Payloads :
            result' = [result EXCEPT ![p] = Success(id, out)]
      BY <1>3 DEF RunReturns
    <2>2. Success(id, out) \in Results /\ Success(id, out).code = "none"
      BY ResultTypes DEF Success
    <2>3. pc' = [pc EXCEPT ![p] = "validating"] /\ pc[p] = "running"
      BY <1>3 DEF RunReturns
    <2> QED
      BY <1>1, <2>1, <2>2, <2>3, GoingOnKeeps
  <1>4. CASE Throws(p)
    <2>1. Failure("InvalidArgument") \in Results
      BY ResultTypes
    <2>2. /\ ~Failure("InvalidArgument").ok
          /\ Failure("InvalidArgument").code = "InvalidArgument"
      BY DEF Failure
    <2> QED
      BY <1>1, <1>4, <2>1, <2>2, FailingKeeps DEF Throws
  <1> QED
    BY <1>2, <1>3, <1>4

(***************************************************************************)
(* The outputs of a success are accepted by the file as it is, or do not   *)
(* leave.                                                                  *)
(***************************************************************************)
LEMMA ValidateOutputsKeeps ==
    ASSUME TypeOK, NEW p \in Procs, ProcessInv(p), ValidateOutputs(p)
    PROVE  Quiet(p) /\ ProcessInv(p)'
  <1>1. /\ pc[p] = "validating" /\ pc[p] \in Past
        /\ UNCHANGED <<life, schemas, changes, call, snapshot, key, log, seen>>
        /\ schemas \in seen[p] /\ result[p] \in Results
    BY DEF ValidateOutputs, Past, ProcessInv, Begun, TypeOK
  <1>2. CASE result[p].outputs \in schemas[key[p]].out
    <2>1. Ends(p, result[p])
      BY <1>2 DEF ValidateOutputs
    <2> QED
      BY <1>1, <1>2, <2>1, GoingOnKeeps DEF Ends
  <1>3. CASE result[p].outputs \notin schemas[key[p]].out
    <2>1. Ends(p, Failure("OutputSchemaInvalid"))
      BY <1>3 DEF ValidateOutputs
    <2>2. Failure("OutputSchemaInvalid") \in Results
      BY ResultTypes
    <2>3. /\ ~Failure("OutputSchemaInvalid").ok
          /\ Failure("OutputSchemaInvalid").code = "OutputSchemaInvalid"
      BY DEF Failure
    <2> QED
      BY <1>1, <2>1, <2>2, <2>3, FailingKeeps DEF Ends
  <1> QED
    BY <1>2, <1>3

(***************************************************************************)
(* Of a process that was killed nothing is known.                          *)
(***************************************************************************)
LEMMA StopKeeps ==
    ASSUME TypeOK, NEW p \in Procs, Stop(p)
    PROVE  Quiet(p) /\ ProcessInv(p)'
  <1>1. NoResult \in Results /\ ~NoResult.ok
    BY ResultTypes DEF NoResult, Failure
  <1>2. Quiet(p)
    BY <1>1 DEF Stop, Quiet
  <1>3. pc'[p] = "idle" /\ key'[p] = NoKey /\ result'[p] = NoResult
    BY DEF Stop, TypeOK
  <1> QED
    BY <1>1, <1>2, <1>3 DEF ProcessInv, Begun, Chosen, Checked, Past

(***************************************************************************)
(* The caller gets the result that was recorded.                           *)
(***************************************************************************)
LEMMA AnswerKeeps ==
    ASSUME TypeOK, NEW p \in Procs, ProcessInv(p), Answer(p)
    PROVE  Quiet(p) /\ ProcessInv(p)'
  <1>1. /\ pc[p] = "recorded" /\ pc' = [pc EXCEPT ![p] = "answered"]
        /\ UNCHANGED <<life, schemas, changes, call, snapshot, key, result, log, seen>>
    BY DEF Answer
  <1>2. /\ key' = [key EXCEPT ![p] = key[p]] /\ key[p] \in Keys \cup {NoKey}
        /\ result' = [result EXCEPT ![p] = result[p]] /\ result[p] \in Results
    BY <1>1 DEF TypeOK
  <1>3. Quiet(p)
    BY <1>1, <1>2 DEF Quiet
  <1>4. pc'[p] = "answered"
    BY <1>1 DEF TypeOK
  <1> QED
    BY <1>1, <1>3, <1>4 DEF ProcessInv, Begun, Chosen, Checked, Past

(***************************************************************************)
(* The steps of a call but its first one and that which writes its line.   *)
(***************************************************************************)
Inner(p) ==
    \/ Route(p) \/ Check(p) \/ Load(p)
    \/ RunFails(p) \/ RunReturns(p) \/ Throws(p)
    \/ ValidateOutputs(p) \/ Answer(p) \/ Stop(p)

(***************************************************************************)
(* No line contradicts what a step leaves: there is none yet, or the step  *)
(* keeps what was recorded, or forgets it.                                 *)
(***************************************************************************)
SafeForLog(p) ==
    \/ pc[p] \notin Logged
    \/ pc' = [pc EXCEPT ![p] = "idle"]
    \/ /\ pc[p] = "recorded" /\ pc' = [pc EXCEPT ![p] = "answered"]
       /\ UNCHANGED <<key, result>>

(***************************************************************************)
(* An inner step is quiet, contradicts no line, and keeps what the process *)
(* knows of its call.                                                      *)
(***************************************************************************)
LEMMA InnerKeeps ==
    ASSUME TypeOK, NEW p \in Procs, ProcessInv(p), Inner(p)
    PROVE  Quiet(p) /\ ProcessInv(p)' /\ SafeForLog(p)
  <1>1. SafeForLog(p)
    BY DEF Inner, Route, Check, Load, RunFails, RunReturns, Throws,
           ValidateOutputs, Answer, Stop, Logged, SafeForLog
  <1> QED
    BY <1>1, RouteKeeps, CheckKeeps, LoadKeeps, RunKeeps, ValidateOutputsKeeps,
       AnswerKeeps, StopKeeps DEF Inner

(***************************************************************************)
(* What a process knows of its call is only about what it holds, and the   *)
(* files: the steps of the others do not touch it.                         *)
(***************************************************************************)
LEMMA OthersKeep ==
    ASSUME NEW q \in Procs, ProcessInv(q),
           pc'[q] = pc[q], call'[q] = call[q], snapshot'[q] = snapshot[q],
           key'[q] = key[q], result'[q] = result[q],
           seen[q] \subseteq seen'[q], pc[q] # "idle" => schemas' \in seen'[q]
    PROVE  ProcessInv(q)'
  BY DEF ProcessInv, Begun, Chosen, Checked

(***************************************************************************)
(* A step that makes no call and writes no line keeps the log right, if it *)
(* contradicts no line.                                                    *)
(***************************************************************************)
LEMMA QuietKeepsAudit ==
    ASSUME TypeOK, Audit, NEW p \in Procs, Quiet(p), SafeForLog(p)
    PROVE  Audit'
  <1>1. UNCHANGED <<call, log>>
    BY DEF Quiet
  <1>2. ASSUME NEW q \in Procs, NEW i \in LinesOf(call[q].number)
        PROVE  /\ pc'[q] \in Logged
               /\ pc'[q] \in {"recorded", "answered"} => log'[i] = Line(q)'
    <2>1. /\ pc[q] \in Logged
          /\ pc[q] \in {"recorded", "answered"} => log[i] = Line(q)
      BY <1>2 DEF Audit
    <2>2. CASE q # p
      <3>1. pc'[q] = pc[q] /\ key'[q] = key[q] /\ result'[q] = result[q]
        BY <2>2 DEF Quiet, TypeOK
      <3> QED
        BY <1>1, <2>1, <3>1 DEF Line
    <2>3. CASE q = p /\ pc' = [pc EXCEPT ![p] = "idle"]
      BY <2>3 DEF TypeOK, Logged
    <2>4. CASE /\ q = p /\ pc[p] = "recorded" /\ UNCHANGED <<key, result>>
               /\ pc' = [pc EXCEPT ![p] = "answered"]
      <3>1. pc'[q] = "answered" /\ Line(q)' = Line(q)
        BY <1>1, <2>4 DEF TypeOK, Line
      <3> QED
        BY <1>1, <2>1, <2>4, <3>1 DEF Logged
    <2> QED
      BY <2>1, <2>2, <2>3, <2>4 DEF SafeForLog
  <1> QED
    BY <1>1, <1>2 DEF Audit, LinesOf

(***************************************************************************)
(* An inner step keeps everything.                                         *)
(***************************************************************************)
LEMMA InnerKeepsIInv ==
    ASSUME IInv, NEW p \in Procs, Inner(p)
    PROVE  IInv'
  <1>1. Quiet(p) /\ ProcessInv(p)' /\ SafeForLog(p)
    BY InnerKeeps DEF IInv
  <1>2. TypeOK' /\ Audit'
    BY <1>1, QuietKeepsTypes, QuietKeepsAudit DEF IInv
  <1>3. ASSUME NEW q \in Procs, q # p
        PROVE  ProcessInv(q)'
    BY <1>1, <1>3, OthersKeep DEF IInv, TypeOK, Quiet, ProcessInv, Begun
  <1> QED
    BY <1>1, <1>2, <1>3 DEF IInv

(***************************************************************************)
(* Each line is of a call.                                                 *)
(***************************************************************************)
LEMMA LineTypes ==
    ASSUME TypeOK, NEW i \in DOMAIN log
    PROVE  log[i].call \in 1..MaxCalls
  <1> DEFINE Lines == [call : 1..MaxCalls, key : Keys, result : Results]
  <1>1. log \in Seq(Lines)
    BY DEF TypeOK
  <1>2. \A l \in Lines : l.call \in 1..MaxCalls
    OBVIOUS
  <1>3. log[i] \in Lines
    <2> HIDE DEF Lines
    <2> QED
      BY <1>1, ElementOfSeq, LenProperties
  <1> QED
    BY <1>2, <1>3

(***************************************************************************)
(* A new call has a number that no call and no line had, and has seen the  *)
(* files as they are.                                                      *)
(***************************************************************************)
LEMMA StartKeepsIInv ==
    ASSUME IInv, NEW p \in Procs, NEW r \in Requests, Start(p, r)
    PROVE  IInv'
  <1> DEFINE n == calls + 1
  <1>1. /\ n \in 1..MaxCalls
        /\ \A q \in Procs : call[q].number \in Nat /\ call[q].number < n
    <2>1. /\ calls \in 0..MaxCalls
          /\ \A q \in Procs : call[q].number \in 0..calls
      BY CallsIsGreatest DEF IInv
    <2>2. calls < MaxCalls
      BY DEF Start
    <2> HIDE DEF calls
    <2> QED
      BY <2>1, <2>2, BoundsAssumption
  <1>2. /\ call' = [call EXCEPT ![p] = [number |-> n, request |-> r]]
        /\ UNCHANGED <<life, schemas, changes, log>>
    BY DEF Start
  <1> HIDE DEF n
  <1>3. /\ call'[p] = [number |-> n, request |-> r]
        /\ snapshot'[p] = life
        /\ pc'[p] = IF r.kind = "agent" THEN "routing" ELSE "checking"
        /\ key'[p] = IF r.kind = "agent" THEN NoKey ELSE r.key
        /\ result'[p] = NoResult
        /\ seen'[p] = {schemas}
    BY <1>2 DEF Start, IInv, TypeOK
  <1>4. /\ r.kind \in {"run", "agent"}
        /\ r.kind = "run" => r.key \in Keys
    BY RequestKinds
  <1>5. NoResult \in Results /\ ~NoResult.ok
    BY ResultTypes DEF NoResult, Failure
  <1>6. TypeOK'
    <2>1. /\ UNCHANGED <<life, schemas, changes, log>>
          /\ pc' \in [Procs -> {"idle", "routing", "checking", "loading", "running",
                              "validating", "finishing", "recorded", "answered"}]
          /\ snapshot' \in [Procs -> [Keys -> Registry!LifeStatus]]
          /\ result' \in [Procs -> Results]
      BY <1>2, <1>5 DEF Start, IInv, TypeOK
    <2>2. call' \in [Procs -> [number : 1..MaxCalls, request : Requests] \cup {NoCall}]
      BY <1>1, <1>2 DEF IInv, TypeOK
    <2>3. key' \in [Procs -> Keys \cup {NoKey}]
      BY <1>4 DEF Start, IInv, TypeOK
    <2>4. seen' \in [Procs -> SUBSET [Keys -> SchemaFiles]]
      BY DEF Start, IInv, TypeOK
    <2> QED
      BY <2>1, <2>2, <2>3, <2>4 DEF IInv, TypeOK
  <1>7. ProcessInv(p)'
    BY <1>1, <1>2, <1>3, <1>4, <1>5
    DEF ProcessInv, Begun, Chosen, Checked, Past
  <1>8. ASSUME NEW q \in Procs, q # p
        PROVE  /\ ProcessInv(q)'
               /\ call'[q] = call[q] /\ pc'[q] = pc[q]
               /\ key'[q] = key[q] /\ result'[q] = result[q]
    <2>1. /\ pc'[q] = pc[q] /\ call'[q] = call[q] /\ snapshot'[q] = snapshot[q]
          /\ key'[q] = key[q] /\ result'[q] = result[q] /\ seen'[q] = seen[q]
      BY <1>2, <1>8 DEF Start, IInv, TypeOK
    <2> QED
      BY <1>2, <2>1, OthersKeep DEF IInv, ProcessInv, Begun
  <1>9. \A i \in DOMAIN log : log[i].call \in Nat /\ log[i].call < n
    <2>1. ASSUME NEW i \in DOMAIN log
          PROVE  log[i].call \in Nat /\ log[i].call < n
      <3>1. PICK q \in Procs : log[i].call <= call[q].number
        BY DEF IInv, Audit
      <3>2. log[i].call \in 1..MaxCalls
        BY LineTypes DEF IInv
      <3> QED
        BY <1>1, <3>1, <3>2, BoundsAssumption
    <2> QED
      BY <2>1
  <1>10. Audit'
    <2>1. \A q, t \in Procs : call'[q].number = call'[t].number /\ q # t =>
            call'[q].number = 0
      BY <1>1, <1>3, <1>8 DEF IInv, Audit
    <2>2. \A i, j \in DOMAIN log' : log'[i].call = log'[j].call => i = j
      BY <1>2 DEF IInv, Audit
    <2>3. \A i \in DOMAIN log' : \E q \in Procs : log'[i].call <= call'[q].number
      BY <1>1, <1>2, <1>3, <1>9
    <2>4. ASSUME NEW q \in Procs, NEW i \in LinesOf(call[q].number)'
          PROVE  /\ pc'[q] \in Logged
                 /\ pc'[q] \in {"recorded", "answered"} => log'[i] = Line(q)'
      <3>1. i \in DOMAIN log /\ log[i].call = call'[q].number
        BY <1>2, <2>4 DEF LinesOf
      <3>2. q # p
        BY <1>1, <1>3, <1>9, <3>1
      <3>3. i \in LinesOf(call[q].number)
        BY <1>8, <3>1, <3>2 DEF LinesOf
      <3> QED
        BY <1>2, <1>8, <3>2, <3>3 DEF IInv, Audit, Line
    <2> QED
      BY <2>1, <2>2, <2>3, <2>4 DEF Audit
  <1> QED
    BY <1>6, <1>7, <1>8, <1>10 DEF IInv

(***************************************************************************)
(* The line of a call is its first, and says what the caller gets.         *)
(***************************************************************************)
LEMMA FinalizeKeepsIInv ==
    ASSUME IInv, NEW p \in Procs, Finalize(p)
    PROVE  IInv'
  <1>1. /\ pc[p] = "finishing"
        /\ pc' = [pc EXCEPT ![p] = "recorded"]
        /\ UNCHANGED <<life, schemas, changes, call, snapshot, key, result, seen>>
    BY DEF Finalize
  <1>2. pc'[p] = "recorded" /\ \A q \in Procs : q # p => pc'[q] = pc[q]
    BY <1>1 DEF IInv, TypeOK
  <1>3. /\ key[p] \in Keys /\ call[p].number \in 1..MaxCalls
        /\ ProcessInv(p) /\ TypeOK
    BY <1>1, CallTypes DEF IInv, ProcessInv, Begun, Chosen, Past
  <1>4. \A q \in Procs : ProcessInv(q)'
    <2>1. ProcessInv(p)'
      BY <1>1, <1>2, <1>3 DEF ProcessInv, Begun, Chosen, Checked, Past
    <2>2. ASSUME NEW q \in Procs, q # p
          PROVE  ProcessInv(q)'
      BY <1>1, <1>2, <2>2, OthersKeep DEF IInv, ProcessInv, Begun
    <2> QED
      BY <2>1, <2>2
  <1> DEFINE Lines == [call : 1..MaxCalls, key : Keys, result : Results]
  <1>5. log \in Seq(Lines) /\ Line(p) \in Lines
    BY <1>3 DEF TypeOK, Line
  <1>6. \A i \in DOMAIN log : log[i].call # call[p].number
    BY <1>1 DEF IInv, Audit, LinesOf, Logged
  <1>7. CASE UNCHANGED log
    <2>1. TypeOK'
      BY <1>1, <1>3, <1>7 DEF TypeOK
    <2>2. Audit'
      BY <1>1, <1>2, <1>6, <1>7 DEF IInv, Audit, LinesOf, Line, Logged
    <2> QED
      BY <1>4, <2>1, <2>2 DEF IInv
  <1>8. CASE log' = Append(log, Line(p))
    <2>1. TypeOK'
      <3>1. log' \in Seq(Lines)
        BY <1>5, <1>8
      <3> QED
        BY <1>1, <1>3, <3>1 DEF TypeOK
    <2>2. /\ DOMAIN log' = DOMAIN log \cup {Len(log) + 1}
          /\ \A i \in DOMAIN log : log'[i] = log[i]
          /\ log'[Len(log) + 1] = Line(p)
      BY <1>5, <1>8
    <2>3. Line(p).call = call[p].number /\ call[p].number \in Nat
      BY <1>3, BoundsAssumption DEF Line
    <2>4. Len(log) + 1 \notin DOMAIN log
      BY <1>5
    <2>5. Audit'
      <3>1. \A q, t \in Procs : call'[q].number = call'[t].number /\ q # t =>
              call'[q].number = 0
        BY <1>1 DEF IInv, Audit
      <3>2. \A i, j \in DOMAIN log' : log'[i].call = log'[j].call => i = j
        BY <1>6, <2>2, <2>3 DEF IInv, Audit
      <3>3. \A i \in DOMAIN log' : \E q \in Procs : log'[i].call <= call'[q].number
        BY <1>1, <2>2, <2>3 DEF IInv, Audit
      <3>4. ASSUME NEW q \in Procs, NEW i \in LinesOf(call[q].number)'
            PROVE  /\ pc'[q] \in Logged
                   /\ pc'[q] \in {"recorded", "answered"} => log'[i] = Line(q)'
        <4>1. i \in DOMAIN log' /\ log'[i].call = call[q].number
          BY <1>1, <3>4 DEF LinesOf
        <4>2. Line(q)' = Line(q)
          BY <1>1 DEF Line
        <4>3. CASE i \in DOMAIN log
          <5>1. q # p /\ i \in LinesOf(call[q].number)
            BY <1>6, <2>2, <4>1, <4>3 DEF LinesOf
          <5> QED
            BY <1>2, <2>2, <4>2, <4>3, <5>1 DEF IInv, Audit
        <4>4. CASE i = Len(log) + 1
          <5>1. q = p
            BY <1>3, <2>2, <2>3, <4>1, <4>4 DEF IInv, Audit
          <5> QED
            BY <1>2, <2>2, <4>2, <4>4, <5>1 DEF Logged
        <4> QED
          BY <2>2, <4>1, <4>3, <4>4
      <3> QED
        BY <3>1, <3>2, <3>3, <3>4 DEF Audit
    <2> QED
      BY <1>4, <2>1, <2>5 DEF IInv
  <1> QED
    BY <1>7, <1>8 DEF Finalize

(***************************************************************************)
(* What other commands and the owners of packages change is neither held   *)
(* by a process nor in the log; an edit is seen by every call that runs.   *)
(***************************************************************************)
LEMMA ChangesKeepIInv ==
    ASSUME IInv, ChangeRegistry \/ EditSchemas
    PROVE  IInv'
  <1>1. UNCHANGED <<pc, call, snapshot, key, result, log>>
    BY DEF ChangeRegistry, EditSchemas
  <1>2. changes' \in 0..MaxChanges
    BY BoundsAssumption DEF ChangeRegistry, EditSchemas, IInv, TypeOK
  <1>3. Audit'
    BY <1>1 DEF IInv, Audit, LinesOf, Line
  <1>4. CASE ChangeRegistry
    <2>1. life' \in [Keys -> Registry!LifeStatus]
      BY <1>4, ChangeTypes DEF ChangeRegistry, IInv
    <2>2. UNCHANGED <<schemas, seen>>
      BY <1>4 DEF ChangeRegistry
    <2>3. TypeOK'
      BY <1>1, <1>2, <2>1, <2>2 DEF IInv, TypeOK
    <2>4. \A q \in Procs : ProcessInv(q)'
      BY <1>1, <2>2, OthersKeep DEF IInv, ProcessInv, Begun
    <2> QED
      BY <1>3, <2>3, <2>4 DEF IInv
  <1>5. CASE EditSchemas
    <2>1. PICK k \in Keys, files \in SchemaFiles :
            schemas' = [schemas EXCEPT ![k] = files]
      BY <1>5 DEF EditSchemas
    <2>2. schemas' \in [Keys -> SchemaFiles]
      BY <2>1 DEF IInv, TypeOK
    <2>3. /\ life' = life
          /\ seen' = [q \in Procs |-> seen[q] \cup {schemas'}]
      BY <1>5 DEF EditSchemas
    <2>4. TypeOK'
      BY <1>1, <1>2, <2>2, <2>3 DEF IInv, TypeOK
    <2>5. \A q \in Procs : ProcessInv(q)'
      BY <1>1, <2>3, OthersKeep DEF IInv
    <2> QED
      BY <1>3, <2>4, <2>5 DEF IInv
  <1> QED
    BY <1>4, <1>5

(***************************************************************************)
(* At first there is no call, and no line.                                 *)
(***************************************************************************)
LEMMA InitIInv == Init => IInv
  <1> SUFFICES ASSUME Init
               PROVE  IInv
    OBVIOUS
  <1>1. NoResult \in Results /\ ~NoResult.ok
    BY ResultTypes DEF NoResult, Failure
  <1>2. TypeOK
    <2>1. snapshot \in [Procs -> [Keys -> Registry!LifeStatus]]
      BY DEF Init, Registry!LifeStatus
    <2>2. life \in [Keys -> Registry!LifeStatus]
      BY FirstStatusesAssumption DEF Init
    <2>3. /\ schemas \in [Keys -> SchemaFiles] /\ changes \in 0..MaxChanges
          /\ result \in [Procs -> Results]
          /\ call \in [Procs -> [number : 1..MaxCalls, request : Requests] \cup {NoCall}]
      BY <1>1, BoundsAssumption DEF Init
    <2> QED
      BY <2>1, <2>2, <2>3 DEF Init, TypeOK
  <1>3. \A p \in Procs : ProcessInv(p)
    BY <1>1 DEF Init, ProcessInv, Begun, Chosen, Checked, Past, NoCall
  <1>4. Audit
    BY DEF Init, Audit, LinesOf, NoCall
  <1> QED
    BY <1>2, <1>3, <1>4 DEF IInv

(***************************************************************************)
(* Every step keeps the invariant.                                         *)
(***************************************************************************)
LEMMA NextIInv == IInv /\ [Next]_vars => IInv'
  <1> SUFFICES ASSUME IInv, [Next]_vars
               PROVE  IInv'
    OBVIOUS
  <1>1. ASSUME NEW p \in Procs, NEW r \in Requests, Start(p, r)
        PROVE  IInv'
    BY <1>1, StartKeepsIInv
  <1>2. ASSUME NEW p \in Procs, Inner(p)
        PROVE  IInv'
    BY <1>2, InnerKeepsIInv
  <1>3. ASSUME NEW p \in Procs, Finalize(p)
        PROVE  IInv'
    BY <1>3, FinalizeKeepsIInv
  <1>4. CASE ChangeRegistry \/ EditSchemas
    BY <1>4, ChangesKeepIInv
  <1>5. CASE UNCHANGED vars
    BY <1>5 DEF vars, IInv, TypeOK, ProcessInv, Begun, Chosen, Checked,
                Audit, LinesOf, Line
  <1> QED
    BY <1>1, <1>2, <1>3, <1>4, <1>5 DEF Next, Step, Inner

(***************************************************************************)
(* The invariant holds in every state the processes can reach.             *)
(***************************************************************************)
THEOREM Invariance == Spec => []IInv
  BY InitIInv, NextIInv, PTL DEF Spec

(***************************************************************************)
(* Type correctness of the processes, the log and what the calls read.     *)
(***************************************************************************)
THEOREM TypeCorrect == Spec => []TypeOK
  <1>1. IInv => TypeOK
    BY DEF IInv
  <1> QED
    BY <1>1, Invariance, PTL

(***************************************************************************)
(* Outputs leave ExecutionCoordinator::Run as a success only of an         *)
(* algorithm that was active when the process started, with inputs and     *)
(* outputs that a schema file of the call accepts.                         *)
(***************************************************************************)
THEOREM OnlyCheckedSucceeds == Spec => []SuccessIsChecked
  <1>1. IInv => SuccessIsChecked
    BY DEF IInv, ProcessInv, Checked, SuccessIsChecked, Answered
  <1> QED
    BY <1>1, Invariance, PTL

(***************************************************************************)
(* What RouteForAgent selects, Run does not refuse for its status.         *)
(***************************************************************************)
THEOREM RoutedRuns == Spec => []RoutedIsNotRefused
  <1>1. IInv => RoutedIsNotRefused
    BY DEF IInv, ProcessInv, Chosen, RoutedIsNotRefused
  <1> QED
    BY <1>1, Invariance, PTL

(***************************************************************************)
(* Of a call there is at most one line, which says what the caller got,    *)
(* whichever processes write to the log and are killed meanwhile.          *)
(***************************************************************************)
THEOREM LogTellsTheAnswer == Spec => []AuditAgrees
  <1>1. ASSUME IInv
        PROVE  AuditAgrees
    <2>1. ASSUME NEW n \in 1..MaxCalls
          PROVE  Cardinality(LinesOf(n)) <= 1
      <3>1. \A i, j \in LinesOf(n) : i = j
        BY <1>1 DEF IInv, Audit, LinesOf
      <3>2. LinesOf(n) = {} \/ \E i : LinesOf(n) = {i}
        BY <3>1
      <3> QED
        BY <3>2, FS_EmptySet, FS_Singleton
    <2>2. ASSUME NEW p \in Procs, Answered(p), NEW i \in LinesOf(call[p].number)
          PROVE  log[i] = Line(p)
      BY <1>1, <2>2 DEF IInv, Audit, Answered
    <2> QED
      BY <2>1, <2>2 DEF AuditAgrees
  <1> QED
    BY <1>1, Invariance, PTL
=============================================================================
