------------------------ MODULE PackageValidationProofs ------------------------
(***************************************************************************)
(* Proofs about PackageValidation and OnnxPackages, for any number of      *)
(* packages, golden cases, callers' inputs and changes.                    *)
(*                                                                         *)
(* Up to RunsGoldenCases the schema validator and the runner may decide    *)
(* and compute anything, as long as the same files and the same input give *)
(* the same result.  What follows is about the runner of OnnxRunner, which *)
(* RunnerAssumption puts in their place: std::sort, the softmax and the    *)
(* label map, then the calls of an accepted algorithm.  The last part is   *)
(* about the schema validator, of which SchemaAssumption gives the rules.  *)
(***************************************************************************)
EXTENDS OnnxPackages, PackageSchemas, FiniteSetTheorems, TLAPS

(***************************************************************************)
(* Types of what the checks hand on: the files are those that the package  *)
(* and its authors provide, the card is one that was read, and so are the  *)
(* configurations.                                                         *)
(***************************************************************************)
CaseChecks ==
    {"list_cases", "read_case", "check_input", "run_case", "check_output", "compare"}

HandedOn ==
    /\ disk = [f \in FileNames |-> disk[f]]
    /\ \A f \in FileNames : disk[f] \in FilesAt(f)
    /\ at = "read_card" => \E b \in Packages : disk["card"] = b["card"]
    /\ at # "read_card" /\ verdict \in {"none", "accepted"} => card \in CardsRead
    /\ at \in {"load_postprocess", "load_session"} =>
        runner.pre \in Values(PreResults)
    /\ at = "load_session" => runner.post \in Values(PostResults)

TypeInv == TypeOK /\ HandedOn

(***************************************************************************)
(* A list of the numbers of the golden cases has a first, and of the       *)
(* checks that failed one was the first.                                   *)
(***************************************************************************)
LEMMA FirstOf ==
    ASSUME NEW S, S \subseteq Nat, S # {}
    PROVE  Min(S) \in S /\ \A j \in S : Min(S) <= j
  <1>1. PICK less : /\ IsWellFoundedOn(less, Nat)
                    /\ \A m, n \in Nat : m < n => <<m, n>> \in less
    <2> DEFINE Less == OpToRel(<, Nat)
    <2>1. IsWellFoundedOn(Less, Nat)
      BY NatLessThanWellFounded
    <2>2. \A m, n \in Nat : m < n => <<m, n>> \in Less
      BY DEF OpToRel
    <2> HIDE DEF Less
    <2> QED
      BY <2>1, <2>2
  <1>2. PICK k \in S : \A j \in S : ~(<<j, k>> \in less)
    <2>1. IsWellFoundedOn(less, Nat)
      BY <1>1
    <2> QED
      BY <2>1, WFMin
  <1>3. \A j \in S : k <= j
    <2>1. \A j \in S : j \in Nat /\ k \in Nat /\ ~(j < k)
      BY <1>1, <1>2
    <2> QED
      BY <2>1
  <1> QED
    BY <1>2, <1>3 DEF Min

(***************************************************************************)
(* A check proceeds, or ends the validation with the code of its refusal.  *)
(***************************************************************************)
LEMMA ProceedCases ==
    ASSUME NEW result, NEW next, Proceed(result, next)
    PROVE  \/ result.ok /\ at' = next /\ verdict' = verdict
           \/ ~result.ok /\ at' = "done" /\ verdict' = result.code
  BY DEF Proceed

(***************************************************************************)
(* A requirement that does not hold gives the code it was given.           *)
(***************************************************************************)
LEMMA RequiredCode ==
    ASSUME NEW holds, NEW code
    PROVE  ~Require(holds, code).ok => Require(holds, code).code = code
  BY DEF Require, Ok, Fail

(***************************************************************************)
(* A check that proceeds has left what the next one needs, and touched     *)
(* nothing else.                                                           *)
(***************************************************************************)
LEMMA CheckKeepsTypes ==
    ASSUME TypeInv, at # "done",
           NEW result, NEW next, Proceed(result, next),
           next \notin {"done", "read_card"},
           ~result.ok => result.code \in Codes,
           UNCHANGED <<build, disk, touched, reply>>,
           titled' \in BOOLEAN,
           todo' \subseteq DOMAIN CaseInputs,
           result.ok => card' \in CardsRead,
           result.ok /\ next \in {"load_postprocess", "load_session"} =>
               runner'.pre \in Values(PreResults),
           result.ok /\ next = "load_session" =>
               runner'.post \in Values(PostResults),
           result.ok /\ next \in CaseChecks =>
               DOMAIN runner' = {"pre", "post", "session"}
    PROVE  TypeInv' /\ verdict' # "accepted"
  <1>1. verdict = "none"
    BY DEF TypeInv, TypeOK
  <1>2. {"none", "accepted"} \cap Codes = {}
    BY DEF Codes
  <1>3. CASE result.ok /\ at' = next /\ verdict' = verdict
    <2>1. TypeOK'
      BY <1>1, <1>3 DEF TypeInv, TypeOK, CaseChecks
    <2>2. HandedOn'
      BY <1>1, <1>3 DEF TypeInv, HandedOn, FilesAt
    <2> QED
      BY <1>1, <1>3, <2>1, <2>2 DEF TypeInv
  <1>4. CASE ~result.ok /\ at' = "done" /\ verdict' = result.code
    <2>1. TypeOK'
      BY <1>1, <1>2, <1>4 DEF TypeInv, TypeOK
    <2>2. HandedOn'
      BY <1>2, <1>4 DEF TypeInv, HandedOn, FilesAt
    <2> QED
      BY <1>2, <1>4, <2>1, <2>2 DEF TypeInv
  <1> QED
    BY <1>3, <1>4, ProceedCases

(***************************************************************************)
(* The first failure of several checks is one of them.                     *)
(***************************************************************************)
LEMMA FirstFailureIsOne ==
    ASSUME NEW checks, DOMAIN checks \subseteq Nat, ~FirstFailure(checks).ok
    PROVE  \E i \in DOMAIN checks : FirstFailure(checks) = checks[i]
  <1> DEFINE failed == {i \in DOMAIN checks : ~checks[i].ok}
  <1>1. failed # {}
    BY DEF FirstFailure, Ok
  <1>2. Min(failed) \in failed
    BY <1>1, FirstOf
  <1> QED
    BY <1>1, <1>2 DEF FirstFailure

(***************************************************************************)
(* ValidateBackendSpecificFields refuses with a code.                      *)
(***************************************************************************)
LEMMA FilesCodes ==
    ASSUME NEW c
    PROVE  /\ ~FirstFailure(OnnxFiles(c)).ok => FirstFailure(OnnxFiles(c)).code \in Codes
           /\ ~FirstFailure(ServiceFiles(c)).ok => FirstFailure(ServiceFiles(c)).code \in Codes
  <1>1. /\ DOMAIN OnnxFiles(c) = 1..8
        /\ \A i \in 1..8 : OnnxFiles(c)[i].ok \/ OnnxFiles(c)[i].code \in Codes
    BY DEF OnnxFiles, Require, Ok, Fail, Codes
  <1>2. /\ DOMAIN ServiceFiles(c) = 1..3
        /\ \A i \in 1..3 : ServiceFiles(c)[i].ok \/ ServiceFiles(c)[i].code \in Codes
    BY DEF ServiceFiles, Require, Ok, Fail, Codes
  <1>3. 1..8 \subseteq Nat /\ 1..3 \subseteq Nat
    OBVIOUS
  <1> QED
    BY <1>1, <1>2, <1>3, FirstFailureIsOne

(***************************************************************************)
(* A package as it is found, before anything was read.                     *)
(***************************************************************************)
LEMMA InitTypes == Init => TypeInv
  <1> SUFFICES ASSUME Init PROVE TypeInv
    OBVIOUS
  <1>1. TypeOK
    BY DEF Init, TypeOK, Nothing
  <1>2. HandedOn
    <2>1. disk = [f \in FileNames |-> disk[f]]
      BY PackagesAssumption DEF Init
    <2>2. \A f \in FileNames : disk[f] \in FilesAt(f)
      BY DEF Init, FilesAt
    <2> QED
      BY <2>1, <2>2 DEF Init, HandedOn
  <1> QED
    BY <1>1, <1>2 DEF TypeInv
(***************************************************************************)
(* The checks before the runner: the card, the files and the schemas.      *)
(***************************************************************************)
LEMMA ReadCardTypes ==
    ASSUME TypeInv, ReadCard
    PROVE  TypeInv' /\ verdict' # "accepted"
  <1> DEFINE result == CardOf(disk["card"])
  <1>1. at = "read_card" /\ Proceed(result, "check_files")
    BY DEF ReadCard
  <1>2. PICK b \in Packages : disk["card"] = b["card"]
    BY <1>1 DEF TypeInv, HandedOn
  <1>3. ~result.ok => result.code \in Codes
    <2>1. Readable(disk["card"]) =>
            disk["card"].content.defect \in {"none"} \cup Codes
      BY <1>2, PackagesAssumption
    <2> QED
      BY <2>1 DEF CardOf, Fail, Ok, Codes
  <1>4. result.ok => card' \in CardsRead
    BY <1>2 DEF ReadCard, CardOf, Fail, CardsRead
  <1>5. /\ UNCHANGED <<build, disk, touched, reply, titled, todo>>
        /\ titled \in BOOLEAN /\ todo \subseteq DOMAIN CaseInputs
    BY DEF ReadCard, TypeInv, TypeOK
  <1> HIDE DEF result
  <1> QED
    BY <1>1, <1>3, <1>4, <1>5, CheckKeepsTypes DEF CaseChecks

(***************************************************************************)
(* CheckFiles changes nothing but where validation stands.                 *)
(***************************************************************************)
LEMMA CheckFilesTypes ==
    ASSUME TypeInv, CheckFiles
    PROVE  TypeInv' /\ verdict' # "accepted"
  <1> DEFINE result == FirstFailure(IF card.backend = "onnx" THEN OnnxFiles(card)
                                    ELSE ServiceFiles(card))
  <1>1. at = "check_files" /\ Proceed(result, "load_input_schema")
    BY DEF CheckFiles
  <1>2. ~result.ok => result.code \in Codes
    BY FilesCodes
  <1>3. /\ UNCHANGED <<build, disk, touched, reply, titled, todo, card>>
        /\ titled \in BOOLEAN /\ todo \subseteq DOMAIN CaseInputs
        /\ card \in CardsRead
    BY <1>1 DEF CheckFiles, TypeInv, TypeOK, HandedOn
  <1> HIDE DEF result
  <1> QED
    BY <1>1, <1>2, <1>3, CheckKeepsTypes DEF CaseChecks

(***************************************************************************)
(* The two schemas leave a summary that may throw, and nothing else.       *)
(***************************************************************************)
LEMMA SchemaTypes ==
    ASSUME TypeInv, LoadInputSchema \/ LoadOutputSchema
    PROVE  TypeInv' /\ verdict' # "accepted"
  <1>1. titled' \in BOOLEAN
    BY DEF LoadInputSchema, LoadOutputSchema
  <1>2. /\ at \notin {"done", "read_card"}
        /\ UNCHANGED <<build, disk, touched, reply, todo, card>>
        /\ todo \subseteq DOMAIN CaseInputs
        /\ card \in CardsRead
    BY DEF LoadInputSchema, LoadOutputSchema, TypeInv, TypeOK, HandedOn
  <1>3. ASSUME NEW holds, NEW code \in Codes, NEW next,
               Proceed(Require(holds, code), next),
               next \in {"load_output_schema", "load_preprocess", "ask_service"}
        PROVE  TypeInv' /\ verdict' # "accepted"
    <2>1. next \notin {"done", "read_card", "load_postprocess", "load_session"} \cup CaseChecks
      BY <1>3 DEF CaseChecks
    <2> QED
      BY <1>1, <1>2, <1>3, <2>1, RequiredCode, CheckKeepsTypes
  <1>4. {"INPUT_SCHEMA_INVALID", "OUTPUT_SCHEMA_INVALID"} \subseteq Codes
    BY DEF Codes
  <1>5. CASE LoadInputSchema
    <2>1. Proceed(Require(IsSchemaFile(disk["input_schema"]), "INPUT_SCHEMA_INVALID"),
                  "load_output_schema")
      BY <1>5 DEF LoadInputSchema
    <2> QED
      BY <1>3, <1>4, <2>1
  <1>6. CASE LoadOutputSchema
    <2> DEFINE next == IF card.backend = "onnx" THEN "load_preprocess" ELSE "ask_service"
    <2>1. Proceed(Require(IsSchemaFile(disk["output_schema"]), "OUTPUT_SCHEMA_INVALID"), next)
      BY <1>6 DEF LoadOutputSchema
    <2>2. next \in {"load_output_schema", "load_preprocess", "ask_service"}
      OBVIOUS
    <2> HIDE DEF next
    <2> QED
      BY <1>3, <1>4, <2>1, <2>2
  <1> QED
    BY <1>5, <1>6

(***************************************************************************)
(* The load of the runner, file by file.                                   *)
(***************************************************************************)
LEMMA LoadTypes ==
    ASSUME TypeInv, LoadPreprocess \/ LoadPostprocess \/ LoadRunner
    PROVE  TypeInv' /\ verdict' # "accepted"
  <1>1. /\ verdict = "none" /\ at # "done" /\ at # "read_card"
        /\ UNCHANGED <<build, disk, touched, reply, titled, todo, card>>
        /\ titled \in BOOLEAN /\ todo \subseteq DOMAIN CaseInputs
        /\ card \in CardsRead /\ build \in Builds
    BY DEF LoadPreprocess, LoadPostprocess, LoadRunner, TypeInv, TypeOK, HandedOn
  <1>2. RunCodes \subseteq Codes
    BY DEF RunCodes
  <1>3. /\ disk["preprocess"] \in FilesAt("preprocess")
        /\ disk["postprocess"] \in FilesAt("postprocess")
        /\ disk["model"] \in FilesAt("model")
    BY DEF TypeInv, HandedOn, FileNames, PackageFiles
  <1>4. CASE LoadPreprocess
    <2> DEFINE result == PreprocessOf(disk["preprocess"])
    <2>1. result \in PreResults
      BY <1>3 DEF PreResults
    <2>2. ~result.ok => result.code \in Codes
      BY <1>2, <2>1, ResultsAssumption
    <2>3. Proceed(result, "load_postprocess")
      BY <1>4 DEF LoadPreprocess
    <2>4. result.ok => runner'.pre \in Values(PreResults)
      BY <1>4, <2>1 DEF LoadPreprocess, Values
    <2> HIDE DEF result
    <2> QED
      BY <1>1, <2>2, <2>3, <2>4, CheckKeepsTypes DEF CaseChecks
  <1>5. CASE LoadPostprocess
    <2> DEFINE result == PostprocessOf(disk["postprocess"])
    <2>1. result \in PostResults
      BY <1>3 DEF PostResults
    <2>2. ~result.ok => result.code \in Codes
      BY <1>2, <2>1, ResultsAssumption
    <2>3. Proceed(result, "load_session")
      BY <1>5 DEF LoadPostprocess
    <2>4. runner.pre \in Values(PreResults)
      BY <1>5 DEF LoadPostprocess, TypeInv, HandedOn
    <2>5. result.ok => runner'.pre = runner.pre /\ runner'.post \in Values(PostResults)
      BY <1>5, <2>1 DEF LoadPostprocess, Values
    <2> HIDE DEF result
    <2> QED
      BY <1>1, <2>2, <2>3, <2>4, <2>5, CheckKeepsTypes DEF CaseChecks
  <1>6. CASE LoadRunner
    <2> DEFINE result == SessionOf(build, disk["model"], card.provider,
                                   runner.pre, runner.post)
    <2>1. /\ runner.pre \in Values(PreResults)
          /\ runner.post \in Values(PostResults)
      BY <1>6 DEF LoadRunner, TypeInv, HandedOn
    <2>2. result \in Loads
      BY <1>1, <1>3, <2>1 DEF Loads
    <2>3. ~result.ok => result.code \in Codes
      BY <1>2, <2>2, ResultsAssumption
    <2>4. Proceed(result, "list_cases")
      BY <1>6 DEF LoadRunner
    <2>5. result.ok => DOMAIN runner' = {"pre", "post", "session"}
      BY <1>6, <2>2, ResultsAssumption DEF LoadRunner, Values
    <2> HIDE DEF result
    <2> QED
      BY <1>1, <2>3, <2>4, <2>5, CheckKeepsTypes
  <1> QED
    BY <1>4, <1>5, <1>6

(***************************************************************************)
(* The golden cases, one read of the disk at a time.                       *)
(***************************************************************************)
LEMMA CaseTypes ==
    ASSUME TypeInv,
           ListCases \/ ReadCase \/ CheckInput \/ RunCase \/ CheckOutput \/ Compare
    PROVE  TypeInv' /\ verdict' # "accepted"
  <1>1. /\ at \in CaseChecks /\ at \notin {"done", "read_card"}
        /\ UNCHANGED <<build, disk, touched, reply, titled, card, runner>>
    BY DEF ListCases, ReadCase, CheckInput, RunCase, CheckOutput, Compare, CaseChecks
  <1>2. /\ titled \in BOOLEAN /\ card \in CardsRead
        /\ DOMAIN runner = {"pre", "post", "session"}
    BY <1>1 DEF TypeInv, TypeOK, HandedOn, CaseChecks
  <1>3. todo' \subseteq DOMAIN CaseInputs
    BY DEF ListCases, ReadCase, CheckInput, RunCase, CheckOutput, Compare,
           Cases, TypeInv, TypeOK
  <1>4. ASSUME NEW result, NEW next, Proceed(result, next),
               ~result.ok => result.code \in Codes,
               next \in CaseChecks \cup {"summarise"}
        PROVE  TypeInv' /\ verdict' # "accepted"
    <2>1. next \notin {"done", "read_card", "load_postprocess", "load_session"}
      BY <1>4 DEF CaseChecks
    <2> QED
      BY <1>1, <1>2, <1>3, <1>4, <2>1, CheckKeepsTypes
  <1>5. ASSUME NEW holds, NEW code, NEW next, Proceed(Require(holds, code), next),
               code \in Codes \/ holds,
               next \in CaseChecks \cup {"summarise"}
        PROVE  TypeInv' /\ verdict' # "accepted"
    <2>1. ~Require(holds, code).ok => Require(holds, code).code \in Codes
      BY <1>5 DEF Require, Ok, Fail
    <2> QED
      BY <1>4, <1>5, <2>1
  <1>6. {"INPUT_SCHEMA_INVALID", "OUTPUT_SCHEMA_INVALID", "GOLDEN_CASE_FAILED",
         "thrown"} \subseteq Codes
    BY DEF Codes
  <1>7. {"read_case", "check_input", "run_case", "check_output", "compare"}
            \subseteq CaseChecks
    BY DEF CaseChecks
  <1>8. CASE ListCases
    BY <1>5, <1>6, <1>7, <1>8 DEF ListCases
  <1>9. CASE ReadCase
    BY <1>5, <1>6, <1>7, <1>9 DEF ReadCase
  <1>10. CASE CheckInput
    BY <1>5, <1>6, <1>7, <1>10 DEF CheckInput, Admits
  <1>11. CASE RunCase
    BY <1>5, <1>6, <1>7, <1>11 DEF RunCase
  <1>12. CASE CheckOutput
    BY <1>5, <1>6, <1>7, <1>12 DEF CheckOutput, AdmitsOutput, Admits
  <1>13. CASE Compare
    BY <1>5, <1>6, <1>7, <1>13 DEF Compare
  <1> QED
    BY <1>8, <1>9, <1>10, <1>11, <1>12, <1>13

(***************************************************************************)
(* The service, and the end of the validation.                             *)
(***************************************************************************)
LEMMA AskServiceTypes ==
    ASSUME TypeInv, AskService
    PROVE  TypeInv' /\ verdict' # "accepted"
  <1>1. PICK answered \in BOOLEAN :
            Proceed(Require(answered, "SERVICE_ERROR"), "summarise")
    BY DEF AskService
  <1>2. "SERVICE_ERROR" \in Codes
    BY DEF Codes
  <1>3. ~Require(answered, "SERVICE_ERROR").ok =>
            Require(answered, "SERVICE_ERROR").code \in Codes
    BY <1>2, RequiredCode
  <1>4. /\ at = "ask_service"
        /\ UNCHANGED <<build, disk, touched, reply, titled, todo, card>>
        /\ titled \in BOOLEAN /\ todo \subseteq DOMAIN CaseInputs
        /\ card \in CardsRead
    BY DEF AskService, TypeInv, TypeOK, HandedOn
  <1> QED
    BY <1>1, <1>3, <1>4, CheckKeepsTypes DEF CaseChecks

(***************************************************************************)
(* Summarise accepts only what the checks handed on to it.                 *)
(***************************************************************************)
LEMMA SummariseTypes ==
    ASSUME TypeInv, Summarise
    PROVE  TypeInv'
  <1>1. /\ at = "summarise" /\ at' = "done" /\ verdict' \in {"accepted", "thrown"}
        /\ UNCHANGED <<build, disk, touched, card, runner, titled, todo, golden, reply>>
    BY DEF Summarise
  <1>2. TypeOK'
    BY <1>1 DEF TypeInv, TypeOK, Codes
  <1>3. HandedOn'
    BY <1>1 DEF TypeInv, TypeOK, HandedOn, FilesAt
  <1> QED
    BY <1>2, <1>3 DEF TypeInv

(***************************************************************************)
(* A call ends in a result or in a code, never in that of a golden case.   *)
(***************************************************************************)
LEMMA CallTypes ==
    ASSUME TypeInv, NEW v \in Inputs, Call(v)
    PROVE  TypeInv'
  <1> DEFINE pre == PreprocessOf(disk["preprocess"])
             post == PostprocessOf(disk["postprocess"])
             loaded == SessionOf(build, disk["model"], card.provider,
                                 pre.value, post.value)
             ran == Inference(loaded.value, LabelFile, v)
             outcome == CallOutcome(v)
  <1>1. /\ at = "done" /\ verdict = "accepted"
        /\ reply' = [is |-> "reply", input |-> v, outcome |-> outcome]
        /\ UNCHANGED <<build, disk, touched, at, card, runner, titled, todo, golden,
                       verdict>>
    BY DEF Call
  <1>2. card \in CardsRead /\ build \in Builds
    BY <1>1 DEF TypeInv, TypeOK, HandedOn
  <1>3. /\ disk["preprocess"] \in FilesAt("preprocess")
        /\ disk["postprocess"] \in FilesAt("postprocess")
        /\ disk["model"] \in FilesAt("model")
        /\ LabelFile \in FilesAt("labels") \cup {Missing}
    BY DEF TypeInv, HandedOn, FileNames, PackageFiles, LabelFile
  <1>4. pre \in PreResults /\ post \in PostResults
    BY <1>3 DEF PreResults, PostResults
  <1>5. pre.ok /\ post.ok => loaded \in Loads
    <2>1. /\ pre.ok => pre.value \in Values(PreResults)
          /\ post.ok => post.value \in Values(PostResults)
      BY <1>4 DEF Values
    <2> HIDE DEF pre, post
    <2> QED
      BY <1>2, <1>3, <2>1 DEF Loads
  <1>6. pre.ok /\ post.ok /\ loaded.ok => ran \in Runs
    BY <1>3, <1>5 DEF Runs, Values
  <1>7. \A name, code, w : Admits(name, code, w).ok \/ Admits(name, code, w).code = code
    BY DEF Admits, Require, Ok, Fail
  <1>8. {"INPUT_SCHEMA_INVALID", "OUTPUT_SCHEMA_INVALID"} \subseteq RunCodes
    BY DEF RunCodes, Codes
  <1>9. outcome.ok \/ outcome.code \in RunCodes
    BY <1>4, <1>5, <1>6, <1>7, <1>8, ResultsAssumption DEF CallOutcome, AdmitsOutput
  <1> HIDE DEF outcome
  <1>10. TypeOK'
    BY <1>1, <1>9 DEF TypeInv, TypeOK
  <1>11. HandedOn'
    BY <1>1 DEF TypeInv, HandedOn, FilesAt
  <1> QED
    BY <1>10, <1>11 DEF TypeInv

(***************************************************************************)
(* The authors put another of their files in the place of one.             *)
(***************************************************************************)
LEMMA ChangeTypes ==
    ASSUME TypeInv, NEW f \in FileNames, Change(f)
    PROVE  TypeInv'
  <1>1. PICK g \in Replacements[f] \ {disk[f]} : disk' = [disk EXCEPT ![f] = g]
    BY DEF Change
  <1>2. TypeOK'
    BY DEF Change, TypeInv, TypeOK, Nothing
  <1>3. /\ disk' = [h \in FileNames |-> disk'[h]]
        /\ \A h \in FileNames : disk'[h] \in FilesAt(h)
    <2>1. disk = [h \in FileNames |-> disk[h]] /\ \A h \in FileNames : disk[h] \in FilesAt(h)
      BY DEF TypeInv, HandedOn
    <2>2. \A h \in FileNames : disk'[h] = IF h = f THEN g ELSE disk[h]
      BY <1>1, <2>1
    <2> QED
      BY <1>1, <2>1, <2>2 DEF FilesAt
  <1>4. HandedOn'
    BY <1>3 DEF Change, TypeInv, HandedOn, FilesAt
  <1> QED
    BY <1>2, <1>4 DEF TypeInv

(***************************************************************************)
(* Every step keeps the types.                                             *)
(***************************************************************************)
LEMMA NextTypes ==
    ASSUME TypeInv, [Next]_vars
    PROVE  TypeInv'
  <1>1. CASE UNCHANGED vars
    BY <1>1 DEF vars, TypeInv, TypeOK, HandedOn, FilesAt
  <1> QED
    BY <1>1, ReadCardTypes, CheckFilesTypes, SchemaTypes, LoadTypes, CaseTypes,
       AskServiceTypes, SummariseTypes, CallTypes, ChangeTypes DEF Next

(***************************************************************************)
(* The checks hand on what the files of the package gave them.             *)
(***************************************************************************)
THEOREM TypeInvariance == Spec => []TypeInv
  BY InitTypes, NextTypes, PTL DEF Spec

(***************************************************************************)
(* Type correctness: every validation and every call ends in a result or   *)
(* in one of the codes.                                                    *)
(***************************************************************************)
THEOREM TypeCorrect == Spec => []TypeOK
  <1>1. TypeInv => TypeOK
    BY DEF TypeInv
  <1> QED
    BY <1>1, TypeInvariance, PTL
-----------------------------------------------------------------------------
(***************************************************************************)
(* What validation has found of a package of which no file but the card    *)
(* and the tokenizer changed: the configurations and the runner that a     *)
(* call would load, and what the runner makes of the golden cases.         *)
(***************************************************************************)
Fixed == touched \subseteq {"card", "tokenizer"}

InputAdmitted(v)  == Admits("input_schema", "INPUT_SCHEMA_INVALID", v).ok
OutputAdmitted(v) == AdmitsOutput(v).ok

LoadedNow ==
    SessionOf(build, disk["model"], card.provider,
              PreprocessOf(disk["preprocess"]).value,
              PostprocessOf(disk["postprocess"]).value)

PreFound ==
    /\ PreprocessOf(disk["preprocess"]).ok
    /\ runner.pre = PreprocessOf(disk["preprocess"]).value

PostFound ==
    /\ PostprocessOf(disk["postprocess"]).ok
    /\ runner.post = PostprocessOf(disk["postprocess"]).value

RunnerFound ==
    /\ PreprocessOf(disk["preprocess"]).ok
    /\ PostprocessOf(disk["postprocess"]).ok
    /\ LoadedNow.ok
    /\ runner = LoadedNow.value

InputOf(i)    == disk[CaseInputs[i]].content
ExpectedOf(i) == disk[CaseExpected[i]].content

Ran(v) == Inference(runner, LabelFile, v)

Passed(i) ==
    /\ InputOf(i) \in Given
    /\ InputAdmitted(InputOf(i))
    /\ Ran(InputOf(i)).ok
    /\ OutputAdmitted(Ran(InputOf(i)).value)
    /\ Matches(ExpectedOf(i), Ran(InputOf(i)).value)

(***************************************************************************)
(* The runner is the one that a call would load, each case that validation *)
(* left behind it passed, and the one at hand has passed the checks before *)
(* the next.                                                               *)
(***************************************************************************)
Ended == at \in {"summarise", "done"} /\ verdict \in {"none", "accepted"}

CaseAtHand ==
    /\ at \in {"check_input", "run_case", "check_output", "compare"} =>
        /\ InputOf(ThisCase) \in Given
        /\ golden.input = InputOf(ThisCase)
        /\ golden.expected = ExpectedOf(ThisCase)
    /\ at \in {"run_case", "check_output", "compare"} =>
        InputAdmitted(InputOf(ThisCase))
    /\ at \in {"check_output", "compare"} =>
        /\ Ran(InputOf(ThisCase)).ok
        /\ golden.output = Ran(InputOf(ThisCase)).value
    /\ at = "compare" =>
        OutputAdmitted(Ran(InputOf(ThisCase)).value)

Found ==
    /\ at \in {"load_postprocess", "load_session"} => PreFound
    /\ at = "load_session" => PostFound
    /\ at \in CaseChecks => RunnerFound
    /\ at = "ask_service" => card.backend # "onnx"
    /\ at \in CaseChecks \ {"list_cases"} =>
        /\ todo # {} /\ todo \subseteq Cases
        /\ \A i \in Cases \ todo : Passed(i)
        /\ CaseAtHand
    /\ Ended /\ card.backend = "onnx" =>
        RunnerFound /\ Cases # {} /\ \A i \in Cases : Passed(i)

Answered ==
    reply.is = "reply" =>
        /\ at = "done" /\ verdict = "accepted" /\ card.backend = "onnx"
        /\ reply.input \in Inputs
        /\ reply.outcome = CallOutcome(reply.input)

IInv == TypeInv /\ (Fixed => Found) /\ Answered

(***************************************************************************)
(* What validation found depends on the card that was read and on the      *)
(* files other than the card and the tokenizer.                            *)
(***************************************************************************)
SameFiles ==
    /\ UNCHANGED <<build, card>>
    /\ \A f \in FileNames \ {"card", "tokenizer"} : disk'[f] = disk[f]

(***************************************************************************)
(* The files that are named in the model are files of a package, and       *)
(* neither the card nor the tokenizer is a golden case.                    *)
(***************************************************************************)
LEMMA FileNamesKnown ==
    /\ {"model", "input_schema", "output_schema", "preprocess", "postprocess",
        "labels"} \subseteq FileNames \ {"card", "tokenizer"}
    /\ \A i \in DOMAIN CaseInputs :
        /\ CaseInputs[i] \in FileNames \ {"card", "tokenizer"}
        /\ CaseExpected[i] \in FileNames \ {"card", "tokenizer"}
  <1>1. DOMAIN CaseExpected = DOMAIN CaseInputs
    BY CasesAssumption
  <1> QED
    BY <1>1, CasesAssumption DEF FileNames, PackageFiles

(***************************************************************************)
(* While those files stay, so do the schemas, the runner that a call would *)
(* load and its answers.                                                   *)
(***************************************************************************)
LEMMA SameFilesSameAnswers ==
    ASSUME SameFiles
    PROVE  /\ \A v : InputAdmitted(v)' = InputAdmitted(v)
           /\ \A v : OutputAdmitted(v)' = OutputAdmitted(v)
           /\ \A v : CallOutcome(v)' = CallOutcome(v)
           /\ LoadedNow' = LoadedNow
           /\ LabelFile' = LabelFile
           /\ Cases' = Cases
           /\ \A i \in DOMAIN CaseInputs :
                InputOf(i)' = InputOf(i) /\ ExpectedOf(i)' = ExpectedOf(i)
  <1>1. /\ disk'["model"] = disk["model"]
        /\ disk'["input_schema"] = disk["input_schema"]
        /\ disk'["output_schema"] = disk["output_schema"]
        /\ disk'["preprocess"] = disk["preprocess"]
        /\ disk'["postprocess"] = disk["postprocess"]
        /\ disk'["labels"] = disk["labels"]
        /\ \A i \in DOMAIN CaseInputs :
            /\ disk'[CaseInputs[i]] = disk[CaseInputs[i]]
            /\ disk'[CaseExpected[i]] = disk[CaseExpected[i]]
    BY FileNamesKnown DEF SameFiles
  <1>2. build' = build /\ card' = card
    BY DEF SameFiles
  <1>3. LabelFile' = LabelFile
    BY <1>1, <1>2 DEF LabelFile
  <1>4. \A v : InputAdmitted(v)' = InputAdmitted(v)
    BY <1>1 DEF InputAdmitted, Admits, IsSchemaFile
  <1>5. \A v : OutputAdmitted(v)' = OutputAdmitted(v)
    BY <1>1 DEF OutputAdmitted, AdmitsOutput, Admits, IsSchemaFile
  <1>6. LoadedNow' = LoadedNow
    BY <1>1, <1>2 DEF LoadedNow
  <1>7. \A v : CallOutcome(v)' = CallOutcome(v)
    BY <1>1, <1>2, <1>3 DEF CallOutcome, AdmitsOutput, Admits, IsSchemaFile
  <1>8. /\ Cases' = Cases
        /\ \A i \in DOMAIN CaseInputs :
            InputOf(i)' = InputOf(i) /\ ExpectedOf(i)' = ExpectedOf(i)
    BY <1>1 DEF Cases, InputOf, ExpectedOf
  <1> QED
    BY <1>3, <1>4, <1>5, <1>6, <1>7, <1>8

(***************************************************************************)
(* And so does what the runner that was loaded makes of the golden cases.  *)
(***************************************************************************)
LEMMA SameFilesSameRunner ==
    ASSUME SameFiles, runner' = runner
    PROVE  /\ PreFound' <=> PreFound
           /\ PostFound' <=> PostFound
           /\ RunnerFound' <=> RunnerFound
           /\ \A v : Ran(v)' = Ran(v)
           /\ \A i \in DOMAIN CaseInputs : Passed(i)' <=> Passed(i)
  <1>1. /\ disk'["preprocess"] = disk["preprocess"]
        /\ disk'["postprocess"] = disk["postprocess"]
    BY FileNamesKnown DEF SameFiles
  <1>2. \A v : Ran(v)' = Ran(v)
    BY SameFilesSameAnswers DEF Ran
  <1>3. /\ PreFound' <=> PreFound
        /\ PostFound' <=> PostFound
        /\ RunnerFound' <=> RunnerFound
    BY <1>1, SameFilesSameAnswers DEF PreFound, PostFound, RunnerFound
  <1>4. ASSUME NEW i \in DOMAIN CaseInputs
        PROVE  Passed(i)' <=> Passed(i)
    <2> DEFINE v == InputOf(i)
               e == ExpectedOf(i)
    <2>1. InputOf(i)' = v /\ ExpectedOf(i)' = e
      BY SameFilesSameAnswers
    <2>2. /\ InputAdmitted(InputOf(i))' = InputAdmitted(v)
          /\ Ran(InputOf(i))' = Ran(v)
          /\ OutputAdmitted(Ran(InputOf(i)).value)' = OutputAdmitted(Ran(v).value)
      BY FileNamesKnown, <2>1
      DEF SameFiles, InputAdmitted, OutputAdmitted, AdmitsOutput, Admits,
          IsSchemaFile, Ran, LabelFile
    <2> QED
      BY <2>1, <2>2 DEF Passed
  <1> QED
    BY <1>2, <1>3, <1>4

(***************************************************************************)
(* A step that is no check leaves what was found as it is.                 *)
(***************************************************************************)
LEMMA SameFilesStillFound ==
    ASSUME SameFiles, Found,
           UNCHANGED <<at, runner, todo, golden, verdict>>
    PROVE  Found'
  <1>1. /\ PreFound' <=> PreFound
        /\ PostFound' <=> PostFound
        /\ RunnerFound' <=> RunnerFound
        /\ Cases' = Cases /\ ThisCase' = ThisCase
        /\ \A i \in Cases : Passed(i)' <=> Passed(i)
    BY SameFilesSameRunner, SameFilesSameAnswers DEF Cases, ThisCase
  <1>2. ASSUME at \in CaseChecks \ {"list_cases"}
        PROVE  CaseAtHand'
    <2> DEFINE i == ThisCase
    <2>1. todo # {} /\ todo \subseteq DOMAIN CaseInputs /\ CaseAtHand
      BY <1>2 DEF Found, Cases
    <2>2. DOMAIN CaseInputs \subseteq Nat
      BY CasesAssumption
    <2>3. i \in DOMAIN CaseInputs
      BY <2>1, <2>2, FirstOf DEF ThisCase
    <2>4. /\ InputOf(ThisCase)' = InputOf(i)
          /\ ExpectedOf(ThisCase)' = ExpectedOf(i)
      BY <1>1, <2>3, FileNamesKnown DEF InputOf, ExpectedOf, SameFiles
    <2>5. /\ InputAdmitted(InputOf(ThisCase))' = InputAdmitted(InputOf(i))
          /\ Ran(InputOf(ThisCase))' = Ran(InputOf(i))
          /\ OutputAdmitted(Ran(InputOf(ThisCase)).value)'
                = OutputAdmitted(Ran(InputOf(i)).value)
      BY FileNamesKnown, <2>4
      DEF SameFiles, InputAdmitted, OutputAdmitted, AdmitsOutput, Admits,
          IsSchemaFile, Ran, LabelFile
    <2> QED
      BY <2>1, <2>4, <2>5 DEF CaseAtHand
  <1> QED
    BY <1>1, <1>2 DEF Found, Ended, SameFiles

(***************************************************************************)
(* A refusal ends the validation, and no call follows.                     *)
(***************************************************************************)
LEMMA CheckKeepsFound ==
    ASSUME IInv, TypeInv', verdict' # "accepted",
           at # "done", UNCHANGED <<touched, reply>>,
           NEW result, NEW next, Proceed(result, next),
           Fixed /\ Found /\ result.ok /\ at' = next /\ verdict' = "none" => Found'
    PROVE  IInv'
  <1>1. Answered'
    BY DEF IInv, Answered
  <1>2. Fixed' => Fixed
    BY DEF Fixed
  <1>3. verdict = "none"
    BY DEF IInv, TypeInv, TypeOK
  <1>4. CASE ~result.ok /\ at' = "done" /\ verdict' = result.code
    <2>1. verdict' # "none"
      BY <1>4 DEF TypeInv, TypeOK
    <2>2. Found'
      BY <1>4, <2>1 DEF Found, Ended, CaseChecks
    <2> QED
      BY <1>1, <2>2 DEF IInv
  <1>5. CASE result.ok /\ at' = next /\ verdict' = verdict
    BY <1>1, <1>2, <1>3, <1>5 DEF IInv
  <1> QED
    BY <1>4, <1>5, ProceedCases

(***************************************************************************)
(* Until the runner is loaded.                                             *)
(***************************************************************************)
LEMMA BeforeRunnerFound ==
    ASSUME IInv,
           ReadCard \/ CheckFiles \/ LoadInputSchema \/ LoadOutputSchema
                \/ AskService
    PROVE  IInv'
  <1>1. TypeInv' /\ verdict' # "accepted"
    BY ReadCardTypes, CheckFilesTypes, SchemaTypes, AskServiceTypes DEF IInv
  <1>2. at # "done" /\ UNCHANGED <<touched, reply>>
    BY DEF ReadCard, CheckFiles, LoadInputSchema, LoadOutputSchema, AskService
  <1>3. ASSUME NEW result, NEW next, Proceed(result, next),
               Found /\ at' = next => Found'
        PROVE  IInv'
    BY <1>1, <1>2, <1>3, CheckKeepsFound
  <1>4. CASE ReadCard
    <2>1. at' = "check_files" => Found'
      BY DEF Found, Ended, CaseChecks
    <2> QED
      BY <1>3, <1>4, <2>1 DEF ReadCard
  <1>5. CASE CheckFiles
    <2>1. at' = "load_input_schema" => Found'
      BY DEF Found, Ended, CaseChecks
    <2> QED
      BY <1>3, <1>5, <2>1 DEF CheckFiles
  <1>6. CASE LoadInputSchema
    <2>1. at' = "load_output_schema" => Found'
      BY DEF Found, Ended, CaseChecks
    <2> QED
      BY <1>3, <1>6, <2>1 DEF LoadInputSchema
  <1>7. CASE LoadOutputSchema
    <2> DEFINE next == IF card.backend = "onnx" THEN "load_preprocess" ELSE "ask_service"
    <2>1. at' = next => Found'
      BY <1>7 DEF LoadOutputSchema, Found, Ended, CaseChecks
    <2>2. Proceed(Require(IsSchemaFile(disk["output_schema"]), "OUTPUT_SCHEMA_INVALID"), next)
      BY <1>7 DEF LoadOutputSchema
    <2> HIDE DEF next
    <2> QED
      BY <1>3, <2>1, <2>2
  <1>8. CASE AskService
    <2>1. PICK answered \in BOOLEAN :
            Proceed(Require(answered, "SERVICE_ERROR"), "summarise")
      BY <1>8 DEF AskService
    <2>2. Found /\ at' = "summarise" => Found'
      BY <1>8 DEF AskService, Found, Ended, CaseChecks
    <2> QED
      BY <1>3, <2>1, <2>2
  <1> QED
    BY <1>4, <1>5, <1>6, <1>7, <1>8

(***************************************************************************)
(* OnnxRunner::Load, file by file, makes the runner that a call would load *)
(* from the same files.                                                    *)
(***************************************************************************)
LEMMA LoadFound ==
    ASSUME IInv, LoadPreprocess \/ LoadPostprocess \/ LoadRunner
    PROVE  IInv'
  <1>1. TypeInv' /\ verdict' # "accepted"
    BY LoadTypes DEF IInv
  <1>2. /\ at # "done"
        /\ UNCHANGED <<build, disk, touched, card, titled, todo, golden, reply>>
    BY DEF LoadPreprocess, LoadPostprocess, LoadRunner
  <1>3. CASE LoadPreprocess
    <2> DEFINE result == PreprocessOf(disk["preprocess"])
    <2>1. Proceed(result, "load_postprocess")
      BY <1>3 DEF LoadPreprocess
    <2>2. result.ok => PreFound'
      BY <1>2, <1>3 DEF LoadPreprocess, PreFound
    <2>3. result.ok /\ at' = "load_postprocess" => Found'
      BY <2>2 DEF Found, Ended, CaseChecks
    <2> HIDE DEF result
    <2> QED
      BY <1>1, <1>2, <2>1, <2>3, CheckKeepsFound
  <1>4. CASE LoadPostprocess
    <2> DEFINE result == PostprocessOf(disk["postprocess"])
    <2>1. Proceed(result, "load_session") /\ at = "load_postprocess"
      BY <1>4 DEF LoadPostprocess
    <2>2. Found /\ result.ok => PreFound' /\ PostFound'
      BY <1>2, <1>4, <2>1 DEF LoadPostprocess, Found, PreFound, PostFound
    <2>3. Found /\ result.ok /\ at' = "load_session" => Found'
      BY <2>2 DEF Found, Ended, CaseChecks
    <2> HIDE DEF result
    <2> QED
      BY <1>1, <1>2, <2>1, <2>3, CheckKeepsFound
  <1>5. CASE LoadRunner
    <2> DEFINE result == SessionOf(build, disk["model"], card.provider,
                                   runner.pre, runner.post)
    <2>1. Proceed(result, "list_cases") /\ at = "load_session"
      BY <1>5 DEF LoadRunner
    <2>2. Found => PreFound /\ PostFound
      BY <2>1 DEF Found
    <2>3. Found => result = LoadedNow
      BY <2>2 DEF PreFound, PostFound, LoadedNow
    <2>4. LoadedNow' = LoadedNow
      BY <1>2 DEF LoadedNow
    <2>5. Found /\ result.ok => RunnerFound'
      BY <1>2, <1>5, <2>2, <2>3, <2>4 DEF LoadRunner, RunnerFound, PreFound, PostFound
    <2>6. Found /\ result.ok /\ at' = "list_cases" => Found'
      BY <2>5 DEF Found, Ended
    <2> HIDE DEF result
    <2> QED
      BY <1>1, <1>2, <2>1, <2>6, CheckKeepsFound
  <1> QED
    BY <1>3, <1>4, <1>5

(***************************************************************************)
(* The first case still to run is one of the package's.                    *)
(***************************************************************************)
LEMMA ThisCaseIsLeft ==
    ASSUME TypeInv, todo # {}
    PROVE  ThisCase \in todo /\ ThisCase \in DOMAIN CaseInputs
  <1>1. todo \subseteq DOMAIN CaseInputs /\ DOMAIN CaseInputs \subseteq Nat
    BY CasesAssumption DEF TypeInv, TypeOK
  <1> QED
    BY <1>1, FirstOf DEF ThisCase

(***************************************************************************)
(* A requirement that let the check proceed holds.                         *)
(***************************************************************************)
LEMMA RequirementHolds ==
    ASSUME NEW holds, NEW code, Require(holds, code).ok
    PROVE  holds
  BY DEF Require, Ok, Fail

(***************************************************************************)
(* GoldenCaseRunner::Run: a case that was left behind passed, on the       *)
(* runner and the schemas of a later call.                                 *)
(***************************************************************************)
LEMMA CaseFound ==
    ASSUME IInv,
           ListCases \/ ReadCase \/ CheckInput \/ RunCase \/ CheckOutput \/ Compare
    PROVE  IInv'
  <1> DEFINE i == ThisCase
             v == InputOf(i)
  <1>1. TypeInv' /\ verdict' # "accepted"
    BY CaseTypes DEF IInv
  <1>2. /\ at \in CaseChecks /\ at # "done"
        /\ UNCHANGED <<build, disk, touched, card, runner, titled, reply>>
    BY DEF ListCases, ReadCase, CheckInput, RunCase, CheckOutput, Compare, CaseChecks
  <1>3. SameFiles
    BY <1>2 DEF SameFiles
  <1>4. /\ RunnerFound' <=> RunnerFound
        /\ Cases' = Cases
        /\ \A j \in Cases : Passed(j)' <=> Passed(j)
    BY <1>2, <1>3, SameFilesSameAnswers, SameFilesSameRunner DEF Cases
  <1>5. Found => RunnerFound
    BY <1>2 DEF Found
  <1>6. ASSUME Found, at' \in CaseChecks \ {"list_cases"},
               todo' # {}, todo' \subseteq Cases,
               \A j \in Cases \ todo' : Passed(j), CaseAtHand'
        PROVE  Found'
    BY <1>4, <1>5, <1>6 DEF Found, Ended, CaseChecks
  <1>7. ASSUME todo' = todo
        PROVE  /\ InputOf(ThisCase)' = v
               /\ ExpectedOf(ThisCase)' = ExpectedOf(i)
               /\ InputAdmitted(InputOf(ThisCase))' = InputAdmitted(v)
               /\ Ran(InputOf(ThisCase))' = Ran(v)
               /\ OutputAdmitted(Ran(InputOf(ThisCase)).value)'
                    = OutputAdmitted(Ran(v).value)
    BY <1>2, <1>7 DEF ThisCase, InputOf, ExpectedOf, InputAdmitted, OutputAdmitted,
                      AdmitsOutput, Admits, IsSchemaFile, Ran, LabelFile
  <1>8. at # "list_cases" /\ Found =>
            /\ todo # {} /\ todo \subseteq Cases
            /\ \A j \in Cases \ todo : Passed(j)
            /\ CaseAtHand
    BY <1>2 DEF Found
  <1>9. ASSUME NEW result, NEW next, Proceed(result, next),
               Fixed /\ Found /\ result.ok /\ at' = next => Found'
        PROVE  IInv'
    BY <1>1, <1>2, <1>9, CheckKeepsFound
  <1> HIDE DEF v, i
  <1>10. CASE ListCases
    <2>1. Found /\ Require(Cases # {}, "GOLDEN_CASE_FAILED").ok /\ at' = "read_case"
            => Found'
      <3>1. todo' = Cases
        BY <1>10 DEF ListCases
      <3>2. at' = "read_case" => CaseAtHand'
        BY DEF CaseAtHand
      <3> QED
        BY <1>6, <3>1, <3>2, RequirementHolds DEF CaseChecks
    <2> QED
      BY <1>9, <1>10, <2>1 DEF ListCases
  <1>11. CASE ReadCase
    <2> DEFINE both == /\ Readable(disk[CaseInputs[ThisCase]])
                       /\ Readable(disk[CaseExpected[ThisCase]])
               result == Require(both, "GOLDEN_CASE_FAILED")
    <2>1. Proceed(result, "check_input") /\ todo' = todo /\ at = "read_case"
      BY <1>11 DEF ReadCase
    <2>2. Found /\ result.ok => /\ v \in Given
                               /\ golden'.input = v /\ golden'.expected = ExpectedOf(i)
      <3>1. result.ok => both
        BY RequirementHolds
      <3>2. Found => i \in DOMAIN CaseInputs
        BY <1>8, <2>1, ThisCaseIsLeft DEF IInv, i
      <3>3. Found /\ both => v \in Given
        <4>1. \A j \in DOMAIN CaseInputs : disk[CaseInputs[j]] \in FilesAt(CaseInputs[j])
          BY FileNamesKnown DEF IInv, TypeInv, HandedOn
        <4> QED
          BY <3>2, <4>1 DEF Given, InputOf, v, i
      <3> QED
        BY <1>11, <3>1, <3>3 DEF ReadCase, InputOf, ExpectedOf, v, i
    <2>3. Found /\ result.ok /\ at' = "check_input" => CaseAtHand'
      BY <1>7, <2>1, <2>2 DEF CaseAtHand
    <2> HIDE DEF result
    <2> QED
      BY <1>6, <1>8, <1>9, <2>1, <2>3 DEF CaseChecks
  <1>12. CASE CheckInput
    <2> DEFINE result == Admits("input_schema", "INPUT_SCHEMA_INVALID", golden.input)
    <2>1. /\ Proceed(result, "run_case") /\ todo' = todo /\ golden' = golden
          /\ at = "check_input"
      BY <1>12 DEF CheckInput
    <2>2. Found => /\ v \in Given
                   /\ golden.input = v /\ golden.expected = ExpectedOf(i)
      BY <1>8, <2>1 DEF CaseAtHand, v, i
    <2>3. Found /\ result.ok => InputAdmitted(v)
      BY <2>2 DEF InputAdmitted
    <2>4. Found /\ result.ok /\ at' = "run_case" => CaseAtHand'
      BY <1>7, <2>1, <2>2, <2>3 DEF CaseAtHand
    <2> HIDE DEF result
    <2> QED
      BY <1>6, <1>8, <1>9, <2>1, <2>4 DEF CaseChecks
  <1>13. CASE RunCase
    <2> DEFINE ran == Inference(runner, LabelFile, golden.input)
               code == IF ran.ok THEN "" ELSE
                       IF ran.code = "thrown" THEN "thrown" ELSE "GOLDEN_CASE_FAILED"
               result == Require(ran.ok, code)
    <2>1. /\ Proceed(result, "check_output") /\ todo' = todo /\ at = "run_case"
      BY <1>13 DEF RunCase
    <2>2. Found => /\ v \in Given
                   /\ golden.input = v /\ golden.expected = ExpectedOf(i)
                   /\ InputAdmitted(v)
      BY <1>8, <2>1 DEF CaseAtHand, v, i
    <2>3. Found => ran = Ran(v)
      BY <2>2 DEF Ran
    <2>4. result.ok => ran.ok
      BY DEF Require, Ok, Fail
    <2>5. ran.ok => /\ golden'.input = golden.input
                    /\ golden'.expected = golden.expected
                    /\ golden'.output = ran.value
      BY <1>13 DEF RunCase
    <2> HIDE DEF result, ran
    <2>6. Found /\ result.ok /\ at' = "check_output" => CaseAtHand'
      BY <1>7, <2>1, <2>2, <2>3, <2>4, <2>5 DEF CaseAtHand
    <2> QED
      BY <1>6, <1>8, <1>9, <2>1, <2>6 DEF CaseChecks
  <1>14. CASE CheckOutput
    <2> DEFINE result == AdmitsOutput(golden.output)
    <2>1. /\ Proceed(result, "compare") /\ todo' = todo /\ golden' = golden
          /\ at = "check_output"
      BY <1>14 DEF CheckOutput
    <2>2. Found => /\ v \in Given
                   /\ golden.input = v /\ golden.expected = ExpectedOf(i)
                   /\ InputAdmitted(v) /\ Ran(v).ok /\ golden.output = Ran(v).value
      BY <1>8, <2>1 DEF CaseAtHand, v, i
    <2>3. Found /\ result.ok => OutputAdmitted(Ran(v).value)
      BY <2>2 DEF OutputAdmitted
    <2> HIDE DEF result
    <2>4. Found /\ result.ok /\ at' = "compare" => CaseAtHand'
      BY <1>7, <2>1, <2>2, <2>3 DEF CaseAtHand
    <2> QED
      BY <1>6, <1>8, <1>9, <2>1, <2>4 DEF CaseChecks
  <1>15. CASE Compare
    <2> DEFINE alike == Matches(golden.expected, golden.output)
               result == Require(alike, "GOLDEN_CASE_FAILED")
               next == IF todo = {ThisCase} THEN "summarise" ELSE "read_case"
    <2>1. /\ Proceed(result, next) /\ todo' = todo \ {i} /\ at = "compare"
      BY <1>15 DEF Compare, i
    <2>2. Found => /\ v \in Given
                   /\ golden.input = v /\ golden.expected = ExpectedOf(i)
                   /\ InputAdmitted(v) /\ Ran(v).ok /\ golden.output = Ran(v).value
                   /\ OutputAdmitted(Ran(v).value)
      BY <1>8, <2>1 DEF CaseAtHand, v, i
    <2>3. result.ok => alike
      BY RequirementHolds
    <2>4. Found /\ result.ok => Passed(i)
      BY <2>2, <2>3 DEF Passed, v
    <2>5. Found /\ result.ok => \A j \in Cases \ todo' : Passed(j)
      BY <1>8, <2>1, <2>4
    <2>6. CASE todo = {i}
      <3>1. next = "summarise"
        BY <2>6 DEF i
      <3>2. Found /\ result.ok /\ at' = "summarise" => Found'
        BY <1>4, <1>5, <2>1, <2>5, <2>6 DEF Found, Ended, CaseChecks
      <3> HIDE DEF result, next
      <3> QED
        BY <1>9, <2>1, <3>1, <3>2
    <2>7. CASE todo # {i}
      <3>1. next = "read_case"
        BY <2>7 DEF i
      <3>2. Found => todo' # {} /\ todo' \subseteq Cases
        BY <1>8, <2>1, <2>7
      <3>3. at' = "read_case" => CaseAtHand'
        BY DEF CaseAtHand
      <3> HIDE DEF result, next
      <3>4. Found /\ result.ok /\ at' = "read_case" => Found'
        BY <1>6, <2>5, <3>2, <3>3 DEF CaseChecks
      <3> QED
        BY <1>9, <2>1, <3>1, <3>4
    <2> QED
      BY <2>6, <2>7
  <1> QED
    BY <1>10, <1>11, <1>12, <1>13, <1>14, <1>15

(***************************************************************************)
(* SummarizeSchema reads nothing of what was found.                        *)
(***************************************************************************)
LEMMA SummariseFound ==
    ASSUME IInv, Summarise
    PROVE  IInv'
  <1>1. /\ at = "summarise" /\ at' = "done"
        /\ UNCHANGED <<build, disk, touched, card, runner, titled, todo, golden, reply>>
    BY DEF Summarise
  <1>2. verdict = "none" /\ Ended
    BY <1>1 DEF IInv, TypeInv, TypeOK, Ended
  <1>3. SameFiles
    BY <1>1 DEF SameFiles
  <1>4. /\ RunnerFound' <=> RunnerFound
        /\ Cases' = Cases
        /\ \A i \in Cases : Passed(i)' <=> Passed(i)
    BY <1>1, <1>3, SameFilesSameAnswers, SameFilesSameRunner DEF Cases
  <1>5. Found => Found'
    BY <1>1, <1>2, <1>4 DEF Found, Ended, CaseChecks
  <1>6. Fixed' => Fixed
    BY <1>1 DEF Fixed
  <1>7. Answered'
    BY <1>1 DEF IInv, Answered
  <1> QED
    BY <1>5, <1>6, <1>7, SummariseTypes DEF IInv

(***************************************************************************)
(* A call changes nothing but the reply, which is what a call gives now.   *)
(***************************************************************************)
LEMMA CallFound ==
    ASSUME IInv, NEW v \in Inputs, Call(v)
    PROVE  IInv'
  <1>1. /\ UNCHANGED <<build, disk, touched, at, card, runner, titled, todo, golden, verdict>>
        /\ at = "done" /\ verdict = "accepted" /\ card.backend = "onnx"
        /\ reply' = [is |-> "reply", input |-> v, outcome |-> CallOutcome(v)]
    BY DEF Call
  <1>2. SameFiles
    BY <1>1 DEF SameFiles
  <1>3. Fixed' => Found'
    BY <1>1, <1>2, SameFilesStillFound DEF IInv, Fixed
  <1>4. reply'.input = v /\ reply'.outcome = CallOutcome(v)
    BY <1>1
  <1>5. CallOutcome(reply.input)' = CallOutcome(v)
    <2>1. build' = build /\ disk' = disk /\ card' = card /\ reply'.input = v
      BY <1>1, <1>4
    <2> QED
      BY <2>1 DEF CallOutcome, Admits, AdmitsOutput, IsSchemaFile, LabelFile
  <1>6. Answered'
    BY <1>1, <1>4, <1>5 DEF Answered
  <1> QED
    BY <1>3, <1>6, CallTypes DEF IInv

(***************************************************************************)
(* A change of the card or the tokenizer leaves what was found; any other  *)
(* ends what the invariant says; both take the last reply with them.       *)
(***************************************************************************)
LEMMA ChangeFound ==
    ASSUME IInv, NEW f \in FileNames, Change(f)
    PROVE  IInv'
  <1>1. /\ touched' = touched \cup {f} /\ reply' = Nothing
        /\ UNCHANGED <<build, at, card, runner, titled, todo, golden, verdict>>
    BY DEF Change
  <1>2. Answered'
    BY <1>1 DEF Answered, Nothing
  <1>3. ASSUME Fixed'
        PROVE  Found'
    <2>1. f \in {"card", "tokenizer"} /\ Fixed
      BY <1>1, <1>3 DEF Fixed
    <2>2. \A g \in FileNames : g # f => disk'[g] = disk[g]
      BY DEF Change, IInv, TypeInv, HandedOn
    <2>3. SameFiles
      BY <1>1, <2>1, <2>2 DEF SameFiles
    <2> QED
      BY <1>1, <2>1, <2>3, SameFilesStillFound DEF IInv
  <1> QED
    BY <1>2, <1>3, ChangeTypes DEF IInv

(***************************************************************************)
(* What was found stays found.                                             *)
(***************************************************************************)
LEMMA InitIInv == Init => IInv
  <1> SUFFICES ASSUME Init PROVE IInv
    OBVIOUS
  <1>1. Found
    BY DEF Init, Found, Ended, CaseChecks
  <1>2. Answered
    BY DEF Init, Answered, Nothing
  <1> QED
    BY <1>1, <1>2, InitTypes DEF IInv

(***************************************************************************)
(* Every step keeps the invariant.                                         *)
(***************************************************************************)
LEMMA NextIInv ==
    ASSUME IInv, [Next]_vars
    PROVE  IInv'
  <1>1. CASE UNCHANGED vars
    <2>1. /\ SameFiles
          /\ UNCHANGED <<at, runner, todo, golden, verdict, touched, reply>>
      BY <1>1 DEF vars, SameFiles
    <2>2. Fixed' => Found'
      BY <2>1, SameFilesStillFound DEF IInv, Fixed
    <2>3. Answered'
      BY <1>1 DEF vars, IInv, Answered, CallOutcome, Admits, AdmitsOutput,
                  IsSchemaFile, LabelFile
    <2> QED
      BY <2>2, <2>3, NextTypes DEF IInv
  <1> QED
    BY <1>1, BeforeRunnerFound, LoadFound, CaseFound, SummariseFound, CallFound,
       ChangeFound DEF Next

(***************************************************************************)
(* The inductive invariant: while no file but the card and the tokenizer   *)
(* changes, each check leaves what a later call finds again, and a reply   *)
(* is what a call gives now.                                               *)
(***************************************************************************)
THEOREM Invariance == Spec => []IInv
  BY InitIInv, NextIInv, PTL DEF Spec

(***************************************************************************)
(* An accepted package does what its golden cases say, whatever the schema *)
(* validator and the runner compute.                                       *)
(***************************************************************************)
THEOREM RunsGoldenCases == Spec => []AcceptedRunsItsGoldenCases
  <1>1. IInv => AcceptedRunsItsGoldenCases
    <2> SUFFICES ASSUME IInv, Replied, touched \subseteq {"card", "tokenizer"},
                        NEW i \in DOMAIN CaseInputs,
                        disk[CaseInputs[i]] = Holding(reply.input)
                 PROVE  /\ reply.outcome.ok
                        /\ Matches(disk[CaseExpected[i]].content, reply.outcome.value)
      BY DEF AcceptedRunsItsGoldenCases
    <2> DEFINE v == reply.input
    <2>1. /\ at = "done" /\ verdict = "accepted" /\ card.backend = "onnx"
          /\ reply.outcome = CallOutcome(v)
      BY DEF IInv, Answered, Replied
    <2>2. RunnerFound /\ \A j \in Cases : Passed(j)
      BY <2>1 DEF IInv, Fixed, Found, Ended
    <2>3. i \in Cases
      BY DEF Cases, Exists, Holding
    <2>4. InputOf(i) = v
      BY DEF InputOf, Holding
    <2>5. /\ InputAdmitted(v) /\ Ran(v).ok /\ OutputAdmitted(Ran(v).value)
          /\ Matches(ExpectedOf(i), Ran(v).value)
      BY <2>2, <2>3, <2>4 DEF Passed
    <2>6. CallOutcome(v) = Ran(v)
      BY <2>2, <2>5 DEF CallOutcome, RunnerFound, LoadedNow, Ran, InputAdmitted,
                        OutputAdmitted
    <2> QED
      BY <2>1, <2>5, <2>6 DEF ExpectedOf
  <1> QED
    BY <1>1, Invariance, PTL
-----------------------------------------------------------------------------
(***************************************************************************)
(* Of the members of a finite set, one has the greatest value.             *)
(***************************************************************************)
LEMMA GreatestOf ==
    ASSUME NEW S, IsFiniteSet(S), S # {},
           NEW value, \A x \in S : value[x] \in Int
    PROVE  \E x \in S : \A y \in S : value[y] <= value[x]
  <1> DEFINE Has1(T) == \E x \in T : \A y \in T : value[y] <= value[x]
             bad == {n \in Nat : \E T \in SUBSET S :
                        T # {} /\ Cardinality(T) = n /\ ~Has1(T)}
  <1>1. bad = {}
    <2> SUFFICES ASSUME bad # {} PROVE FALSE
      OBVIOUS
    <2>1. Min(bad) \in bad /\ \A m \in bad : Min(bad) <= m
      BY FirstOf
    <2>2. PICK T \in SUBSET S : T # {} /\ Cardinality(T) = Min(bad) /\ ~Has1(T)
      BY <2>1
    <2> HIDE DEF bad
    <2>3. PICK x \in T : TRUE
      BY <2>2
    <2> DEFINE U == T \ {x}
    <2>4. IsFiniteSet(T) /\ Cardinality(T) \in Nat
      BY FS_Subset, FS_CardinalityType
    <2>5. Cardinality(U) = Cardinality(T) - 1
      BY <2>3, <2>4, FS_RemoveElement
    <2>6. IsFiniteSet(U) /\ Cardinality(U) \in Nat
      BY <2>4, FS_Subset, FS_CardinalityType
    <2>7. Cardinality(U) \notin bad
      BY <2>1, <2>2, <2>4, <2>5, <2>6
    <2>8. CASE U = {}
      <3>1. \A y \in T : y = x
        BY <2>8
      <3>2. value[x] <= value[x]
        BY <2>3
      <3> QED
        BY <2>2, <2>3, <3>1, <3>2
    <2>9. CASE U # {}
      <3>1. PICK y \in U : \A z \in U : value[z] <= value[y]
        BY <2>6, <2>7, <2>9 DEF bad
      <3>2. \A z \in T : z = x \/ value[z] <= value[y]
        BY <3>1
      <3>3. value[x] \in Int /\ value[y] \in Int /\ \A z \in T : value[z] \in Int
        BY <2>3
      <3>4. CASE value[x] <= value[y]
        BY <2>2, <3>1, <3>2, <3>4
      <3>5. CASE value[y] <= value[x]
        <4>1. \A z \in T : value[z] <= value[x]
          BY <3>2, <3>3, <3>5
        <4> QED
          BY <2>2, <2>3, <4>1
      <3> QED
        BY <3>3, <3>4, <3>5
    <2> QED
      BY <2>8, <2>9
  <1>2. Cardinality(S) \in Nat
    BY FS_CardinalityType
  <1> QED
    BY <1>1, <1>2

(***************************************************************************)
(* A finite set in the order of a value each member has.                   *)
(***************************************************************************)
InOrder(f, S, value) ==
    /\ f \in Bijection(1..Cardinality(S), S)
    /\ \A i, j \in 1..Cardinality(S) : i < j => value[f[i]] <= value[f[j]]

(***************************************************************************)
(* Any finite set can be put in the order of its values, greatest last.    *)
(***************************************************************************)
LEMMA OrderExists ==
    ASSUME NEW S, IsFiniteSet(S),
           NEW value, \A x \in S : value[x] \in Int
    PROVE  \E f : InOrder(f, S, value)
  <1> DEFINE bad == {n \in Nat : \E T \in SUBSET S :
                        Cardinality(T) = n /\ ~(\E f : InOrder(f, T, value))}
  <1>1. bad = {}
    <2> SUFFICES ASSUME bad # {} PROVE FALSE
      OBVIOUS
    <2>1. Min(bad) \in bad /\ \A m \in bad : Min(bad) <= m
      BY FirstOf
    <2>2. PICK T \in SUBSET S :
            Cardinality(T) = Min(bad) /\ ~(\E f : InOrder(f, T, value))
      BY <2>1
    <2> HIDE DEF bad
    <2>3. IsFiniteSet(T) /\ Cardinality(T) \in Nat
      BY FS_Subset, FS_CardinalityType
    <2>4. CASE T = {}
      <3> DEFINE f == [i \in 1..0 |-> i]
      <3>1. Cardinality(T) = 0
        BY <2>4, FS_EmptySet
      <3>2. f \in Bijection(1..0, T)
        BY <2>4 DEF Bijection, Injection, Surjection, IsInjective
      <3>3. InOrder(f, T, value)
        BY <3>1, <3>2 DEF InOrder
      <3> QED
        BY <2>2, <3>3
    <2>5. CASE T # {}
      <3> DEFINE n == Cardinality(T)
      <3>1. PICK x \in T : \A y \in T : value[y] <= value[x]
        BY <2>3, <2>5, GreatestOf
      <3> DEFINE U == T \ {x}
      <3>2. IsFiniteSet(U) /\ Cardinality(U) = n - 1 /\ Cardinality(U) \in Nat
        BY <2>3, FS_RemoveElement, FS_CardinalityType
      <3>3. Cardinality(U) \notin bad
        BY <2>1, <2>2, <2>3, <3>2
      <3>4. PICK g : InOrder(g, U, value)
        BY <3>2, <3>3 DEF bad
      <3> DEFINE f == [i \in 1..n |-> IF i = n THEN x ELSE g[i]]
      <3>5. /\ g \in [1..(n - 1) -> U]
            /\ \A i, j \in 1..(n - 1) : g[i] = g[j] => i = j
            /\ \A y \in U : \E i \in 1..(n - 1) : g[i] = y
            /\ \A i, j \in 1..(n - 1) : i < j => value[g[i]] <= value[g[j]]
        BY <3>2, <3>4 DEF InOrder, Bijection, Injection, Surjection, IsInjective
      <3>6. n \in Nat /\ n >= 1
        BY <2>3, <3>2
      <3> HIDE DEF n, U
      <3>7. U \subseteq T /\ x \notin U /\ \A y \in T : y = x \/ y \in U
        BY DEF U
      <3>8. f \in [1..n -> T]
        BY <3>1, <3>5, <3>6, <3>7
      <3>9. \A i, j \in 1..n : f[i] = f[j] => i = j
        BY <3>5, <3>6, <3>7
      <3>10. \A y \in T : \E i \in 1..n : f[i] = y
        <4> SUFFICES ASSUME NEW y \in T PROVE \E i \in 1..n : f[i] = y
          OBVIOUS
        <4>1. CASE y = x
          BY <3>6, <4>1
        <4>2. CASE y \in U
          <5>1. PICK i \in 1..(n - 1) : g[i] = y
            BY <3>5, <4>2
          <5>2. i \in 1..n /\ f[i] = y
            BY <3>6, <5>1
          <5> QED
            BY <5>2
        <4> QED
          BY <3>7, <4>1, <4>2
      <3>11. \A i, j \in 1..n : i < j => value[f[i]] <= value[f[j]]
        <4> SUFFICES ASSUME NEW i \in 1..n, NEW j \in 1..n, i < j
                     PROVE  value[f[i]] <= value[f[j]]
          OBVIOUS
        <4>1. i \in 1..(n - 1) /\ f[i] = g[i] /\ g[i] \in T
          BY <3>5, <3>6, <3>7
        <4>2. CASE j = n
          BY <3>1, <3>6, <4>1, <4>2
        <4>3. CASE j # n
          BY <3>5, <3>6, <4>1, <4>3
        <4> QED
          BY <4>2, <4>3
      <3> HIDE DEF f
      <3>12. f \in Bijection(1..n, T)
        BY <3>8, <3>9, <3>10 DEF Bijection, Injection, Surjection, IsInjective
      <3>13. InOrder(f, T, value)
        BY <3>11, <3>12 DEF InOrder, n
      <3> QED
        BY <2>2, <3>13
    <2> QED
      BY <2>4, <2>5
  <1>2. Cardinality(S) \in Nat
    BY FS_CardinalityType
  <1> QED
    BY <1>1, <1>2

(***************************************************************************)
(* std::sort: Sorted puts every member in one place, by its value.         *)
(***************************************************************************)
LEMMA SortedIsOrder ==
    ASSUME NEW S, IsFiniteSet(S),
           NEW value, \A x \in S : value[x] \in Int
    PROVE  InOrder(Sorted(S, value), S, value)
  <1>1. PICK f : InOrder(f, S, value)
    BY OrderExists
  <1> QED
    BY <1>1 DEF InOrder, Sorted

(***************************************************************************)
(* The running totals of natural numbers.                                  *)
(***************************************************************************)
SumsTo(n, f, s) ==
    /\ f = [i \in 0..n |-> IF i = 0 THEN 0 ELSE f[i - 1] + s[i]]
    /\ \A i \in 0..n : f[i] \in Nat
    /\ \A i \in 0..n, j \in 1..n : j <= i => s[j] <= f[i]

(***************************************************************************)
(* Natural numbers have running totals, each at least what it adds up.     *)
(***************************************************************************)
LEMMA SumsExist ==
    ASSUME NEW n \in Nat, NEW s \in [1..n -> Nat]
    PROVE  \E f : SumsTo(n, f, s)
  <1> DEFINE bad == {m \in 0..n : ~(\E f : SumsTo(m, f, s))}
  <1>1. bad = {}
    <2> SUFFICES ASSUME bad # {} PROVE FALSE
      OBVIOUS
    <2>1. Min(bad) \in bad /\ \A k \in bad : Min(bad) <= k
      <3>1. bad \subseteq Nat
        OBVIOUS
      <3> QED
        BY <3>1, FirstOf
    <2>2. PICK m \in bad : \A k \in bad : m <= k
      BY <2>1
    <2>3. m \in 0..n /\ ~(\E f : SumsTo(m, f, s))
      BY <2>2
    <2>4. CASE m = 0
      <3> DEFINE f == [i \in 0..0 |-> 0]
      <3>1. SumsTo(0, f, s)
        BY DEF SumsTo
      <3> QED
        BY <2>3, <2>4, <3>1
    <2>5. CASE m # 0
      <3>1. m - 1 \in 0..n /\ m - 1 \notin bad
        BY <2>2, <2>3, <2>5
      <3>2. PICK g : SumsTo(m - 1, g, s)
        BY <3>1
      <3> HIDE DEF bad
      <3> DEFINE f == [i \in 0..m |-> IF i = m THEN g[m - 1] + s[m] ELSE g[i]]
      <3>3. /\ g = [i \in 0..(m - 1) |-> IF i = 0 THEN 0 ELSE g[i - 1] + s[i]]
            /\ \A i \in 0..(m - 1) : g[i] \in Nat
            /\ \A i \in 0..(m - 1), j \in 1..(m - 1) : j <= i => s[j] <= g[i]
        BY <3>2 DEF SumsTo
      <3>4. \A i \in 0..(m - 1) : g[i] = IF i = 0 THEN 0 ELSE g[i - 1] + s[i]
        BY <3>3
      <3>5. m \in Nat \ {0} /\ m \in 1..n /\ \A j \in 1..m : s[j] \in Nat
        BY <2>3, <2>5
      <3>6. /\ \A i \in 0..(m - 1) : f[i] = g[i]
            /\ f[m] = g[m - 1] + s[m]
        BY <3>5
      <3>7. f = [i \in 0..m |-> IF i = 0 THEN 0 ELSE f[i - 1] + s[i]]
        <4>1. \A i \in 0..m : f[i] = IF i = 0 THEN 0 ELSE f[i - 1] + s[i]
          <5> SUFFICES ASSUME NEW i \in 0..m
                       PROVE  f[i] = IF i = 0 THEN 0 ELSE f[i - 1] + s[i]
            OBVIOUS
          <5> HIDE DEF f
          <5>1. CASE i = m
            <6>1. m - 1 \in 0..(m - 1)
              BY <3>5
            <6> QED
              BY <3>5, <3>6, <5>1, <6>1
          <5>2. CASE i # m
            <6>1. i \in 0..(m - 1) /\ (i # 0 => i - 1 \in 0..(m - 1))
              BY <3>5, <5>2
            <6> QED
              BY <3>4, <3>6, <6>1
          <5> QED
            BY <5>1, <5>2
        <4> QED
          BY <4>1
      <3>8. \A i \in 0..m : f[i] \in Nat
        BY <3>3, <3>5, <3>6
      <3>9. \A i \in 0..m, j \in 1..m : j <= i => s[j] <= f[i]
        <4> SUFFICES ASSUME NEW i \in 0..m, NEW j \in 1..m, j <= i
                     PROVE  s[j] <= f[i]
          OBVIOUS
        <4> HIDE DEF f
        <4>1. CASE i # m
          <5>1. i \in 0..(m - 1) /\ j \in 1..(m - 1)
            BY <3>5, <4>1
          <5> QED
            BY <3>3, <3>6, <5>1
        <4>2. CASE i = m /\ j = m
          <5>1. g[m - 1] \in Nat /\ s[m] \in Nat
            BY <3>3, <3>5
          <5> QED
            BY <3>6, <4>2, <5>1
        <4>3. CASE i = m /\ j # m
          <5>1. m - 1 \in 0..(m - 1) /\ j \in 1..(m - 1) /\ j <= m - 1
            BY <3>5, <4>3
          <5>2. s[j] <= g[m - 1] /\ g[m - 1] \in Nat /\ s[m] \in Nat /\ s[j] \in Nat
            BY <3>3, <3>5, <5>1
          <5> QED
            BY <3>6, <4>3, <5>2
        <4> QED
          BY <4>1, <4>2, <4>3
      <3> HIDE DEF f
      <3>10. SumsTo(m, f, s)
        BY <3>7, <3>8, <3>9 DEF SumsTo
      <3> QED
        BY <2>3, <3>10
    <2> QED
      BY <2>4, <2>5
  <1>2. n \in 0..n
    OBVIOUS
  <1> QED
    BY <1>1, <1>2

(***************************************************************************)
(* std::accumulate: the total is a number and at least each of its parts.  *)
(***************************************************************************)
LEMMA TotalIsSum ==
    ASSUME NEW n \in Nat, NEW s \in [1..n -> Nat]
    PROVE  Total(s) \in Nat /\ \A j \in 1..n : s[j] <= Total(s)
  <1> DEFINE upTo == CHOOSE f : f = [i \in 0..n |-> IF i = 0 THEN 0 ELSE f[i - 1] + s[i]]
  <1>1. PICK f : SumsTo(n, f, s)
    BY SumsExist
  <1>2. upTo = [i \in 0..n |-> IF i = 0 THEN 0 ELSE upTo[i - 1] + s[i]]
    BY <1>1 DEF SumsTo
  <1>3. Len(s) = n
    OBVIOUS
  <1>4. Total(s) = upTo[n]
    BY <1>3 DEF Total
  <1> HIDE DEF upTo
  <1> DEFINE bad == {i \in 0..n : ~(upTo[i] = f[i])}
  <1>5. bad = {}
    <2> SUFFICES ASSUME bad # {} PROVE FALSE
      OBVIOUS
    <2>1. bad \subseteq Nat
      OBVIOUS
    <2>2. PICK i \in bad : \A k \in bad : i <= k
      BY <2>1, FirstOf
    <2>3. CASE i = 0
      BY <1>1, <1>2, <2>2, <2>3 DEF SumsTo
    <2>4. CASE i # 0
      <3>1. i \in 0..n /\ i - 1 \in 0..n /\ i - 1 \notin bad
        BY <2>2, <2>4
      <3>2. upTo[i - 1] = f[i - 1]
        BY <3>1
      <3>3. upTo[i] = upTo[i - 1] + s[i] /\ f[i] = f[i - 1] + s[i]
        BY <1>1, <1>2, <2>4, <3>1 DEF SumsTo
      <3> QED
        BY <2>2, <3>2, <3>3
    <2> QED
      BY <2>3, <2>4
  <1>6. Total(s) = f[n]
    BY <1>4, <1>5
  <1> QED
    BY <1>1, <1>6 DEF SumsTo

(***************************************************************************)
(* The weight of a score falls with its distance from the greatest.        *)
(***************************************************************************)
LEMMA WeightFalls ==
    /\ \A d \in Nat : Weight(d) \in Nat
    /\ Weight(0) = 1024
    /\ \A d, e \in Nat : d <= e => Weight(e) <= Weight(d)
  BY DEF Weight

(***************************************************************************)
(* Division by the total keeps the order of what is divided.               *)
(***************************************************************************)
LEMMA QuotientsInOrder ==
    ASSUME NEW a \in Int, NEW b \in Int, NEW t \in Nat \ {0}, a <= b
    PROVE  a \div t \in Int /\ a \div t <= b \div t
  OBVIOUS

(***************************************************************************)
(* The softmax of the model (Normalized, with integer weights in the place *)
(* of the code's exponentials and doubles) gives each score a number, and a*)
(* score that is not less than another one a number that is not less.      *)
(***************************************************************************)
LEMMA NormalizedKeepsOrder ==
    ASSUME NEW n \in Nat \ {0}, NEW s \in [1..n -> Int]
    PROVE  /\ Normalized(s) \in [1..n -> Int]
           /\ \A i, j \in 1..n : s[i] <= s[j] => Normalized(s)[i] <= Normalized(s)[j]
  <1> DEFINE top == Max(Range(s))
             far(i) == (top - s[i]) \div 100
             weights == [i \in 1..n |-> Weight(far(i))]
  <1>1. PICK m \in 1..n : \A i \in 1..n : s[i] <= s[m]
    <2>1. 1 \in Int /\ n \in Int /\ 1..n # {} /\ \A i \in 1..n : s[i] \in Int
      OBVIOUS
    <2>2. IsFiniteSet(1..n)
      BY <2>1, FS_Interval
    <2> QED
      BY <2>1, <2>2, GreatestOf
  <1>2. top = s[m]
    <2>1. s[m] \in Range(s) /\ \A x \in Range(s) : x \in Int /\ s[m] >= x
      BY <1>1 DEF Range
    <2>2. top \in Range(s) /\ \A x \in Range(s) : top >= x
      BY <2>1 DEF Max
    <2> QED
      BY <2>1, <2>2
  <1> HIDE DEF top
  <1>3. \A i \in 1..n : far(i) \in Nat
    BY <1>1, <1>2
  <1>4. \A i, j \in 1..n : s[i] <= s[j] => far(j) <= far(i)
    BY <1>1, <1>2
  <1>5. far(m) = 0
    BY <1>2
  <1> HIDE DEF far
  <1>6. /\ weights \in [1..n -> Nat]
        /\ weights[m] = 1024
        /\ \A i, j \in 1..n : s[i] <= s[j] => weights[i] <= weights[j]
    <2>1. \A i \in 1..n : Weight(far(i)) \in Nat
      BY <1>3, WeightFalls
    <2>2. weights[m] = 1024
      BY <1>5, WeightFalls
    <2>3. ASSUME NEW i \in 1..n, NEW j \in 1..n, s[i] <= s[j]
          PROVE  weights[i] <= weights[j]
      <3>1. Weight(far(i)) <= Weight(far(j))
        BY <1>3, <1>4, <2>3, WeightFalls
      <3> QED
        BY <3>1
    <2> QED
      BY <2>1, <2>2, <2>3
  <1> HIDE DEF weights
  <1>7. Total(weights) \in Nat \ {0}
    <2>1. n \in Nat /\ weights \in [1..n -> Nat]
      BY <1>6
    <2>2. Total(weights) \in Nat /\ \A j \in 1..n : weights[j] <= Total(weights)
      BY <2>1, TotalIsSum
    <2> QED
      BY <1>6, <2>2
  <1> DEFINE shares == [i \in 1..n |-> (100 * weights[i]) \div Total(weights)]
  <1>8. Normalized(s) = s \/ Normalized(s) = shares
    <2>1. DOMAIN s = 1..n
      OBVIOUS
    <2> QED
      BY <2>1 DEF Normalized, top, far, weights
  <1>9. /\ shares \in [1..n -> Int]
        /\ \A i, j \in 1..n : s[i] <= s[j] => shares[i] <= shares[j]
    <2>1. ASSUME NEW i \in 1..n, NEW j \in 1..n, s[i] <= s[j]
          PROVE  /\ 100 * weights[i] \in Int /\ 100 * weights[j] \in Int
                 /\ 100 * weights[i] <= 100 * weights[j]
      <3>1. weights[i] \in Nat /\ weights[j] \in Nat
        BY <1>6
      <3>2. weights[i] <= weights[j]
        BY <1>6, <2>1
      <3> QED
        BY <3>1, <3>2
    <2>2. \A i \in 1..n : shares[i] \in Int
      <3> TAKE i \in 1..n
      <3>1. 100 * weights[i] \in Int /\ 100 * weights[i] <= 100 * weights[i]
        BY <1>6
      <3> QED
        BY <1>7, <3>1, QuotientsInOrder
    <2>3. \A i, j \in 1..n : s[i] <= s[j] => shares[i] <= shares[j]
      <3> SUFFICES ASSUME NEW i \in 1..n, NEW j \in 1..n, s[i] <= s[j]
                   PROVE  shares[i] <= shares[j]
        OBVIOUS
      <3> QED
        BY <1>7, <2>1, QuotientsInOrder
    <2> QED
      BY <2>2, <2>3
  <1> HIDE DEF shares
  <1> QED
    BY <1>8, <1>9

(***************************************************************************)
(* The classes by falling probability.                                     *)
(***************************************************************************)
LEMMA RankedFalls ==
    ASSUME NEW n \in Nat, NEW p \in [1..n -> Int]
    PROVE  /\ Ranked(p) \in Bijection(1..n, 1..n)
           /\ \A i, j \in 1..n : i < j => p[Ranked(p)[i]] >= p[Ranked(p)[j]]
  <1> DEFINE value == [i \in 1..n |-> -p[i]]
             order == Sorted(1..n, value)
  <1>1. 1 \in Int /\ n \in Int /\ \A i \in 1..n : value[i] \in Int
    OBVIOUS
  <1>2. IsFiniteSet(1..n) /\ Cardinality(1..n) = n
    <2>1. /\ IsFiniteSet(1..n)
          /\ Cardinality(1..n) = IF 1 > n THEN 0 ELSE n - 1 + 1
      BY <1>1, FS_Interval
    <2> QED
      BY <2>1
  <1>3. InOrder(order, 1..n, value)
    BY <1>1, <1>2, SortedIsOrder
  <1>4. DOMAIN p = 1..n
    OBVIOUS
  <1>5. Ranked(p) = order
    BY <1>4 DEF Ranked
  <1> HIDE DEF order
  <1>6. /\ order \in Bijection(1..n, 1..n)
        /\ \A i, j \in 1..n : i < j => value[order[i]] <= value[order[j]]
    BY <1>2, <1>3 DEF InOrder
  <1>7. order \in [1..n -> 1..n]
    BY <1>6 DEF Bijection, Injection
  <1>8. ASSUME NEW i \in 1..n, NEW j \in 1..n, i < j
        PROVE  p[order[i]] >= p[order[j]]
    <2>1. order[i] \in 1..n /\ order[j] \in 1..n
      BY <1>7
    <2>2. value[order[i]] <= value[order[j]]
      BY <1>6, <1>8
    <2> QED
      BY <2>1, <2>2
  <1> QED
    BY <1>5, <1>6, <1>8

(***************************************************************************)
(* Numbers that do not fall and are together 0, 1, ... are each in its     *)
(* place.                                                                  *)
(***************************************************************************)
LEMMA EachInItsPlace ==
    ASSUME NEW n \in Nat, NEW g \in Surjection(1..n, 0..(n - 1)),
           \A i, j \in 1..n : i < j => g[i] <= g[j]
    PROVE  \A i \in 1..n : g[i] = i - 1
  <1>1. /\ g \in [1..n -> 0..(n - 1)]
        /\ \A c \in 0..(n - 1) : \E i \in 1..n : g[i] = c
    BY DEF Surjection
  <1>2. \A i, j \in 1..n : g[i] = g[j] => i = j
    <2>1. 1 \in Int /\ 0 \in Int /\ n \in Int /\ n - 1 \in Int
      OBVIOUS
    <2>2. /\ IsFiniteSet(1..n)
          /\ Cardinality(1..n) = IF 1 > n THEN 0 ELSE n - 1 + 1
      BY <2>1, FS_Interval
    <2>3. Cardinality(0..(n - 1)) = IF 0 > n - 1 THEN 0 ELSE n - 1 - 0 + 1
      BY <2>1, FS_Interval
    <2>4. Cardinality(1..n) = Cardinality(0..(n - 1))
      BY <2>2, <2>3
    <2>5. g \in Injection(1..n, 0..(n - 1))
      BY <2>2, <2>4, FS_SurjSameCardinalityImpliesInj
    <2> QED
      BY <1>1, <2>5 DEF Injection, IsInjective
  <1> DEFINE bad == {i \in 1..n : g[i] # i - 1}
  <1>3. bad = {}
    <2> SUFFICES ASSUME bad # {} PROVE FALSE
      OBVIOUS
    <2>1. bad \subseteq Nat
      OBVIOUS
    <2>2. PICK i \in bad : \A k \in bad : i <= k
      BY <2>1, FirstOf
    <2>3. i \in 1..n /\ g[i] # i - 1 /\ \A k \in 1..n : k < i => g[k] = k - 1
      BY <2>2
    <2>4. PICK j \in 1..n : g[j] = i - 1
      BY <1>1, <2>3
    <2>5. i < j
      BY <2>3, <2>4
    <2>6. PICK c \in 0..(n - 1) : c = g[i]
      BY <1>1, <2>3
    <2>7. c <= i - 1 /\ c # i - 1
      BY <2>3, <2>4, <2>5, <2>6
    <2>8. c + 1 \in 1..n /\ c + 1 < i
      BY <2>3, <2>7
    <2>9. g[c + 1] = c
      BY <2>3, <2>8
    <2> QED
      BY <1>2, <2>3, <2>6, <2>8, <2>9
  <1> QED
    BY <1>3

(***************************************************************************)
(* LoadLabels: in a map that numbers the classes, the label of a class is  *)
(* the one of its number, wherever the file has it.                        *)
(***************************************************************************)
LEMMA LabelsByNumber ==
    ASSUME NEW map, IsFiniteSet(Names(map)), Names(map) \subseteq DOMAIN Stoi,
           NumbersClasses(map)
    PROVE  /\ Cardinality(Names(map)) \in Nat
           /\ DOMAIN Labels(map) = 1..Cardinality(Names(map))
           /\ Len(Labels(map)) = Cardinality(Names(map))
           /\ \A c \in 1..Cardinality(Names(map)) :
                \E k \in Names(map) : Stoi[k] = c - 1 /\ Labels(map)[c] = At(map, k)
  <1> DEFINE n == Cardinality(Names(map))
             keys == Sorted(Names(map), Stoi)
             g == [i \in 1..n |-> Stoi[keys[i]]]
  <1>1. n \in Nat
    BY FS_CardinalityType
  <1>2. \A k \in Names(map) : Stoi[k] \in Int
    BY KeysAssumption
  <1>3. InOrder(keys, Names(map), Stoi)
    BY <1>2, SortedIsOrder
  <1>4. Labels(map) = [i \in 1..n |-> At(map, keys[i])]
    BY DEF Labels
  <1>5. {Stoi[k] : k \in Names(map)} = 0..(n - 1)
    BY DEF NumbersClasses
  <1> HIDE DEF keys
  <1>6. /\ keys \in [1..n -> Names(map)]
        /\ \A k \in Names(map) : \E i \in 1..n : keys[i] = k
        /\ \A i, j \in 1..n : i < j => Stoi[keys[i]] <= Stoi[keys[j]]
    BY <1>3 DEF InOrder, Bijection, Injection, Surjection
  <1> HIDE DEF n
  <1>7. g \in Surjection(1..n, 0..(n - 1))
    <2>1. \A i \in 1..n : g[i] \in 0..(n - 1)
      BY <1>5, <1>6
    <2>2. \A c \in 0..(n - 1) : \E i \in 1..n : g[i] = c
      <3> TAKE c \in 0..(n - 1)
      <3>1. PICK k \in Names(map) : Stoi[k] = c
        BY <1>5
      <3>2. PICK i \in 1..n : keys[i] = k
        BY <1>6
      <3> QED
        BY <3>1, <3>2
    <2> QED
      BY <2>1, <2>2 DEF Surjection
  <1>8. \A i, j \in 1..n : i < j => g[i] <= g[j]
    BY <1>6
  <1> HIDE DEF g
  <1>9. \A i \in 1..n : g[i] = i - 1
    BY <1>1, <1>7, <1>8, EachInItsPlace
  <1>10. ASSUME NEW c \in 1..n
         PROVE  \E k \in Names(map) : Stoi[k] = c - 1 /\ Labels(map)[c] = At(map, k)
    <2>1. keys[c] \in Names(map) /\ Labels(map)[c] = At(map, keys[c])
      BY <1>4, <1>6
    <2>2. Stoi[keys[c]] = c - 1
      BY <1>9 DEF g
    <2> QED
      BY <2>1, <2>2
  <1>11. DOMAIN Labels(map) = 1..n /\ Len(Labels(map)) = n
    BY <1>1, <1>4
  <1> QED
    BY <1>1, <1>10, <1>11 DEF n

(***************************************************************************)
(* Of the ranked classes, those among the first that have a label: each is *)
(* given once, by falling probability, and one that is left out is not     *)
(* more probable than any of them.                                         *)
(***************************************************************************)
BestOf(r, class, known, p) ==
    /\ class \in Injection(1..r, known)
    /\ \A i, j \in 1..r : i < j => p[class[i]] >= p[class[j]]
    /\ \A c \in known \ Range(class), i \in 1..r : p[c] <= p[class[i]]

Covered(p, m, limit) == {k \in 1..limit : Ranked(p)[k] <= m}

ClassesAt(p, place, r) == [i \in 1..r |-> Ranked(p)[place[i]]]

LEMMA FirstRankedAreBest ==
    ASSUME NEW n \in Nat, NEW p \in [1..n -> Int], NEW m \in Nat,
           NEW limit \in 1..n, NEW r \in Nat,
           NEW place \in Bijection(1..r, Covered(p, m, limit)),
           \A i, j \in 1..r : i < j => place[i] <= place[j]
    PROVE  BestOf(r, ClassesAt(p, place, r), 1..Min({m, n}), p)
  <1> DEFINE order == Ranked(p)
             covered == {k \in 1..limit : order[k] <= m}
             known == 1..Min({m, n})
             class == [i \in 1..r |-> order[place[i]]]
  <1>1. /\ order \in [1..n -> 1..n]
        /\ \A i, j \in 1..n : order[i] = order[j] => i = j
        /\ \A c \in 1..n : \E k \in 1..n : order[k] = c
        /\ \A i, j \in 1..n : i < j => p[order[i]] >= p[order[j]]
    <2>1. /\ order \in Bijection(1..n, 1..n)
          /\ \A i, j \in 1..n : i < j => p[order[i]] >= p[order[j]]
      BY RankedFalls
    <2> HIDE DEF order
    <2>2. order \in [1..n -> 1..n]
      BY <2>1 DEF Bijection, Injection
    <2>3. \A i, j \in 1..n : order[i] = order[j] => i = j
      BY <2>1, <2>2 DEF Bijection, Injection, IsInjective
    <2>4. \A c \in 1..n : \E k \in 1..n : order[k] = c
      BY <2>1 DEF Bijection, Surjection
    <2> QED
      BY <2>1, <2>2, <2>3, <2>4
  <1> HIDE DEF order
  <1>2. \A i, j \in 1..n : i <= j => p[order[i]] >= p[order[j]]
    <2> SUFFICES ASSUME NEW i \in 1..n, NEW j \in 1..n, i <= j
                 PROVE  p[order[i]] >= p[order[j]]
      OBVIOUS
    <2>1. order[i] \in 1..n
      BY <1>1
    <2>2. p[order[i]] \in Int
      BY <2>1
    <2>3. CASE i = j
      BY <2>2, <2>3
    <2>4. CASE i < j
      BY <1>1, <2>4
    <2> QED
      BY <2>3, <2>4
  <1>3. known = (1..m) \cap (1..n)
    <2>1. {m, n} \subseteq Nat /\ {m, n} # {}
      OBVIOUS
    <2>2. PICK k \in {m, n} : k = Min({m, n}) /\ \A j \in {m, n} : k <= j
      BY <2>1, FirstOf
    <2>3. k \in Nat /\ k <= m /\ k <= n /\ (k = m \/ k = n)
      BY <2>2
    <2>4. 1..k = (1..m) \cap (1..n)
      BY <2>3
    <2> QED
      BY <2>2, <2>4
  <1> HIDE DEF known
  <1>4. /\ place \in [1..r -> covered]
        /\ \A i, j \in 1..r : place[i] = place[j] => i = j
        /\ \A k \in covered : \E i \in 1..r : place[i] = k
    <2>1. place \in Bijection(1..r, covered)
      BY DEF order, Covered
    <2> HIDE DEF covered
    <2> QED
      BY <2>1 DEF Bijection, Injection, Surjection, IsInjective
  <1> HIDE DEF covered
  <1>5. ASSUME NEW i \in 1..r
        PROVE  place[i] \in 1..n /\ place[i] \in 1..limit /\ order[place[i]] <= m
    <2>1. place[i] \in covered
      BY <1>4
    <2>2. place[i] \in 1..limit /\ order[place[i]] <= m
      BY <2>1 DEF covered
    <2> QED
      BY <2>2
  <1>6. class \in [1..r -> known]
    <2> SUFFICES ASSUME NEW i \in 1..r PROVE order[place[i]] \in known
      OBVIOUS
    <2>1. order[place[i]] \in 1..n
      BY <1>1, <1>5
    <2> QED
      BY <1>3, <1>5, <2>1
  <1>7. \A i, j \in 1..r : class[i] = class[j] => i = j
    BY <1>1, <1>4, <1>5
  <1>8. \A i, j \in 1..r : i < j => p[class[i]] >= p[class[j]]
    BY <1>2, <1>5
  <1>9. ASSUME NEW c \in known \ Range(class), NEW i \in 1..r
        PROVE  p[c] <= p[class[i]]
    <2>1. c \in 1..n /\ c <= m
      BY <1>3
    <2>2. PICK k \in 1..n : order[k] = c
      BY <1>1, <2>1
    <2>3. k \notin covered
      <3> SUFFICES ASSUME k \in covered PROVE FALSE
        OBVIOUS
      <3>1. PICK j \in 1..r : place[j] = k
        BY <1>4
      <3>2. class[j] = c /\ j \in DOMAIN class
        BY <2>2, <3>1
      <3> QED
        BY <1>9, <3>2 DEF Range
    <2>4. place[i] <= k
      BY <1>5, <2>1, <2>2, <2>3 DEF covered
    <2> QED
      BY <1>2, <1>5, <2>2, <2>4
  <1> HIDE DEF class
  <1>10. class \in Injection(1..r, known)
    BY <1>6, <1>7 DEF Injection, IsInjective
  <1>11. BestOf(r, class, known, p)
    BY <1>8, <1>9, <1>10 DEF BestOf
  <1> QED
    BY <1>11 DEF class, known, order, ClassesAt

(***************************************************************************)
(* classification_postprocess: a prediction, or a list of them.            *)
(***************************************************************************)
GivesClasses(answer, r, class, labels, p) ==
    /\ DOMAIN PredictionsOf(answer) = 1..r
    /\ \A i \in 1..r : PredictionsOf(answer)[i] = Prediction(labels, p, class[i])

LEMMA ClassifiedIsBest ==
    ASSUME NEW n \in Nat \ {0}, NEW p \in [1..n -> Int],
           NEW labels, NEW m \in Nat, Len(labels) = m,
           NEW top \in Nat \ {0},
           Classified(top, labels, p).ok
    PROVE  \E r \in 1..top : \E class :
                /\ GivesClasses(Classified(top, labels, p).value, r, class, labels, p)
                /\ BestOf(r, class, 1..Min({m, n}), p)
  <1> DEFINE order == Ranked(p)
             limit == IF top < n THEN top ELSE n
             covered == {k \in 1..limit : order[k] <= m}
             listed == Sorted(covered, [k \in covered |-> k])
             answer == Classified(top, labels, p).value
             named == PredictionsOf(answer)
  <1>1. limit \in 1..n /\ limit <= top /\ limit \in Nat
    OBVIOUS
  <1>2. Len(p) = n
    OBVIOUS
  <1>3. order[1] <= m /\ 1 \in covered
    <2>1. order \in [1..n -> 1..n]
      BY RankedFalls DEF Bijection, Injection
    <2>2. order[1] \in Nat
      BY <2>1
    <2>3. ~(order[1] > m)
      BY DEF Classified, Fail
    <2> QED
      BY <1>1, <2>2, <2>3
  <1>4. CASE top = 1
    <2> DEFINE place == [i \in 1..1 |-> 1]
    <2>1. answer = Prediction(labels, p, order[1])
      BY <1>3, <1>4 DEF Classified, Ok, Fail
    <2>2. ~Has(answer, "predictions")
      BY <2>1 DEF Prediction, Object, Has, Names
    <2>3. named = <<answer>>
      BY <2>2 DEF PredictionsOf
    <2>4. limit = 1
      BY <1>1, <1>4
    <2>5. covered = {1}
      BY <1>3, <2>4
    <2>6. place \in Bijection(1..1, Covered(p, m, limit))
      BY <2>5 DEF Bijection, Injection, Surjection, IsInjective, Covered
    <2>7. \A i, j \in 1..1 : i < j => place[i] <= place[j]
      OBVIOUS
    <2> DEFINE class == ClassesAt(p, place, 1)
    <2>8. BestOf(1, class, 1..Min({m, n}), p)
      BY <1>1, <2>6, <2>7, FirstRankedAreBest
    <2>9. GivesClasses(answer, 1, class, labels, p)
      BY <2>1, <2>3 DEF ClassesAt, GivesClasses
    <2> QED
      BY <1>4, <2>8, <2>9
  <1>5. CASE top # 1
    <2> DEFINE r == Cardinality(covered)
               value == [k \in covered |-> k]
               class == ClassesAt(p, listed, r)
               items == [i \in 1..r |-> Prediction(labels, p, order[listed[i]])]
    <2>1. answer = Object([predictions |-> Array(items)])
      BY <1>2, <1>3, <1>5 DEF Classified, Ok, Fail
    <2>2. named = items
      <3> HIDE DEF items, answer
      <3>1. Has(answer, "predictions") /\ At(answer, "predictions").items = items
        BY <2>1 DEF Object, Array, Has, Names, At
      <3> QED
        BY <3>1 DEF PredictionsOf
    <2>3. IsFiniteSet(covered) /\ r \in Nat /\ r <= limit /\ r # 0
      <3>1. 1 \in Int /\ limit \in Int
        BY <1>1
      <3>2. /\ IsFiniteSet(1..limit)
            /\ Cardinality(1..limit) = IF 1 > limit THEN 0 ELSE limit - 1 + 1
        BY <3>1, FS_Interval
      <3>3. covered \in SUBSET (1..limit) /\ covered # {}
        BY <1>3
      <3> HIDE DEF covered, limit
      <3>4. IsFiniteSet(covered) /\ r <= Cardinality(1..limit)
        BY <3>2, <3>3, FS_Subset
      <3>5. r \in Nat /\ r # 0
        BY <3>3, <3>4, FS_CardinalityType, FS_EmptySet
      <3> QED
        BY <1>1, <3>2, <3>4, <3>5
    <2>4. \A k \in covered : value[k] \in Int /\ value[k] = k
      OBVIOUS
    <2>5. InOrder(listed, covered, value)
      BY <2>3, <2>4, SortedIsOrder
    <2> HIDE DEF listed, value
    <2>6. /\ listed \in Bijection(1..r, Covered(p, m, limit))
          /\ \A i, j \in 1..r : i < j => listed[i] <= listed[j]
      BY <2>4, <2>5 DEF InOrder, Bijection, Injection, Covered
    <2> HIDE DEF limit, r
    <2>7. BestOf(r, class, 1..Min({m, n}), p)
      <3>1. n \in Nat /\ r \in Nat /\ limit \in 1..n
        BY <1>1, <2>3
      <3> QED
        BY <2>6, <3>1, FirstRankedAreBest
    <2>8. r \in 1..top
      BY <1>1, <2>3
    <2>9. GivesClasses(answer, r, class, labels, p)
      <3> HIDE DEF named, order, listed
      <3>1. DOMAIN named = 1..r /\ \A i \in 1..r : named[i] = items[i]
        BY <2>2
      <3>2. \A i \in 1..r : class[i] = order[listed[i]]
        BY DEF ClassesAt, order
      <3> QED
        BY <3>1, <3>2 DEF GivesClasses, named
    <2> HIDE DEF class, r
    <2> QED
      BY <2>7, <2>8, <2>9
  <1> QED
    BY <1>4, <1>5
-----------------------------------------------------------------------------
(***************************************************************************)
(* ExtractScoreVector gives at least one score, and every score a number.  *)
(***************************************************************************)
LEMMA ScoresAreNumbers ==
    ASSUME NEW j, ScoreVector(j).ok
    PROVE  \E n \in Nat \ {0} : ScoreVector(j).value \in [1..n -> Int]
  <1> DEFINE rows == IsArray(j) /\ Len(j.items) > 0 /\ j.items[1].is = "array"
             row == IF rows THEN j.items[1] ELSE j
             n == Len(row.items)
             value == [i \in DOMAIN row.items |-> row.items[i].num]
  <1>1. /\ IsArray(row) /\ n > 0
        /\ \A i \in DOMAIN row.items : IsNumber(row.items[i])
        /\ ScoreVector(j).value = value
    BY DEF ScoreVector, Ok, Fail
  <1> HIDE DEF row
  <1>2. n \in Nat \ {0} /\ DOMAIN row.items = 1..n
    BY <1>1 DEF IsArray
  <1>3. value \in [1..n -> Int]
    BY <1>1, <1>2 DEF IsNumber
  <1> QED
    BY <1>1, <1>2, <1>3

(***************************************************************************)
(* OnnxSession::Run, of either build, gives one tensor of the one name it  *)
(* was loaded for, or a status; it throws nothing.                         *)
(***************************************************************************)
LEMMA SessionGivesOne ==
    ASSUME NEW session, NEW name, session.outputs = <<name>>, NEW tensors
    PROVE  LET outputs == RunSession(session, tensors)
           IN  /\ ~outputs.ok => outputs.code # "thrown"
               /\ outputs.ok => DOMAIN outputs.value = {1} /\ outputs.value[1].name = name
  <1> DEFINE outputs == RunSession(session, tensors)
  <1>1. CASE session.build = "stub"
    <2>1. outputs = RunStub(session, tensors)
      BY <1>1 DEF RunSession
    <2> DEFINE scores == StubScores(SourceText(tensors), NumericSignal(tensors))
               values == IF name = "logits"
                         THEN Array(<<Array([i \in 1..3 |-> Hundredths(scores[i])])>>)
                         ELSE tensors[1].values
    <2>2. outputs = Ok(<<[name |-> name, values |-> values]>>)
      <3>1. session.outputs[1] = name
        OBVIOUS
      <3> QED
        BY <2>1, <3>1, Zenon DEF RunStub
    <2> HIDE DEF values
    <2> HIDE DEF outputs
    <2>3. outputs.ok /\ outputs.value = <<[name |-> name, values |-> values]>>
      BY <2>2 DEF Ok
    <2>4. DOMAIN outputs.value = {1} /\ outputs.value[1].name = name
      BY <2>3
    <2> QED
      BY <2>3, <2>4 DEF outputs
  <1>2. CASE session.build # "stub"
    <2>1. outputs = RunOrt(session, tensors)
      BY <1>2 DEF RunSession
    <2>2. PICK answer :
            \/ outputs = Fail("ONNX_INPUT_TENSOR_MISMATCH")
            \/ outputs = Fail("ONNX_RUNTIME_ERROR")
            \/ outputs = Ok([i \in DOMAIN session.outputs |->
                                [name |-> session.outputs[i], values |-> answer]])
      BY <2>1 DEF RunOrt
    <2>3. DOMAIN session.outputs = {1} /\ session.outputs[1] = name
      OBVIOUS
    <2> QED
      BY <2>2, <2>3 DEF Ok, Fail
  <1> QED
    BY <1>1, <1>2

(***************************************************************************)
(* OnnxRunner::Load keeps the two configurations, and a session of the     *)
(* build that gives the tensor the second one names.                       *)
(***************************************************************************)
LEMMA LoadedParts ==
    ASSUME NEW b, NEW f, NEW provider, NEW pre, NEW post,
           LoadSession(b, f, provider, pre, post).ok
    PROVE  LET loaded == LoadSession(b, f, provider, pre, post).value
           IN  /\ loaded.pre = pre /\ loaded.post = post
               /\ loaded.session.outputs = <<post.tensor>>
               /\ loaded.session.build = b
  <1> DEFINE session == LoadModel(b, f, provider, ExpectedInputs(pre), ExpectedOutputs(post))
  <1>1. session.ok => session.value.build = b
    BY DEF LoadModel, Ok, Fail
  <1> HIDE DEF session
  <1>2. /\ session.ok /\ session.value.outputs = ExpectedOutputs(post)
        /\ LoadSession(b, f, provider, pre, post).value
            = [pre |-> pre, post |-> post, session |-> session.value]
    BY DEF LoadSession, Ok, Fail, session
  <1> QED
    BY <1>1, <1>2 DEF ExpectedOutputs

(***************************************************************************)
(* The configurations that are accepted are of the known types, and top_k  *)
(* is at least 1.                                                          *)
(***************************************************************************)
LEMMA ConfigTypes ==
    ASSUME NEW f
    PROVE  /\ LoadPreprocessConfig(f).ok =>
                LoadPreprocessConfig(f).value.type
                    \in {"no_op", "tensor_from_json", "text_tokenization"}
           /\ LoadPostprocessConfig(f).ok =>
                LoadPostprocessConfig(f).value.top \in Nat \ {0}
  <1>1. LoadPreprocessConfig(f).ok =>
            LoadPreprocessConfig(f).value.type
                \in {"no_op", "tensor_from_json", "text_tokenization"}
    BY DEF LoadPreprocessConfig, Ok, Fail
  <1>2. ASSUME LoadPostprocessConfig(f).ok
        PROVE  LoadPostprocessConfig(f).value.top \in Nat \ {0}
    <2> DEFINE top == IF Has(f.content, "top_k") THEN At(f.content, "top_k") ELSE Whole(1)
               k == top.num \div 100
    <2>1. /\ LoadPostprocessConfig(f).value.top = k
          /\ IsWhole(top) /\ ~(k <= 0)
      BY <1>2 DEF LoadPostprocessConfig, Ok, Fail
    <2> HIDE DEF top
    <2>2. k \in Int
      BY <2>1 DEF IsWhole, IsNumber
    <2> QED
      BY <2>1, <2>2
  <1> QED
    BY <1>1, <1>2

(***************************************************************************)
(* A run on a loaded runner throws on an array that holds text, or on the  *)
(* label map, which it reads whatever the input is.                        *)
(***************************************************************************)
ArrayOfText(r, v) ==
    /\ r.pre.type = "tensor_from_json"
    /\ TensorSent(v).is = "array"
    /\ \E i \in DOMAIN LeavesOf(TensorSent(v)) : LeavesOf(TensorSent(v))[i].is = "string"

LEMMA RunThrows ==
    ASSUME NEW r, NEW l, NEW v,
           r.pre.type \in {"no_op", "tensor_from_json", "text_tokenization"},
           r.session.outputs = <<r.post.tensor>>,
           ~RunLoaded(r, l, v).ok, RunLoaded(r, l, v).code = "thrown"
    PROVE  ArrayOfText(r, v) \/ (r.post.type # "no_op" /\ ~LoadLabels(l).ok)
  <1> DEFINE tensors == RunPreprocess(r.pre, v)
             outputs == RunSession(r.session, tensors.value)
             answer == RunPostprocess(r.post, outputs.value, l)
  <1>1. CASE ~tensors.ok
    <2>1. tensors.code = "thrown"
      BY <1>1 DEF RunLoaded
    <2>2. r.pre.type = "tensor_from_json"
      BY <1>1, <2>1 DEF RunPreprocess, Ok, Fail
    <2>3. tensors = TensorFromJson(r.pre.tensor, TensorSent(v), v)
      BY <2>2 DEF RunPreprocess, TensorSent
    <2> HIDE DEF tensors
    <2> DEFINE sent == TensorSent(v)
    <2> HIDE DEF sent
    <2>4. /\ sent.is = "array"
          /\ \E i \in DOMAIN LeavesOf(sent) : LeavesOf(sent)[i].is = "string"
      BY <1>1, <2>1, <2>3 DEF TensorFromJson, Ok, Fail, sent
    <2> QED
      BY <2>2, <2>4 DEF ArrayOfText, sent
  <1>2. CASE tensors.ok
    <2>1. outputs.ok
      BY <1>2, SessionGivesOne DEF RunLoaded
    <2>2. ~answer.ok /\ answer.code = "thrown"
      BY <1>2, <2>1 DEF RunLoaded
    <2> HIDE DEF outputs
    <2>3. r.post.type # "no_op"
      BY <2>2 DEF RunPostprocess, Ok, Fail
    <2>4. ASSUME NEW j
          PROVE  ~ScoreVector(j).ok => ScoreVector(j).code # "thrown"
      BY DEF ScoreVector, Ok, Fail
    <2>5. ASSUME NEW top, NEW labels, NEW p
          PROVE  ~Classified(top, labels, p).ok => Classified(top, labels, p).code # "thrown"
      BY DEF Classified, Ok, Fail
    <2>6. ~LoadLabels(l).ok
      BY <2>2, <2>3, <2>4, <2>5 DEF RunPostprocess, Fail
    <2> QED
      BY <2>3, <2>6
  <1> QED
    BY <1>1, <1>2

(***************************************************************************)
(* A run that succeeds has read the label map, if it classifies.           *)
(***************************************************************************)
LEMMA RunReadsLabels ==
    ASSUME NEW r, NEW l, NEW v, RunLoaded(r, l, v).ok
    PROVE  r.post.type = "no_op" \/ LoadLabels(l).ok
  <1> DEFINE outputs == RunSession(r.session, RunPreprocess(r.pre, v).value)
  <1>1. RunPostprocess(r.post, outputs.value, l).ok
    BY DEF RunLoaded
  <1> HIDE DEF outputs
  <1> QED
    BY <1>1 DEF RunPostprocess, Ok, Fail

(***************************************************************************)
(* While the files of an accepted ONNX package stay, the runner of its     *)
(* calls is what OnnxRunner::Load makes of them, what it computes is what  *)
(* OnnxRunner::Run computes, and at least one golden case ran on it.       *)
(***************************************************************************)
RunNow(v) == RunLoaded(runner, LabelFile, v)

RunnerIsLoaded ==
    LET pre == LoadPreprocessConfig(disk["preprocess"])
        post == LoadPostprocessConfig(disk["postprocess"])
    IN  /\ pre.ok /\ runner.pre = pre.value
        /\ post.ok /\ runner.post = post.value
        /\ runner.session.outputs = <<runner.post.tensor>>
        /\ runner.session.build = build

LEMMA LoadedRunner ==
    ASSUME IInv, Replied, Fixed
    PROVE  /\ RunnerIsLoaded
           /\ reply.outcome.ok \/ reply.outcome.code = "thrown" =>
                reply.outcome = RunNow(reply.input)
           /\ \E v \in Given : RunNow(v).ok
  <1> DEFINE pre == LoadPreprocessConfig(disk["preprocess"])
             post == LoadPostprocessConfig(disk["postprocess"])
             loaded == LoadSession(build, disk["model"], card.provider,
                                   pre.value, post.value)
  <1>1. /\ at = "done" /\ verdict = "accepted" /\ card.backend = "onnx"
        /\ reply.input \in Inputs /\ reply.outcome = CallOutcome(reply.input)
    BY DEF IInv, Answered, Replied
  <1>2. RunnerFound /\ Cases # {} /\ \A i \in Cases : Passed(i)
    BY <1>1 DEF IInv, Found, Ended
  <1>3. card \in CardsRead /\ build \in Builds
    BY <1>1 DEF IInv, TypeInv, TypeOK, HandedOn
  <1>4. /\ disk["preprocess"] \in FilesAt("preprocess")
        /\ disk["postprocess"] \in FilesAt("postprocess")
        /\ disk["model"] \in FilesAt("model")
        /\ LabelFile \in FilesAt("labels") \cup {Missing}
    BY DEF IInv, TypeInv, HandedOn, FileNames, PackageFiles, LabelFile
  <1>5. /\ PreprocessOf(disk["preprocess"]) = pre
        /\ PostprocessOf(disk["postprocess"]) = post
    BY <1>4, RunnerAssumption
  <1> HIDE DEF pre, post
  <1>6. pre.ok /\ post.ok /\ LoadedNow.ok /\ runner = LoadedNow.value
    BY <1>2, <1>5 DEF RunnerFound
  <1>7. pre.value \in Values(PreResults) /\ post.value \in Values(PostResults)
    BY <1>4, <1>5, <1>6 DEF PreResults, PostResults, Values
  <1>8. LoadedNow = loaded
    BY <1>3, <1>4, <1>5, <1>7, RunnerAssumption DEF LoadedNow
  <1>9. LoadedNow \in Loads
    BY <1>3, <1>4, <1>5, <1>7 DEF LoadedNow, Loads
  <1>10. runner \in Values(Loads)
    BY <1>6, <1>9 DEF Values
  <1>11. \A v \in Given : Ran(v) = RunNow(v)
    BY <1>4, <1>10, RunnerAssumption DEF Ran, RunNow
  <1>12. RunnerIsLoaded
    <2>1. /\ loaded.value.pre = pre.value /\ loaded.value.post = post.value
          /\ loaded.value.session.outputs = <<post.value.tensor>>
          /\ loaded.value.session.build = build
      BY <1>6, <1>8, LoadedParts
    <2> QED
      BY <1>6, <1>8, <2>1 DEF RunnerIsLoaded, pre, post
  <1>13. ASSUME reply.outcome.ok \/ reply.outcome.code = "thrown"
         PROVE  reply.outcome = RunNow(reply.input)
    <2>1. \A name, code, w : /\ Admits(name, code, w).ok \/ Admits(name, code, w).code = code
      BY DEF Admits, Require, Ok, Fail
    <2>2. CallOutcome(reply.input) = Ran(reply.input)
      BY <1>1, <1>2, <1>13, <2>1 DEF CallOutcome, AdmitsOutput, RunnerFound, LoadedNow, Ran
    <2>3. reply.input \in Given
      BY <1>1 DEF Given
    <2> QED
      BY <1>1, <1>11, <2>2, <2>3
  <1>14. \E v \in Given : RunNow(v).ok
    <2>1. PICK i \in Cases : Passed(i)
      BY <1>2
    <2> QED
      BY <1>11, <2>1 DEF Passed
  <1> QED
    BY <1>12, <1>13, <1>14

(***************************************************************************)
(* An accepted, unchanged algorithm throws on no input but an array that   *)
(* holds text, in a tensor_from_json pipeline: a label map that throws has *)
(* thrown on the golden cases, whatever their inputs, and was refused.     *)
(***************************************************************************)
THEOREM ThrowsOnText == Spec => []ThrowsOnlyOnText
  <1>1. IInv => ThrowsOnlyOnText
    <2> SUFFICES ASSUME IInv, Replied, touched = {}, ~reply.outcome.ok,
                        reply.outcome.code = "thrown"
                 PROVE  ArrayOfText(runner, reply.input)
      BY DEF ThrowsOnlyOnText, ArrayOfText, TensorSent
    <2>1. Fixed
      BY DEF Fixed
    <2>2. /\ RunnerIsLoaded /\ reply.outcome = RunNow(reply.input)
          /\ \E v \in Given : RunNow(v).ok
      BY <2>1, LoadedRunner
    <2>3. runner.pre.type \in {"no_op", "tensor_from_json", "text_tokenization"}
      BY <2>2, ConfigTypes DEF RunnerIsLoaded
    <2>4. runner.post.type = "no_op" \/ LoadLabels(LabelFile).ok
      BY <2>2, RunReadsLabels DEF RunNow
    <2> QED
      BY <2>2, <2>3, <2>4, RunThrows DEF RunnerIsLoaded, RunNow
  <1> QED
    BY <1>1, Invariance, PTL

(***************************************************************************)
(* LoadLabels accepts a map only when std::stoi reads each of its names,   *)
(* and these are finitely many.                                            *)
(***************************************************************************)
LEMMA LabelsRead ==
    ASSUME disk["labels"] \in FilesAt("labels"), LoadLabels(LabelFile).ok
    PROVE  LET map == disk["labels"].content
           IN  /\ LoadLabels(LabelFile).value = Labels(map)
               /\ IsFiniteSet(Names(map)) /\ Names(map) \subseteq DOMAIN Stoi
  <1> DEFINE f == LabelFile
             map == f.content
             bad == {i \in DOMAIN KeyTexts :
                        /\ Has(map, KeyTexts[i])
                        /\ \/ At(map, KeyTexts[i]).is # "string"
                           \/ KeyTexts[i] \notin DOMAIN Stoi}
  <1>1. Readable(f) /\ bad = {} /\ LoadLabels(f).value = Labels(map)
    BY DEF LoadLabels, Ok, Fail
  <1>2. f = disk["labels"]
    BY <1>1 DEF LabelFile, Readable, Missing
  <1>3. Names(map) \subseteq Range(KeyTexts)
    BY <1>1, <1>2, LabelMapsAssumption
  <1> HIDE DEF f
  <1>4. Names(map) \subseteq DOMAIN Stoi
    <2> SUFFICES ASSUME NEW k \in Names(map) PROVE k \in DOMAIN Stoi
      OBVIOUS
    <2>1. PICK i \in DOMAIN KeyTexts : KeyTexts[i] = k
      BY <1>3 DEF Range
    <2>2. Has(map, KeyTexts[i])
      BY <2>1 DEF Has
    <2> QED
      BY <1>1, <2>1, <2>2
  <1>5. IsFiniteSet(Names(map))
    <2> DEFINE n == Len(KeyTexts)
    <2>1. n \in Nat /\ DOMAIN KeyTexts = 1..n
      BY KeysAssumption
    <2>2. IsFiniteSet(1..n)
      BY <2>1, FS_Interval
    <2>3. KeyTexts \in Surjection(1..n, Range(KeyTexts))
      BY <2>1, KeysAssumption DEF Surjection, Range
    <2>4. IsFiniteSet(Range(KeyTexts))
      BY <2>2, <2>3, FS_Surjection
    <2> QED
      BY <1>3, <2>4, FS_Subset
  <1> QED
    BY <1>1, <1>2, <1>4, <1>5 DEF f

(***************************************************************************)
(* A run that classifies takes the scores of the one tensor that the       *)
(* session gives.                                                          *)
(***************************************************************************)
ScoresOf(r, v) ==
    ScoreVector(RunSession(r.session, RunPreprocess(r.pre, v).value).value[1].values)

LEMMA RunClassifies ==
    ASSUME NEW r, NEW l, NEW v, RunLoaded(r, l, v).ok,
           r.post.type = "classification_postprocess",
           r.session.outputs = <<r.post.tensor>>
    PROVE  /\ LoadLabels(l).ok /\ ScoresOf(r, v).ok
           /\ RunLoaded(r, l, v)
                = Classified(r.post.top, LoadLabels(l).value, Normalized(ScoresOf(r, v).value))
  <1> DEFINE tensors == RunPreprocess(r.pre, v)
             outputs == RunSession(r.session, tensors.value)
             named == {i \in DOMAIN outputs.value : outputs.value[i].name = r.post.tensor}
             scores == ScoreVector(outputs.value[1].values)
  <1>1. /\ tensors.ok /\ outputs.ok
        /\ RunLoaded(r, l, v) = RunPostprocess(r.post, outputs.value, l)
    BY DEF RunLoaded
  <1>2. DOMAIN outputs.value = {1} /\ outputs.value[1].name = r.post.tensor
    BY <1>1, SessionGivesOne
  <1> HIDE DEF outputs
  <1>3. named = {1}
    BY <1>2
  <1>4. Min(named) = 1
    BY <1>3, FirstOf
  <1>5. /\ LoadLabels(l).ok /\ scores.ok
        /\ RunPostprocess(r.post, outputs.value, l)
            = Classified(r.post.top, LoadLabels(l).value, Normalized(scores.value))
    <2>1. RunPostprocess(r.post, outputs.value, l).ok
      BY <1>1
    <2> HIDE DEF scores, named
    <2>2. /\ LoadLabels(l).ok /\ scores.ok
          /\ RunPostprocess(r.post, outputs.value, l)
              = Classified(r.post.top, LoadLabels(l).value, Normalized(scores.value))
      <3>1. RunPostprocess(r.post, outputs.value, l) =
                IF ~LoadLabels(l).ok THEN LoadLabels(l)
                ELSE IF ~scores.ok THEN scores
                ELSE Classified(r.post.top, LoadLabels(l).value, Normalized(scores.value))
        BY <1>3, <1>4 DEF RunPostprocess, named, scores
      <3> QED
        BY <2>1, <3>1
    <2> QED
      BY <2>2
  <1> QED
    BY <1>1, <1>5 DEF ScoresOf, outputs

(***************************************************************************)
(* Classification: an accepted, unchanged algorithm predicts distinct      *)
(* classes, each with its own label and probability, and the best that are *)
(* labelled, for every label map that numbers the classes.  The softmax    *)
(* keeps the order of the scores, std::sort is some order of them, and the *)
(* label map was put in the order of its numbers.                          *)
(***************************************************************************)
THEOREM PredictsTheBest == Spec => []PredictionsAreTheBest
  <1> DEFINE map == disk["labels"].content
             post == LoadPostprocessConfig(disk["postprocess"]).value
             answer == reply.outcome.value
             named == PredictionsOf(answer)
             scores == ScoresOf(runner, reply.input).value
             p == Normalized(scores)
             m == Cardinality(Names(map))
             known == 1..Min({m, Len(p)})
             isFor(prediction, c) ==
                /\ At(prediction, "confidence").num = p[c]
                /\ \E k \in Names(map) :
                    Stoi[k] = c - 1 /\ At(map, k) = At(prediction, "label")
             best(r, class) ==
                /\ class \in Injection(1..r, known)
                /\ \A i \in 1..r : isFor(named[i], class[i])
                /\ \A i, j \in 1..r : i < j => p[class[i]] >= p[class[j]]
                /\ \A c \in known \ Range(class), i \in 1..r : p[c] <= p[class[i]]
  <1>1. ASSUME IInv, Replied, touched = {}, reply.outcome.ok,
               post.type = "classification_postprocess", NumbersClasses(map)
        PROVE  \E r \in 1..post.top : DOMAIN named = 1..r /\ \E class : best(r, class)
    <2>1. Fixed
      BY <1>1 DEF Fixed
    <2>2. RunnerIsLoaded /\ reply.outcome = RunNow(reply.input)
      BY <1>1, <2>1, LoadedRunner
    <2>3. /\ LoadPostprocessConfig(disk["postprocess"]).ok /\ runner.post = post
          /\ runner.session.outputs = <<runner.post.tensor>>
      BY <2>2 DEF RunnerIsLoaded
    <2>4. post.top \in Nat \ {0}
      BY <2>3, ConfigTypes
    <2>5. RunNow(reply.input).ok /\ runner.post.type = "classification_postprocess"
      BY <1>1, <2>2, <2>3
    <2> HIDE DEF post, map
    <2> DEFINE labels == LoadLabels(LabelFile).value
    <2>6. /\ LoadLabels(LabelFile).ok /\ ScoresOf(runner, reply.input).ok
          /\ reply.outcome = Classified(runner.post.top, labels, p)
      BY <2>2, <2>3, <2>5, RunClassifies DEF RunNow
    <2>7. disk["labels"] \in FilesAt("labels")
      BY <1>1 DEF IInv, TypeInv, HandedOn, FileNames, PackageFiles
    <2>8. labels = Labels(map) /\ IsFiniteSet(Names(map)) /\ Names(map) \subseteq DOMAIN Stoi
      BY <2>6, <2>7, LabelsRead DEF map
    <2>9. /\ m \in Nat /\ Len(labels) = m
          /\ \A c \in 1..m : \E k \in Names(map) :
                Stoi[k] = c - 1 /\ labels[c] = At(map, k)
      BY <1>1, <2>8, LabelsByNumber
    <2>10. PICK n \in Nat \ {0} : scores \in [1..n -> Int]
      BY <2>6, ScoresAreNumbers DEF ScoresOf
    <2> HIDE DEF scores, labels
    <2>11. p \in [1..n -> Int] /\ Len(p) = n
      <3>1. p \in [1..n -> Int]
        BY <2>10, NormalizedKeepsOrder
      <3> QED
        BY <3>1
    <2> HIDE DEF p
    <2>12. answer = Classified(post.top, labels, p).value
           /\ Classified(post.top, labels, p).ok
      BY <1>1, <2>3, <2>6
    <2> HIDE DEF answer, m
    <2>12a. PICK r \in 1..post.top : \E class :
                /\ GivesClasses(answer, r, class, labels, p)
                /\ BestOf(r, class, 1..Min({m, n}), p)
      BY <2>4, <2>9, <2>11, <2>12, ClassifiedIsBest
    <2>13. PICK class :
                /\ GivesClasses(answer, r, class, labels, p)
                /\ BestOf(r, class, 1..Min({m, n}), p)
      BY <2>12a
    <2>14. /\ DOMAIN named = 1..r
           /\ \A i \in 1..r : named[i] = Prediction(labels, p, class[i])
      BY <2>13 DEF GivesClasses
    <2> HIDE DEF named
    <2>15. known = 1..Min({m, n}) /\ known \subseteq 1..m
      <3>1. {m, n} \subseteq Nat /\ {m, n} # {}
        BY <2>9
      <3>2. Min({m, n}) \in Nat /\ Min({m, n}) <= m
        BY <3>1, FirstOf
      <3> QED
        BY <2>9, <2>11, <3>2
    <2> HIDE DEF known
    <2>16. class \in Injection(1..r, known) /\ \A i \in 1..r : class[i] \in 1..m
      <3>1. class \in Injection(1..r, known)
        BY <2>13, <2>15 DEF BestOf
      <3>2. \A i \in 1..r : class[i] \in known
        BY <3>1 DEF Injection
      <3> QED
        BY <2>15, <3>1, <3>2
    <2>17. ASSUME NEW i \in 1..r
           PROVE  isFor(named[i], class[i])
      <3>1. /\ At(named[i], "label") = labels[class[i]]
            /\ At(named[i], "confidence").num = p[class[i]]
        BY <2>14 DEF Prediction, Object, At, Hundredths
      <3>2. \E k \in Names(map) : Stoi[k] = class[i] - 1 /\ labels[class[i]] = At(map, k)
        BY <2>9, <2>16
      <3> QED
        BY <3>1, <3>2
    <2> HIDE DEF isFor
    <2>18. best(r, class)
      BY <2>13, <2>15, <2>16, <2>17 DEF BestOf
    <2> HIDE DEF best
    <2> QED
      BY <2>14, <2>18
  <1>2. IInv => PredictionsAreTheBest
    BY <1>1 DEF PredictionsAreTheBest, ScoresOf
  <1> QED
    BY <1>2, Invariance, PTL

(***************************************************************************)
(* A run that does not classify returns the one tensor the session gives.  *)
(***************************************************************************)
LEMMA RunReturnsTensor ==
    ASSUME NEW r, NEW l, NEW v, RunLoaded(r, l, v).ok,
           r.post.type = "no_op",
           r.session.outputs = <<r.post.tensor>>
    PROVE  LET tensors == RunPreprocess(r.pre, v)
               outputs == RunSession(r.session, tensors.value)
           IN  /\ tensors.ok /\ outputs.ok
               /\ RunLoaded(r, l, v).value = outputs.value[1].values
  <1> DEFINE tensors == RunPreprocess(r.pre, v)
             outputs == RunSession(r.session, tensors.value)
             named == {i \in DOMAIN outputs.value : outputs.value[i].name = r.post.tensor}
  <1>1. /\ tensors.ok /\ outputs.ok
        /\ RunLoaded(r, l, v) = RunPostprocess(r.post, outputs.value, l)
    BY DEF RunLoaded
  <1>2. DOMAIN outputs.value = {1} /\ outputs.value[1].name = r.post.tensor
    BY <1>1, SessionGivesOne
  <1> HIDE DEF outputs
  <1>3. named = {1}
    BY <1>2
  <1>4. Min(named) = 1
    BY <1>3, FirstOf
  <1> HIDE DEF named
  <1>5. RunPostprocess(r.post, outputs.value, l).value = outputs.value[1].values
    BY <1>3, <1>4 DEF RunPostprocess, Ok, named
  <1> QED
    BY <1>1, <1>5 DEF outputs

(***************************************************************************)
(* BuildTensorFromJsonValue makes one tensor of an array of numbers, of    *)
(* the array's shape and of one of the two number types.                   *)
(***************************************************************************)
TensorMade(name, v, source, dtype) ==
    [name |-> name, dtype |-> dtype, values |-> v, source |-> source,
     shape |-> AtLeastOne(Shape(v))]

LEMMA NumbersMakeTensor ==
    ASSUME NEW name, NEW v, NEW source, TensorFromJson(name, v, source).ok,
           v.is \in {"array", "number"}
    PROVE  /\ IsRectangular(v)
           /\ TypeHeld(v) \in {"int64", "float32"}
           /\ TensorFromJson(name, v, source).value
                = <<TensorMade(name, v, source, TypeHeld(v))>>
  <1> DEFINE dtype == TypeHeld(v)
  <1>1. IsRectangular(v)
    BY DEF TensorFromJson, Fail
  <1> DEFINE text == v.is = "array" /\ \E i \in DOMAIN LeavesOf(v) :
                                            LeavesOf(v)[i].is = "string"
  <1>2. TensorFromJson(name, v, source)
            = IF text THEN Fail("thrown") ELSE Ok(<<TensorMade(name, v, source, dtype)>>)
    <2>1. v.is # "string"
      OBVIOUS
    <2> QED
      BY <1>1, <2>1, Zenon DEF TensorFromJson, TensorMade, TypeHeld
  <1> HIDE DEF text, dtype
  <1>3. TensorFromJson(name, v, source).value = <<TensorMade(name, v, source, dtype)>>
    BY <1>2 DEF Ok, Fail
  <1>4. dtype \in {"int64", "float32"}
    BY DEF dtype, TypeHeld
  <1> QED
    BY <1>1, <1>3, <1>4 DEF dtype

(***************************************************************************)
(* BuildOrtInputTensor takes such a tensor when it is as full as its shape *)
(* says, and of numbers.                                                   *)
(***************************************************************************)
LEMMA OrtTakesNumbers ==
    ASSUME NEW name, NEW v, NEW source, NEW dtype \in {"int64", "float32"},
           OrtInput(TensorMade(name, v, source, dtype)).ok,
           v.is \in {"array", "number"}, IsRectangular(v)
    PROVE  IsFlattened(v)
  <1> DEFINE t == TensorMade(name, v, source, dtype)
             fits(leaf) == CASE dtype = "float32" -> leaf.is \in {"number", "boolean"}
                             [] dtype = "int64"   -> IsInt(leaf)
                             [] dtype = "string"  -> leaf.is = "string"
  <1>1. t.dtype = dtype /\ t.values = v /\ t.shape = AtLeastOne(Shape(v))
    BY DEF TensorMade
  <1> HIDE DEF t
  <1>2. /\ Product(t.shape) # 0 /\ Len(LeavesOf(v)) = Product(t.shape)
        /\ \A i \in DOMAIN LeavesOf(v) : fits(LeavesOf(v)[i])
    <2>1. OrtInput(t).ok
      BY DEF t
    <2> QED
      BY <1>1, <2>1 DEF OrtInput, Ok, Fail
  <1>3. \A leaf : fits(leaf) => leaf.is \in {"number", "boolean"}
    BY DEF IsInt, IsWhole, IsNumber
  <1> HIDE DEF fits
  <1> QED
    BY <1>1, <1>2, <1>3 DEF IsFlattened

(***************************************************************************)
(* Of a leaf, what comes out of a tensor is the number held for it.        *)
(***************************************************************************)
LEMMA LeafIsHeld ==
    ASSUME NEW leaf, leaf.is \in {"number", "boolean"}, NEW dtype \in {"int64", "float32"}
    PROVE  NumberOf(AsTensorLeaf(leaf, dtype)) = NumberOf(HeldLeaf(leaf, dtype))
  <1>1. CASE leaf.is = "number"
    BY <1>1 DEF AsTensorLeaf, HeldLeaf
  <1>2. CASE leaf.is = "boolean"
    BY <1>2 DEF NumberOf, AsTensorLeaf, HeldLeaf, Whole, Hundredths
  <1> QED
    BY <1>1, <1>2

(***************************************************************************)
(* What ONNX Runtime gives back of a tensor of numbers that it took.       *)
(***************************************************************************)
LEMMA OrtKeepsNumbers ==
    ASSUME NestingRestoresTensors, Replied,
           NEW name, NEW source, TypeHeld(TensorSent(reply.input)) \in {"int64", "float32"},
           IsFlattened(TensorSent(reply.input))
    PROVE  LET sent == TensorSent(reply.input)
               got == OrtOutput(TensorMade(name, sent, source, TypeHeld(sent)))
           IN  /\ Shape(got) = IF sent.is = "array" THEN Shape(sent) ELSE <<1>>
               /\ NumbersOf(got) = NumbersHeld(sent)
  <1> DEFINE v == TensorSent(reply.input)
             dtype == TypeHeld(v)
             t == TensorMade(name, v, source, dtype)
             u == [values |-> v, dtype |-> dtype, shape |-> AtLeastOne(Shape(v))]
             row == OrtRow(u)
             got == OrtOutput(t)
  <1>0. dtype \in {"int64", "float32"}
    OBVIOUS
  <1> HIDE DEF dtype
  <1>1. OrtRow(t) = row /\ got = OrtOutput(u)
    BY DEF OrtOutput, OrtRow, TensorMade
  <1>2. /\ Shape(v) = <<>> <=> v.is = "number"
        /\ Shape(got) = AtLeastOne(Shape(v))
        /\ LeavesOf(got) = row
    BY <1>0, <1>1 DEF NestingRestoresTensors
  <1>3. row = [i \in DOMAIN LeavesOf(v) |-> AsTensorLeaf(LeavesOf(v)[i], dtype)]
    BY DEF OrtRow
  <1> HIDE DEF v, row, got
  <1>4. \A i \in DOMAIN LeavesOf(v) :
            NumberOf(AsTensorLeaf(LeavesOf(v)[i], dtype))
                = NumberOf(HeldLeaf(LeavesOf(v)[i], dtype))
    BY <1>0, LeafIsHeld DEF IsFlattened, v
  <1>5. /\ NumbersOf(got) = [i \in DOMAIN LeavesOf(got) |-> NumberOf(LeavesOf(got)[i])]
        /\ NumbersHeld(v) = [i \in DOMAIN LeavesOf(v) |->
                                NumberOf(HeldLeaf(LeavesOf(v)[i], dtype))]
    BY Zenon DEF NumbersOf, NumbersHeld, dtype
  <1>6. NumbersOf(got) = NumbersHeld(v)
    <2>1. DOMAIN row = DOMAIN LeavesOf(v)
      BY <1>3
    <2>2. \A i \in DOMAIN LeavesOf(v) :
            NumberOf(row[i]) = NumberOf(HeldLeaf(LeavesOf(v)[i], dtype))
      BY <1>3, <1>4
    <2>3. NumbersOf(got) = [i \in DOMAIN LeavesOf(v) |-> NumberOf(row[i])]
      BY <1>2, <1>5, <2>1
    <2>4. [i \in DOMAIN LeavesOf(v) |-> NumberOf(row[i])]
            = [i \in DOMAIN LeavesOf(v) |-> NumberOf(HeldLeaf(LeavesOf(v)[i], dtype))]
      BY <2>2
    <2> QED
      BY <1>5, <2>3, <2>4
  <1>7. v.is \in {"array", "number"}
    BY DEF IsFlattened, v
  <1>8. Shape(got) = IF v.is = "array" THEN Shape(v) ELSE <<1>>
    BY <1>2, <1>7 DEF AtLeastOne
  <1> QED
    BY <1>6, <1>8 DEF v, got, dtype

(***************************************************************************)
(* A model that computes the identity gives an array of numbers back in    *)
(* its shape, with the numbers sent (the stub) or those that the tensor    *)
(* holds for them, in their places (ONNX Runtime: IdentityKeepsTheTensor), *)
(* provided that the walks over nested arrays undo one another on what     *)
(* callers send; the stub, which does not take the array apart, needs      *)
(* nothing of them.                                                        *)
(***************************************************************************)
THEOREM KeepsTheTensor ==
    Spec /\ []NestingRestoresTensors => []IdentityKeepsTheTensor
  <1>1. IInv /\ NestingRestoresTensors => IdentityKeepsTheTensor
    <2> DEFINE sent == TensorSent(reply.input)
               got == reply.outcome.value
    <2> SUFFICES ASSUME IInv, NestingRestoresTensors, Replied, touched = {},
                        reply.outcome.ok, runner.pre.type = "tensor_from_json",
                        runner.post.type = "no_op", runner.post.tensor # "logits",
                        sent.is \in {"array", "number"}
                 PROVE  /\ Shape(got) = IF sent.is = "array" \/ build = "stub"
                                        THEN Shape(sent) ELSE <<1>>
                        /\ NumbersOf(got) = IF build = "stub" THEN NumbersOf(sent)
                                            ELSE NumbersHeld(sent)
      BY DEF IdentityKeepsTheTensor
    <2> DEFINE tensors == RunPreprocess(runner.pre, reply.input)
               outputs == RunSession(runner.session, tensors.value)
    <2>1. Fixed
      BY DEF Fixed
    <2>2. RunnerIsLoaded /\ reply.outcome = RunNow(reply.input)
      BY <2>1, LoadedRunner
    <2>3. /\ runner.session.outputs = <<runner.post.tensor>>
          /\ runner.session.build = build
      BY <2>2 DEF RunnerIsLoaded
    <2>4. tensors.ok /\ outputs.ok /\ got = outputs.value[1].values
      BY <2>2, <2>3, RunReturnsTensor DEF RunNow
    <2>5. tensors = TensorFromJson(runner.pre.tensor, sent, reply.input)
      BY DEF RunPreprocess
    <2> HIDE DEF got
    <2> DEFINE dtype == TypeHeld(sent)
    <2>6. /\ dtype \in {"int64", "float32"}
          /\ tensors.value = <<TensorMade(runner.pre.tensor, sent, reply.input, dtype)>>
      BY <2>4, <2>5, NumbersMakeTensor
    <2>7. IsRectangular(sent)
      BY <2>4, <2>5, NumbersMakeTensor
    <2> DEFINE t == TensorMade(runner.pre.tensor, sent, reply.input, dtype)
    <2>8. t.values = sent /\ t.dtype = dtype
      BY DEF TensorMade
    <2> HIDE DEF t, tensors, dtype, sent
    <2>9. tensors.value = <<t>> /\ tensors.value[1] = t
      BY <2>6 DEF t
    <2>10. CASE build = "stub"
      <3>1. outputs = RunStub(runner.session, tensors.value)
        BY <2>3, <2>10 DEF RunSession
      <3>2. runner.session.outputs[1] = runner.post.tensor
        BY <2>3
      <3> HIDE DEF outputs
      <3>3. outputs = Ok(<<[name |-> runner.post.tensor, values |-> sent]>>)
        BY <2>8, <2>9, <3>1, <3>2 DEF RunStub
      <3>4. got = sent
        BY <2>4, <3>3 DEF Ok
      <3> QED
        BY <2>10, <3>4
    <2>11. CASE build # "stub"
      <3>1. outputs = RunOrt(runner.session, tensors.value)
        BY <2>3, <2>11 DEF RunSession
      <3> HIDE DEF outputs
      <3>2. DOMAIN tensors.value = {1} /\ DOMAIN runner.session.outputs = {1}
        BY <2>3, <2>9
      <3>3. /\ \A i \in DOMAIN tensors.value : OrtInput(tensors.value[i]).ok
            /\ outputs = Ok([i \in DOMAIN runner.session.outputs |->
                                [name |-> runner.session.outputs[i],
                                 values |-> OrtOutput(tensors.value[1])]])
        BY <2>4, <3>1 DEF RunOrt, Ok, Fail
      <3>4. OrtInput(t).ok
        BY <2>9, <3>2, <3>3
      <3>5. got = OrtOutput(t)
        BY <2>4, <2>9, <3>2, <3>3 DEF Ok
      <3>6. IsFlattened(sent)
        BY <2>6, <2>7, <3>4, OrtTakesNumbers DEF t
      <3> QED
        BY <2>6, <2>11, <3>5, <3>6, OrtKeepsNumbers DEF t, dtype, sent
    <2> QED
      BY <2>10, <2>11
  <1> QED
    BY <1>1, Invariance, PTL
-----------------------------------------------------------------------------
(***************************************************************************)
(* At one node the keywords that are met are those of JSON Schema, where   *)
(* the validator does not depart from it.                                  *)
(***************************************************************************)
LEMMA KeywordsAreStandard ==
    ASSUME NEW s \in Documents, NEW v \in Documents,
           SchemaNode(s, Schemas), ~DepartsHere(s, v)
    PROVE  KeywordsMet(s, v) <=> Meets(s, v)
  <1>1. /\ v.is \in {"null", "boolean", "number", "string", "array", "object"}
        /\ v.is = "number" => v.num \in Int /\ (v.whole => v.num % 100 = 0)
    BY DocumentsAssumption
  <1> DEFINE type == Only(At(s, "type"))
             TypeMet == \/ type = v.is
                        \/ type = "integer" /\ v.is = "number" /\ v.num % 100 = 0
  <1>2. Has(s, "type") => (TypeMatches(v, type) <=> TypeMet)
    <2>1. CASE type = "integer" /\ Has(s, "type")
      <3>1. v.is = "number" => (v.whole <=> v.num % 100 = 0)
        BY <1>1, <2>1 DEF DepartsHere
      <3> HIDE DEF type
      <3> QED
        BY <1>1, <2>1, <3>1 DEF TypeMatches, IsWhole, IsNumber
    <2>2. CASE type # "integer"
      <3> HIDE DEF type
      <3> QED
        BY <2>2 DEF TypeMatches
    <2> QED
      BY <2>1, <2>2
  <1>3. v.is = "object" =>
            (MembersAllowed(s, v) <=> /\ Required(s) \subseteq Names(v)
                                      /\ Closed(s) => Names(v) \subseteq Declared(s))
    <2>1. (Has(s, "required") => \A i \in DOMAIN At(s, "required").items :
                                    Has(v, Only(At(s, "required").items[i])))
            <=> Required(s) \subseteq Names(v)
      BY DEF Required, Has
    <2>2. ASSUME v.is = "object"
          PROVE  (Has(s, "properties") /\ Closed(s) =>
                        Names(v) \subseteq Names(At(s, "properties")))
                    <=> (Closed(s) => Names(v) \subseteq Declared(s))
      BY <2>2 DEF DepartsHere, Declared
    <2> QED
      BY <2>1, <2>2 DEF MembersAllowed, Closed
  <1> DEFINE items == At(s, "enum").items
             Listed  == Has(s, "enum") => \E i \in DOMAIN items : SameJson(items[i], v)
             Members == v.is = "object" => MembersAllowed(s, v)
             Items   == v.is = "array" =>
                            Within(s, 100 * Len(v.items), "minItems", "maxItems")
             Length  == v.is = "string" =>
                            Within(s, 100 * Characters(v), "minLength", "maxLength")
             Bounds  == v.is = "number" => Within(s, v.num, "minimum", "maximum")
             Doubles == v.is = "number" =>
                /\ Has(s, "minimum") => AsDouble(v) >= AsDouble(At(s, "minimum"))
                /\ Has(s, "maximum") => AsDouble(v) <= AsDouble(At(s, "maximum"))
             Bytes   == v.is = "string" => Within(s, 100 * Size(v), "minLength", "maxLength")
             Alikes  == Has(s, "enum") => \E i \in DOMAIN items : Alike(items[i], v)
  <1>4. KeywordsMet(s, v)
            <=> /\ Listed
                /\ Has(s, "type") => TypeMatches(v, type)
                /\ Members /\ Items /\ Bytes /\ Doubles
    BY DEF KeywordsMet, Within
  <1>5. Meets(s, v)
            <=> /\ Has(s, "type") => TypeMet
                /\ Alikes /\ Members /\ Items /\ Length /\ Bounds
    <2> DEFINE Standard ==
                 CASE v.is = "object" -> /\ Required(s) \subseteq Names(v)
                                         /\ Closed(s) => Names(v) \subseteq Declared(s)
                   [] v.is = "array"  -> Within(s, 100 * Len(v.items), "minItems", "maxItems")
                   [] v.is = "string" ->
                        Within(s, 100 * Characters(v), "minLength", "maxLength")
                   [] v.is = "number" -> Within(s, v.num, "minimum", "maximum")
                   [] OTHER -> TRUE
    <2>1. Standard <=> Members /\ Items /\ Length /\ Bounds
      BY <1>1, <1>3
    <2>2. Meets(s, v) <=> (Has(s, "type") => TypeMet) /\ Alikes /\ Standard
      BY DEF Meets
    <2> QED
      BY <2>1, <2>2
  <1>6. Listed <=> Alikes
    <2> SUFFICES ASSUME Has(s, "enum")
                 PROVE  (\E i \in DOMAIN items : SameJson(items[i], v))
                            <=> \E i \in DOMAIN items : Alike(items[i], v)
      OBVIOUS
    <2>1. At(s, "enum") \in Documents /\ At(s, "enum").is = "array"
      BY DocumentsAssumption DEF Has, SchemaNode
    <2>2. \A i \in DOMAIN items : items[i] \in Documents
      BY <2>1, DocumentsAssumption
    <2>3. \A i \in DOMAIN items : Alike(items[i], v) => SameJson(items[i], v)
      BY <2>2, ComparisonAssumption
    <2>4. \A i \in DOMAIN items : SameJson(items[i], v) => Alike(items[i], v)
      BY DEF DepartsHere
    <2> QED
      BY <2>3, <2>4
  <1>7. Bytes <=> Length
    BY DEF DepartsHere, Within
  <1>8. Bounds <=> Doubles
    <2> SUFFICES ASSUME v.is = "number"
                 PROVE  Within(s, v.num, "minimum", "maximum")
                          <=> /\ Has(s, "minimum") => AsDouble(v) >= AsDouble(At(s, "minimum"))
                              /\ Has(s, "maximum") => AsDouble(v) <= AsDouble(At(s, "maximum"))
      OBVIOUS
    <2>1. ASSUME NEW k \in BoundKeywords, Has(s, k)
          PROVE  LET bound == At(s, k)
                 IN  /\ v.num >= bound.num <=> AsDouble(v) >= AsDouble(bound)
                     /\ v.num <= bound.num <=> AsDouble(v) <= AsDouble(bound)
      <3> DEFINE bound == At(s, k)
      <3>1. bound \in Documents /\ bound.is = "number"
        BY <2>1, DocumentsAssumption DEF Has, SchemaNode
      <3>2. v.num # bound.num => AsDouble(v) # AsDouble(bound)
        BY <2>1 DEF DepartsHere, Has
      <3> HIDE DEF bound
      <3>3. v.num \in Int /\ bound.num \in Int
        BY <3>1, DocumentsAssumption
      <3>4. /\ AsDouble(v) \in Int /\ AsDouble(bound) \in Int
            /\ v.num <= bound.num => AsDouble(v) <= AsDouble(bound)
            /\ bound.num <= v.num => AsDouble(bound) <= AsDouble(v)
        BY <3>1, ComparisonAssumption
      <3>5. v.num = bound.num => AsDouble(v) = AsDouble(bound)
        BY <3>3, <3>4
      <3> QED
        BY <3>2, <3>3, <3>4, <3>5 DEF bound
    <2> QED
      BY <2>1 DEF Within, BoundKeywords
  <1> HIDE DEF Listed, Alikes, Members, Items, Bytes, Length, Bounds, Doubles, TypeMet
  <1> QED
    BY <1>2, <1>4, <1>5, <1>6, <1>7, <1>8

(***************************************************************************)
(* The parts of a value that a schema speaks of are less deep than it, and *)
(* what is said of them are schemas.                                       *)
(***************************************************************************)
LEMMA PartsAreLessDeep ==
    ASSUME NEW s \in Documents, NEW v \in Documents, NEW p \in PartPairs(s, v)
    PROVE  /\ p[1] \in Documents /\ p[2] \in Documents
           /\ Depth(p[2]) < Depth(v)
           /\ SchemaNode(s, Schemas) => IsSchemaDocument(p[1])
  <1>1. CASE \E n \in Declared(s) \cap Names(v) :
                p = <<At(At(s, "properties"), n), At(v, n)>>
    <2>1. PICK n \in Declared(s) \cap Names(v) :
                p = <<At(At(s, "properties"), n), At(v, n)>>
      BY <1>1
    <2>2. Has(s, "properties") /\ n \in Names(At(s, "properties")) /\ n \in Names(v)
      BY <2>1 DEF Declared
    <2>3. At(s, "properties") \in Documents
      BY <2>2, DocumentsAssumption DEF Has
    <2>4. At(At(s, "properties"), n) \in Documents /\ At(v, n) \in Documents
             /\ Depth(At(v, n)) < Depth(v)
      BY <2>2, <2>3, DocumentsAssumption
    <2>5. SchemaNode(s, Schemas) => IsSchemaDocument(At(At(s, "properties"), n))
      BY <2>2 DEF SchemaNode, Schemas
    <2> QED
      BY <2>1, <2>4, <2>5
  <1>2. CASE \E i \in DOMAIN v.items : /\ Has(s, "items") /\ v.is = "array"
                                       /\ p = <<At(s, "items"), v.items[i]>>
    <2>1. PICK i \in DOMAIN v.items : /\ Has(s, "items") /\ v.is = "array"
                                      /\ p = <<At(s, "items"), v.items[i]>>
      BY <1>2
    <2>2. At(s, "items") \in Documents
      BY <2>1, DocumentsAssumption DEF Has
    <2>3. v.items[i] \in Documents /\ Depth(v.items[i]) < Depth(v)
      BY <2>1, DocumentsAssumption
    <2>4. SchemaNode(s, Schemas) => IsSchemaDocument(At(s, "items"))
      BY <2>1 DEF SchemaNode, Schemas
    <2> QED
      BY <2>1, <2>2, <2>3, <2>4
  <1>3. \/ \E n \in Declared(s) \cap Names(v) :
                p = <<At(At(s, "properties"), n), At(v, n)>>
        \/ \E i \in IF Has(s, "items") /\ v.is = "array" THEN DOMAIN v.items ELSE {} :
                p = <<At(s, "items"), v.items[i]>>
    BY DEF PartPairs
  <1> QED
    BY <1>1, <1>2, <1>3

(***************************************************************************)
(* A schema accepts a value when its keywords are met and the parts it     *)
(* speaks of are accepted.                                                 *)
(***************************************************************************)
LEMMA AcceptedByParts ==
    ASSUME NEW s \in Documents, NEW v \in Documents
    PROVE  InstanceAccepted(s, v)
             <=> /\ IsSchemaDocument(s)
                 /\ KeywordsMet(s, v)
                 /\ \A p \in PartPairs(s, v) : InstanceAccepted(p[1], p[2])
  <1>1. InstanceAccepted(s, v) <=> InstanceNode(s, v, Accepted)
    BY SchemaAssumption
  <1> DEFINE named == {<<At(At(s, "properties"), n), At(v, n)>> :
                          n \in Declared(s) \cap Names(v)}
             numbered == {<<At(s, "items"), v.items[i]>> :
                 i \in IF Has(s, "items") /\ v.is = "array" THEN DOMAIN v.items ELSE {}}
             Members == v.is = "object" /\ Has(s, "properties") =>
                 \A n \in Names(At(s, "properties")) \cap Names(v) :
                    <<At(At(s, "properties"), n), At(v, n)>> \in Accepted
             Items == v.is = "array" /\ Has(s, "items") =>
                 \A i \in DOMAIN v.items : <<At(s, "items"), v.items[i]>> \in Accepted
  <1>2. InstanceAccepted(s, v)
          <=> IsSchemaDocument(s) /\ KeywordsMet(s, v) /\ Members /\ Items
    BY <1>1 DEF InstanceNode
  <1>3. Members <=> named \subseteq Accepted
    BY DEF Declared, Names
  <1>4. Items <=> numbered \subseteq Accepted
    OBVIOUS
  <1>5. PartPairs(s, v) = named \cup numbered
    BY DEF PartPairs
  <1> HIDE DEF Members, Items, named, numbered
  <1>6. \A p \in PartPairs(s, v) : p \in Accepted <=> InstanceAccepted(p[1], p[2])
    <2>1. \A p \in PartPairs(s, v) : p = <<p[1], p[2]>>
      BY DEF PartPairs
    <2>2. \A p \in PartPairs(s, v) : p \in Documents \X Documents
      BY <2>1, PartsAreLessDeep
    <2> QED
      BY <2>2 DEF Accepted
  <1> QED
    BY <1>2, <1>3, <1>4, <1>5, <1>6

(***************************************************************************)
(* A value conforms when it meets what is said of it and its parts do, and *)
(* the validator departs from the standard at it or in a part.             *)
(***************************************************************************)
LEMMA SpokenByParts ==
    ASSUME NEW s \in Documents, NEW v \in Documents
    PROVE  /\ Conforms(s, v) <=> /\ Meets(s, v)
                                 /\ \A p \in PartPairs(s, v) : Conforms(p[1], p[2])
           /\ Departs(s, v) <=> \/ DepartsHere(s, v)
                                \/ \E p \in PartPairs(s, v) : Departs(p[1], p[2])
  <1>1. Spoken(s, v) = {<<s, v>>} \cup UNION {Spoken(p[1], p[2]) : p \in PartPairs(s, v)}
    BY SchemaAssumption
  <1>2. \A pair : pair \in Spoken(s, v)
            <=> \/ pair = <<s, v>>
                \/ \E p \in PartPairs(s, v) : pair \in Spoken(p[1], p[2])
    BY <1>1
  <1>3. Conforms(s, v) <=> /\ Meets(s, v)
                           /\ \A p \in PartPairs(s, v) : Conforms(p[1], p[2])
    <2> DEFINE Met(pair) == Meets(pair[1], pair[2])
    <2>1. Met(<<s, v>>) = Meets(s, v)
      OBVIOUS
    <2>2. \A t, w : Conforms(t, w) <=> \A pair \in Spoken(t, w) : Met(pair)
      BY DEF Conforms
    <2> HIDE DEF Met
    <2>3. Conforms(s, v)
            <=> /\ Met(<<s, v>>)
                /\ \A p \in PartPairs(s, v) : \A pair \in Spoken(p[1], p[2]) : Met(pair)
      BY <1>2, <2>2
    <2> QED
      BY <2>1, <2>2, <2>3
  <1>4. Departs(s, v) <=> \/ DepartsHere(s, v)
                          \/ \E p \in PartPairs(s, v) : Departs(p[1], p[2])
    <2> DEFINE Here(pair) == DepartsHere(pair[1], pair[2])
    <2>1. Here(<<s, v>>) = DepartsHere(s, v)
      OBVIOUS
    <2>2. \A t, w : Departs(t, w) <=> \E pair \in Spoken(t, w) : Here(pair)
      BY DEF Departs
    <2> HIDE DEF Here
    <2>3. Departs(s, v)
            <=> \/ Here(<<s, v>>)
                \/ \E p \in PartPairs(s, v) : \E pair \in Spoken(p[1], p[2]) : Here(pair)
      BY <1>2, <2>2
    <2> QED
      BY <2>1, <2>2, <2>3
  <1> QED
    BY <1>3, <1>4

(***************************************************************************)
(* What the validator decides of a value is what JSON Schema says of it,   *)
(* however deep the value is.  Among the values for which it were not so   *)
(* take one that is least deep: its parts are decided as the standard      *)
(* says, and its keywords as well.                                         *)
(***************************************************************************)
LEMMA VerdictIsStandard ==
    ASSUME NEW schema \in Documents, NEW value \in Documents,
           IsSchemaDocument(schema), ~Departs(schema, value)
    PROVE  InstanceAccepted(schema, value) <=> Conforms(schema, value)
  <1> DEFINE Decided(s, v) == IsSchemaDocument(s) /\ ~Departs(s, v) =>
                                (InstanceAccepted(s, v) <=> Conforms(s, v))
             bad == {v \in Documents : \E s \in Documents : ~Decided(s, v)}
             depths == {Depth(v) : v \in bad}
  <1>1. bad = {}
    <2> SUFFICES ASSUME bad # {} PROVE FALSE
      OBVIOUS
    <2>1. depths \subseteq Nat /\ depths # {}
      BY DocumentsAssumption
    <2>2. PICK least \in depths : \A d \in depths : least <= d
      BY <2>1, FirstOf
    <2>3. PICK v \in bad : \A w \in bad : Depth(v) <= Depth(w)
      BY <2>2
    <2>4. PICK s \in Documents : ~Decided(s, v)
      BY <2>3
    <2>5. v \in Documents /\ IsSchemaDocument(s) /\ ~Departs(s, v)
             /\ ~(InstanceAccepted(s, v) <=> Conforms(s, v))
      BY <2>3, <2>4
    <2>6. SchemaNode(s, Schemas)
      BY <2>5, SchemaAssumption
    <2>7. ~DepartsHere(s, v) /\ \A p \in PartPairs(s, v) : ~Departs(p[1], p[2])
      BY <2>5, SpokenByParts
    <2>8. KeywordsMet(s, v) <=> Meets(s, v)
      BY <2>5, <2>6, <2>7, KeywordsAreStandard
    <2>9. ASSUME NEW p \in PartPairs(s, v)
          PROVE  InstanceAccepted(p[1], p[2]) <=> Conforms(p[1], p[2])
      <3>1. /\ p[1] \in Documents /\ p[2] \in Documents
            /\ Depth(p[2]) < Depth(v)
            /\ IsSchemaDocument(p[1])
        BY <2>5, <2>6, PartsAreLessDeep
      <3>2. Depth(p[2]) \in Nat /\ Depth(v) \in Nat
        BY <2>5, <3>1, DocumentsAssumption
      <3>3. p[2] \notin bad
        <4> HIDE DEF bad
        <4> QED
          BY <2>3, <3>1, <3>2
      <3>4. Decided(p[1], p[2])
        <4> HIDE DEF Decided
        <4> QED
          BY <3>1, <3>3
      <3> QED
        BY <2>7, <3>1, <3>4
    <2>10. InstanceAccepted(s, v)
             <=> /\ KeywordsMet(s, v)
                 /\ \A p \in PartPairs(s, v) : InstanceAccepted(p[1], p[2])
      BY <2>5, AcceptedByParts
    <2>11. Conforms(s, v) <=> /\ Meets(s, v)
                              /\ \A p \in PartPairs(s, v) : Conforms(p[1], p[2])
      BY <2>5, SpokenByParts
    <2> QED
      BY <2>5, <2>8, <2>9, <2>10, <2>11
  <1>2. Decided(schema, value)
    <2> HIDE DEF Decided
    <2> QED
      BY <1>1
  <1> QED
    BY <1>2

(***************************************************************************)
(* What a caller may send to an algorithm is what JSON Schema says of its  *)
(* input schema: SchemaVerdictIsStandard, for any schemas and inputs.      *)
(***************************************************************************)
THEOREM AdmitsTheStandard == Spec => []SchemaVerdictIsStandard
  <1>1. TypeInv => SchemaVerdictIsStandard
    <2> DEFINE schema == disk["input_schema"].content
    <2> SUFFICES ASSUME TypeInv, IsSchemaFile(disk["input_schema"]),
                        NEW v \in Inputs, ~Departs(schema, v)
                 PROVE  InstanceAccepted(schema, v) <=> Conforms(schema, v)
      BY DEF SchemaVerdictIsStandard
    <2>1. disk["input_schema"] \in FilesAt("input_schema")
      BY FileNamesKnown DEF TypeInv, HandedOn
    <2>2. Readable(disk["input_schema"]) /\ IsSchemaDocument(schema)
      BY DEF IsSchemaFile
    <2>3. schema \in Documents /\ v \in Documents
      BY <2>1, <2>2, DocumentsAssumption
    <2> HIDE DEF schema
    <2> QED
      BY <2>2, <2>3, VerdictIsStandard
  <1>2. Spec => []TypeInv
    BY TypeInvariance
  <1> QED
    BY <1>1, <1>2, PTL
=============================================================================
