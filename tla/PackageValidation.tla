--------------------------- MODULE PackageValidation ---------------------------
(***************************************************************************)
(* What `register` and `validate` check of a package                       *)
(* (src/validation/algorithm_card_validator.cpp, onnx_package_validator.cpp*)
(* and golden_case_runner.cpp), one read of the disk per step, and then    *)
(* the calls of the algorithm they accepted.  Nothing locks a package: its *)
(* authors may change any of its files between two steps, and afterwards.  *)
(*                                                                         *)
(* The conversation with a Python service is one step here; ServiceExchange*)
(* opens it up.  A refusal is the error code, "thrown" is an exception     *)
(* that ends the command in main's handler.                                *)
(*                                                                         *)
(* What is decided of a document and computed from an input is given by    *)
(* constant operators: PackageSchemas says that the first are those of the *)
(* rules of SchemaValidator, OnnxPackages that the second are those of     *)
(* OnnxRunner.                                                             *)
(***************************************************************************)
EXTENDS SchemaValidator, FiniteSetsExt

CONSTANTS
    PreprocessOf(_),           \* the configuration that a file gives
    PostprocessOf(_),
    SessionOf(_, _, _, _, _),  \* the runner that OnnxRunner::Load makes
    Inference(_, _, _),        \* what OnnxRunner::Run makes of an input
    Matches(_, _),             \* whether CompareJson takes an output for the expected one
    CaseInputs,  \* the files of the golden cases, in the order of their names
    CaseExpected,
    Packages,    \* the packages as validation may find them: files by name
    Replacements,\* Replacements[f]: what the authors may put in the place of f
    MaxChanges,  \* how many files they change (bound)
    Builds,      \* the builds of the program: "stub", "onnxruntime"
    Inputs       \* what callers send

PackageFiles ==
    {"card", "model", "input_schema", "output_schema", "preprocess", "postprocess",
     "labels", "tokenizer"}

FileNames ==
    PackageFiles \cup {CaseInputs[i] : i \in DOMAIN CaseInputs}
                 \cup {CaseExpected[i] : i \in DOMAIN CaseExpected}

Codes ==
    {"MISSING_REQUIRED_FILE", "YAML_PARSE_ERROR", "INVALID_ALGORITHM_CARD",
     "MISSING_REQUIRED_FIELD", "UNSUPPORTED_BACKEND_TYPE", "BACKEND_TYPE_MISMATCH",
     "ONNX_MODEL_NOT_FOUND", "ONNX_LOAD_FAILED", "ONNX_RUNTIME_ERROR",
     "ONNX_INPUT_TENSOR_MISMATCH", "ONNX_OUTPUT_TENSOR_MISMATCH",
     "INPUT_SCHEMA_INVALID", "OUTPUT_SCHEMA_INVALID", "PREPROCESS_FAILED",
     "POSTPROCESS_FAILED", "TOKENIZER_NOT_SUPPORTED", "GOLDEN_CASE_FAILED",
     "SERVICE_ERROR", "thrown"}

RunCodes == Codes \ {"GOLDEN_CASE_FAILED"}

ASSUME CasesAssumption ==
    /\ CaseInputs \in Seq(STRING) /\ CaseExpected \in Seq(STRING)
    /\ Len(CaseInputs) = Len(CaseExpected)
    /\ \A i \in DOMAIN CaseInputs :
        CaseInputs[i] \notin PackageFiles /\ CaseExpected[i] \notin PackageFiles

ASSUME PackagesAssumption ==
    \A b \in Packages :
        /\ b = [f \in FileNames |-> b[f]]
        /\ Readable(b["card"]) =>
            b["card"].content.defect \in {"none"} \cup Codes

(***************************************************************************)
(* Everything that a read of a file, a load and a call can return, for the *)
(* files there can be: a result, or one of the codes.                      *)
(***************************************************************************)
FilesAt(f) == {b[f] : b \in Packages} \cup Replacements[f]

Values(results) == {r.value : r \in {s \in results : s.ok}}

CardsRead == {f.content : f \in {g \in {b["card"] : b \in Packages} : Readable(g)}}

PreResults  == {PreprocessOf(f) : f \in FilesAt("preprocess")}
PostResults == {PostprocessOf(f) : f \in FilesAt("postprocess")}

Loads ==
    {SessionOf(b, m, c.provider, pre, post) :
        b \in Builds, m \in FilesAt("model"), c \in CardsRead,
        pre \in Values(PreResults), post \in Values(PostResults)}

Runs ==
    {Inference(r, l, v) :
        r \in Values(Loads), l \in FilesAt("labels") \cup {Missing}, v \in Inputs}

ASSUME ResultsAssumption ==
    /\ \A r \in PreResults \cup PostResults \cup Loads \cup Runs :
        r.ok \/ r.code \in RunCodes
    /\ \A r \in Values(Loads) : DOMAIN r = {"pre", "post", "session"}

VARIABLES
    build,    \* the build that runs
    disk,     \* the files of the package
    touched,  \* the files changed since validation began
    at,       \* the next check, or "done"
    card,     \* the card as it was read
    runner,   \* what of the runner is loaded
    titled,   \* whether the two schemas can be summarised, as they were read
    todo,     \* the golden cases still to run, by number
    golden,   \* the golden case at hand: input, expected output, output
    verdict,  \* "none", "accepted", or the code of the refusal
    reply     \* the last call: its input and its outcome

vars == <<build, disk, touched, at, card, runner, titled, todo, golden, verdict, reply>>

Nothing == [is |-> "nothing"]

Init ==
    /\ build \in Builds
    /\ disk \in Packages
    /\ touched = {}
    /\ at = "read_card"
    /\ card = Nothing
    /\ runner = Nothing
    /\ titled = TRUE
    /\ todo = {}
    /\ golden = Nothing
    /\ verdict = "none"
    /\ reply = Nothing

(***************************************************************************)
(* A check goes on to the next one or ends the validation with its code.   *)
(***************************************************************************)
ProceedSilently(result, next) ==
    /\ at' = (IF result.ok THEN next ELSE "done")
    /\ UNCHANGED verdict
Proceed(result, next) ==
    IF result.ok THEN at' = next /\ UNCHANGED verdict
    ELSE at' = "done" /\ verdict' = result.code

Require(holds, code) == IF holds THEN Ok("") ELSE Fail(code)

(***************************************************************************)
(* AppendStatus: of several checks, the first that fails is reported.      *)
(***************************************************************************)
FirstFailure(checks) ==
    LET failed == {i \in DOMAIN checks : ~checks[i].ok}
    IN  IF failed = {} THEN Ok("") ELSE checks[Min(failed)]

(***************************************************************************)
(* The card.  Its `defect` is what ParseAlgorithmCard and                  *)
(* ValidateCommonFields find in the fields that no later step uses.        *)
(***************************************************************************)
CardOf(f) ==
    IF ~Exists(f) THEN Fail("MISSING_REQUIRED_FILE")
    ELSE IF ~Readable(f) THEN Fail("YAML_PARSE_ERROR")
    ELSE IF f.content.defect # "none" THEN Fail(f.content.defect)
    ELSE IF f.content.runtime # f.content.backend THEN Fail("BACKEND_TYPE_MISMATCH")
    ELSE Ok(f.content)

ReadCard ==
    /\ at = "read_card"
    /\ Proceed(CardOf(disk["card"]), "check_files")
    /\ card' = IF CardOf(disk["card"]).ok THEN disk["card"].content ELSE card
    /\ UNCHANGED <<build, disk, touched, runner, titled, todo, golden, reply>>

(***************************************************************************)
(* ValidateBackendSpecificFields.                                          *)
(***************************************************************************)
OnnxFiles(c) == <<
    Require(/\ c.model /\ c.preprocess = "given" /\ c.postprocess = "given",
            "MISSING_REQUIRED_FIELD"),
    Require(Exists(disk["model"]), "ONNX_MODEL_NOT_FOUND"),
    Require(Exists(disk["input_schema"]), "INPUT_SCHEMA_INVALID"),
    Require(Exists(disk["output_schema"]), "OUTPUT_SCHEMA_INVALID"),
    Require(Exists(disk["preprocess"]), "PREPROCESS_FAILED"),
    Require(Exists(disk["postprocess"]), "POSTPROCESS_FAILED"),
    Require(c.tokenizer => Exists(disk["tokenizer"]), "TOKENIZER_NOT_SUPPORTED"),
    Require(c.labels => Exists(disk["labels"]), "POSTPROCESS_FAILED") >>

ServiceFiles(c) == <<
    Require(c.endpoints /\ c.timeout, "MISSING_REQUIRED_FIELD"),
    Require(Exists(disk["input_schema"]), "INPUT_SCHEMA_INVALID"),
    Require(Exists(disk["output_schema"]), "OUTPUT_SCHEMA_INVALID") >>

CheckFiles ==
    /\ at = "check_files"
    /\ Proceed(FirstFailure(IF card.backend = "onnx" THEN OnnxFiles(card)
                            ELSE ServiceFiles(card)),
               "load_input_schema")
    /\ UNCHANGED <<build, disk, touched, card, runner, titled, todo, golden, reply>>

(***************************************************************************)
(* LoadSchema reads the file again wherever a schema is needed.            *)
(***************************************************************************)
IsSchemaFile(f) == Readable(f) /\ IsSchemaDocument(f.content)

Admits(name, code, v) ==
    Require(IsSchemaFile(disk[name]) /\ InstanceAccepted(disk[name].content, v), code)

(***************************************************************************)
(* SummarizeSchema reads title and descriptions as strings, or throws.     *)
(***************************************************************************)
Titled(s) ==
    LET plain(t, n) == Has(t, n) => At(t, n).is = "string"
    IN  /\ plain(s, "title")
        /\ Has(s, "properties") =>
            \A n \in Names(At(s, "properties")) :
                plain(At(At(s, "properties"), n), "description")

LoadInputSchema ==
    /\ at = "load_input_schema"
    /\ Proceed(Require(IsSchemaFile(disk["input_schema"]), "INPUT_SCHEMA_INVALID"),
               "load_output_schema")
    /\ titled' = (IsSchemaFile(disk["input_schema"]) => Titled(disk["input_schema"].content))
    /\ UNCHANGED <<build, disk, touched, card, runner, todo, golden, reply>>

LoadOutputSchema ==
    /\ at = "load_output_schema"
    /\ Proceed(Require(IsSchemaFile(disk["output_schema"]), "OUTPUT_SCHEMA_INVALID"),
               IF card.backend = "onnx" THEN "load_preprocess" ELSE "ask_service")
    /\ titled' = (titled /\ (IsSchemaFile(disk["output_schema"]) =>
                                Titled(disk["output_schema"].content)))
    /\ UNCHANGED <<build, disk, touched, card, runner, todo, golden, reply>>

(***************************************************************************)
(* OnnxPackageValidator: OnnxRunner::Load, file by file.                   *)
(***************************************************************************)
LoadPreprocess ==
    LET pre == PreprocessOf(disk["preprocess"])
    IN  /\ at = "load_preprocess"
        /\ Proceed(pre, "load_postprocess")
        /\ runner' = IF pre.ok THEN [is |-> "loading", pre |-> pre.value] ELSE runner
        /\ UNCHANGED <<build, disk, touched, card, titled, todo, golden, reply>>

LoadPostprocess ==
    LET post == PostprocessOf(disk["postprocess"])
    IN  /\ at = "load_postprocess"
        /\ Proceed(post, "load_session")
        /\ runner' = IF post.ok
                     THEN [is |-> "loading", pre |-> runner.pre, post |-> post.value]
                     ELSE runner
        /\ UNCHANGED <<build, disk, touched, card, titled, todo, golden, reply>>

LoadRunner ==
    LET loaded == SessionOf(build, disk["model"], card.provider, runner.pre, runner.post)
    IN  /\ at = "load_session"
        /\ Proceed(loaded, "list_cases")
        /\ runner' = IF loaded.ok THEN loaded.value ELSE runner
        /\ UNCHANGED <<build, disk, touched, card, titled, todo, golden, reply>>
-----------------------------------------------------------------------------
(***************************************************************************)
(* GoldenCaseRunner::Run.  The inputs are listed once, by name; each case  *)
(* is read when its turn comes.                                            *)
(***************************************************************************)
CasesWithoutLast ==
    LET all == {i \in DOMAIN CaseInputs : Exists(disk[CaseInputs[i]])}
    IN  IF Cardinality(all) > 1 THEN all \ {Max(all)} ELSE all
Cases == {i \in DOMAIN CaseInputs : Exists(disk[CaseInputs[i]])}

ListCases ==
    /\ at = "list_cases"
    /\ Proceed(Require(Cases # {}, "GOLDEN_CASE_FAILED"), "read_case")
    /\ todo' = Cases
    /\ UNCHANGED <<build, disk, touched, card, runner, titled, golden, reply>>

ThisCase == Min(todo)

ReadCase ==
    LET input == disk[CaseInputs[ThisCase]]
        expected == disk[CaseExpected[ThisCase]]
        both == Readable(input) /\ Readable(expected)
    IN  /\ at = "read_case"
        /\ Proceed(Require(both, "GOLDEN_CASE_FAILED"), "check_input")
        /\ golden' = IF both THEN [is |-> "case", input |-> input.content,
                                   expected |-> expected.content]
                     ELSE golden
        /\ UNCHANGED <<build, disk, touched, card, runner, titled, todo, reply>>

CheckInput ==
    /\ at = "check_input"
    /\ Proceed(Admits("input_schema", "INPUT_SCHEMA_INVALID", golden.input), "run_case")
    /\ UNCHANGED <<build, disk, touched, card, runner, titled, todo, golden, reply>>

(***************************************************************************)
(* A card without a label map leaves the runner an empty path.             *)
(***************************************************************************)
LabelFile == IF card.labels THEN disk["labels"] ELSE Missing

RunCase ==
    LET result == Inference(runner, LabelFile, golden.input)
        code == IF result.ok THEN "" ELSE
                IF result.code = "thrown" THEN "thrown" ELSE "GOLDEN_CASE_FAILED"
    IN  /\ at = "run_case"
        /\ Proceed(Require(result.ok, code), "check_output")
        /\ golden' = IF result.ok
                     THEN [is |-> "ran", input |-> golden.input,
                           expected |-> golden.expected, output |-> result.value]
                     ELSE golden
        /\ UNCHANGED <<build, disk, touched, card, runner, titled, todo, reply>>

AdmitsOutput(v) == Admits("output_schema", "OUTPUT_SCHEMA_INVALID", v)

CheckOutput ==
    /\ at = "check_output"
    /\ Proceed(AdmitsOutput(golden.output), "compare")
    /\ UNCHANGED <<build, disk, touched, card, runner, titled, todo, golden, reply>>

Compare ==
    /\ at = "compare"
    /\ Proceed(Require(Matches(golden.expected, golden.output), "GOLDEN_CASE_FAILED"),
               IF todo = {ThisCase} THEN "summarise" ELSE "read_case")
    /\ todo' = todo \ {ThisCase}
    /\ UNCHANGED <<build, disk, touched, card, runner, titled, golden, reply>>

(***************************************************************************)
(* PythonServiceValidator: whatever the service answers.                   *)
(***************************************************************************)
AskService ==
    /\ at = "ask_service"
    /\ \E answered \in BOOLEAN : Proceed(Require(answered, "SERVICE_ERROR"), "summarise")
    /\ UNCHANGED <<build, disk, touched, card, runner, titled, todo, golden, reply>>

Summarise ==
    /\ at = "summarise"
    /\ at' = "done"
    /\ verdict' = IF titled THEN "accepted" ELSE "thrown"
    /\ UNCHANGED <<build, disk, touched, card, runner, titled, todo, golden, reply>>
-----------------------------------------------------------------------------
(***************************************************************************)
(* A call of the accepted algorithm (ExecutionCoordinator::Run on an ONNX  *)
(* entry): the entry keeps the card, everything else is read again.  A     *)
(* call changes nothing but `reply`, so one call between two changes shows *)
(* what any later one would find (bound).                                  *)
(***************************************************************************)
CallOutcome(v) ==
    LET input == Admits("input_schema", "INPUT_SCHEMA_INVALID", v)
        pre == PreprocessOf(disk["preprocess"])
        post == PostprocessOf(disk["postprocess"])
        loaded == SessionOf(build, disk["model"], card.provider, pre.value, post.value)
        ran == Inference(loaded.value, LabelFile, v)
        output == AdmitsOutput(ran.value)
    IN  IF ~input.ok THEN input
        ELSE IF ~pre.ok THEN pre
        ELSE IF ~post.ok THEN post
        ELSE IF ~loaded.ok THEN loaded
        ELSE IF ~ran.ok THEN ran
        ELSE IF ~output.ok THEN output
        ELSE ran

Call(v) ==
    /\ at = "done"
    /\ verdict = "accepted"
    /\ card.backend = "onnx"
    /\ reply = Nothing
    /\ reply' = [is |-> "reply", input |-> v, outcome |-> CallOutcome(v)]
    /\ UNCHANGED <<build, disk, touched, at, card, runner, titled, todo, golden, verdict>>

(***************************************************************************)
(* The authors replace or remove a file.                                   *)
(***************************************************************************)
Change(f) ==
    /\ Cardinality(touched) < MaxChanges
    /\ at # "read_card"
    /\ \E g \in Replacements[f] \ {disk[f]} : disk' = [disk EXCEPT ![f] = g]
    /\ touched' = touched \cup {f}
    /\ reply' = Nothing
    /\ UNCHANGED <<build, at, card, runner, titled, todo, golden, verdict>>

Next ==
    \/ ReadCard \/ CheckFiles \/ LoadInputSchema \/ LoadOutputSchema
    \/ LoadPreprocess \/ LoadPostprocess \/ LoadRunner
    \/ ListCases \/ ReadCase \/ CheckInput \/ RunCase \/ CheckOutput \/ Compare
    \/ AskService \/ Summarise
    \/ \E v \in Inputs : Call(v)
    \/ \E f \in FileNames : Change(f)

Spec == Init /\ [][Next]_vars
-----------------------------------------------------------------------------
(***************************************************************************)
(* Types: the codes a validation and a call can end with, and what of the  *)
(* runner exists at each check.                                            *)
(***************************************************************************)
TypeOK ==
    /\ build \in Builds
    /\ touched \subseteq FileNames
    /\ todo \subseteq DOMAIN CaseInputs
    /\ titled \in BOOLEAN
    /\ verdict \in {"none", "accepted"} \cup Codes
    /\ (at = "done") = (verdict # "none")
    /\ at \in {"list_cases", "read_case", "check_input", "run_case", "check_output",
               "compare"} =>
        DOMAIN runner = {"pre", "post", "session"}
    /\ reply.is = "reply" =>
        reply.outcome.ok \/ reply.outcome.code \in RunCodes

Replied == reply.is = "reply"

(***************************************************************************)
(* An accepted package does what its golden cases say: as long as no file  *)
(* but the card and the tokenizer was changed since validation began, a    *)
(* call with the input of any case succeeds with the output the case       *)
(* expects, within CompareJson's tolerance.  The case may be one the       *)
(* validation ran long ago, on another runner, before another case, and    *)
(* the schema is read anew by each.                                        *)
(***************************************************************************)
AcceptedRunsItsGoldenCases ==
    Replied /\ touched \subseteq {"card", "tokenizer"} =>
        \A i \in DOMAIN CaseInputs :
            disk[CaseInputs[i]] = Holding(reply.input) =>
                /\ reply.outcome.ok
                /\ Matches(disk[CaseExpected[i]].content, reply.outcome.value)
=============================================================================
