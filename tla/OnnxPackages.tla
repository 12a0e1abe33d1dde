------------------------------ MODULE OnnxPackages ------------------------------
(***************************************************************************)
(* PackageValidation with the runner of OnnxRunner in the place of its     *)
(* constant operators: what the accepted algorithms compute.               *)
(***************************************************************************)
EXTENDS PackageValidation, OnnxRunner

(***************************************************************************)
(* What golden cases and callers give to the runner.                       *)
(***************************************************************************)
Given ==
    Inputs \cup
    UNION {{f.content : f \in {g \in FilesAt(CaseInputs[i]) : Readable(g)}} :
            i \in DOMAIN CaseInputs}

ASSUME RunnerAssumption ==
    /\ \A f \in FilesAt("preprocess") : PreprocessOf(f) = LoadPreprocessConfig(f)
    /\ \A f \in FilesAt("postprocess") : PostprocessOf(f) = LoadPostprocessConfig(f)
    /\ \A b \in Builds, m \in FilesAt("model"), c \in CardsRead,
          pre \in Values(PreResults), post \in Values(PostResults) :
        SessionOf(b, m, c.provider, pre, post) = LoadSession(b, m, c.provider, pre, post)
    /\ \A r \in Values(Loads), l \in FilesAt("labels") \cup {Missing}, v \in Given :
        Inference(r, l, v) = RunLoaded(r, l, v)

(***************************************************************************)
(* The label maps name their labels by the texts that KeyTexts lists.      *)
(***************************************************************************)
ASSUME LabelMapsAssumption ==
    \A f \in FilesAt("labels") :
        Readable(f) => Names(f.content) \subseteq Range(KeyTexts)

(***************************************************************************)
(* The only inputs that make an accepted, unchanged algorithm throw (and   *)
(* so end the process past the audit line) are arrays that hold text given *)
(* to tensor_from_json; an ill-typed configuration or a label that is not  *)
(* numbered has thrown while the package was validated, and was refused.   *)
(***************************************************************************)
ThrowsOnlyOnText ==
    Replied /\ touched = {} /\ ~reply.outcome.ok /\ reply.outcome.code = "thrown" =>
        LET v == TensorSent(reply.input)
        IN  /\ runner.pre.type = "tensor_from_json"
            /\ v.is = "array"
            /\ \E i \in DOMAIN LeavesOf(v) : LeavesOf(v)[i].is = "string"

(***************************************************************************)
(* The label map numbers the classes 0, 1, ... without gap or repetition.  *)
(***************************************************************************)
NumbersClasses(map) ==
    {Stoi[k] : k \in Names(map)} = 0..(Cardinality(Names(map)) - 1)

(***************************************************************************)
(* The predictions of an answer: with top_k = 1 it is the only one.        *)
(***************************************************************************)
PredictionsOf(answer) ==
    IF Has(answer, "predictions") THEN At(answer, "predictions").items ELSE <<answer>>

(***************************************************************************)
(* Classification: when the label map numbers the classes from 0 (in       *)
(* whatever order its file has them, and whether or not labels repeat),    *)
(* the predictions of a successful call are for distinct classes, each     *)
(* with the label and the probability of its class, by falling probability *)
(* and at most top_k of them, and no class that has a label and a score    *)
(* and is left out is more probable than one that is there.                *)
(***************************************************************************)
PredictionsAreTheBest ==
    LET map == disk["labels"].content
        post == LoadPostprocessConfig(disk["postprocess"])
    IN  (/\ Replied /\ touched = {} /\ reply.outcome.ok
         /\ post.value.type = "classification_postprocess" /\ NumbersClasses(map)) =>
            LET answer == reply.outcome.value
                named == PredictionsOf(answer)
                tensors == RunPreprocess(runner.pre, reply.input).value
                p == Normalized(ScoreVector(RunSession(runner.session,
                                                       tensors).value[1].values).value)
                known == 1..Min({Cardinality(Names(map)), Len(p)})
                isFor(prediction, c) ==
                    /\ At(prediction, "confidence").num = p[c]
                    /\ \E k \in Names(map) :
                        Stoi[k] = c - 1 /\ At(map, k) = At(prediction, "label")
            IN  \E n \in 1..post.value.top :
                    /\ DOMAIN named = 1..n
                    /\ \E class \in Injection(1..n, known) :
                        /\ \A i \in 1..n : isFor(named[i], class[i])
                        /\ \A i, j \in 1..n : i < j => p[class[i]] >= p[class[j]]
                        /\ \A c \in known \ Range(class), i \in 1..n :
                            p[c] <= p[class[i]]

(***************************************************************************)
(* What ONNX Runtime takes: an array of numbers of one depth, or a number. *)
(***************************************************************************)
IsFlattened(v) ==
    /\ v.is \in {"array", "number"} /\ IsRectangular(v)
    /\ Product(AtLeastOne(Shape(v))) = Len(LeavesOf(v)) /\ Len(LeavesOf(v)) # 0
    /\ \A i \in DOMAIN LeavesOf(v) : LeavesOf(v)[i].is \in {"number", "boolean"}

(***************************************************************************)
(* The nested array of numbers that a caller sent, taken apart into a flat *)
(* row, is put together again, whatever each number becomes on the way, in *)
(* the same places and to the same depth.                                  *)
(***************************************************************************)
NestingRestoresTensors ==
    Replied =>
        \A dtype \in {"int64", "float32"} :
            LET v == TensorSent(reply.input)
                tensor == [values |-> v, dtype |-> dtype, shape |-> AtLeastOne(Shape(v))]
            IN  IsFlattened(v) =>
                    /\ Shape(v) = <<>> <=> v.is = "number"
                    /\ Shape(OrtOutput(tensor)) = tensor.shape
                    /\ LeavesOf(OrtOutput(tensor)) = OrtRow(tensor)

(***************************************************************************)
(* The numbers of an array, with true and false for 1 and 0.               *)
(***************************************************************************)
NumberOf(j) ==
    IF j.is = "boolean" THEN [num |-> IF j.truth THEN 100 ELSE 0, off |-> 0]
    ELSE [num |-> j.num, off |-> j.off]

NumbersOf(v) == [i \in DOMAIN LeavesOf(v) |-> NumberOf(LeavesOf(v)[i])]

(***************************************************************************)
(* Those numbers as a tensor holds them: of int64 when all are integers,   *)
(* else of float32.                                                        *)
(***************************************************************************)
TypeHeld(v) ==
    IF \A i \in DOMAIN LeavesOf(v) : IsInt(LeavesOf(v)[i]) THEN "int64" ELSE "float32"

HeldLeaf(leaf, dtype) == IF leaf.is = "number" THEN Held(dtype, leaf) ELSE leaf

NumbersHeld(v) ==
    [i \in DOMAIN LeavesOf(v) |-> NumberOf(HeldLeaf(LeavesOf(v)[i], TypeHeld(v)))]

(***************************************************************************)
(* A model that computes the identity gives a nested array of numbers back *)
(* in the shape it was sent in, although on the way it was taken apart into*)
(* a flat row and put together again (a single number comes back as an     *)
(* array of one from ONNX Runtime, and as itself from the stub).  From the *)
(* stub every number comes back as it was sent; from ONNX Runtime, in its  *)
(* place, the number that the tensor holds for it: the nearest float as    *)
(* soon as any number of the array was not written as an integer.          *)
(***************************************************************************)
IdentityKeepsTheTensor ==
    (/\ Replied /\ touched = {} /\ reply.outcome.ok
     /\ runner.pre.type = "tensor_from_json" /\ runner.post.type = "no_op"
     /\ runner.post.tensor # "logits") =>
        LET sent == TensorSent(reply.input)
            got == reply.outcome.value
        IN  sent.is \in {"array", "number"} =>
                /\ Shape(got) = IF sent.is = "array" \/ build = "stub" THEN Shape(sent)
                                  ELSE <<1>>
                /\ NumbersOf(got) = IF build = "stub" THEN NumbersOf(sent)
                                     ELSE NumbersHeld(sent)
=============================================================================
