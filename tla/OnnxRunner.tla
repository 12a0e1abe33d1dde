------------------------------- MODULE OnnxRunner -------------------------------
(***************************************************************************)
(* One inference of an ONNX algorithm: the configurations and the pipeline *)
(* of src/runtime/onnx_pipeline.cpp, the session of onnx_session.cpp in    *)
(* both builds (the stub that stands in for ONNX Runtime, which is the     *)
(* default, and ONNX Runtime itself) and the runner that joins them        *)
(* (onnx_runner.cpp).  Everything here is a function of the files of the   *)
(* package and of the input; PackageValidation gives the steps.            *)
(*                                                                         *)
(* The walks over nested arrays are constant operators, given by JsonTrees,*)
(* and so are the texts that name the labels.                              *)
(***************************************************************************)
EXTENDS JsonValues

CONSTANTS
    Shape(_),          \* the dimensions of a nested array, outermost first
    IsRectangular(_),  \* whether arrays side by side have the same shape
    LeavesOf(_),       \* what a nested array holds, in order
    Unflattened(_, _), \* the nested array of a row of leaves and a shape
    Held(_, _),        \* the number that a tensor of an element type holds for a number
    KeyTexts,          \* the member names a label map may have, in their order
    Stoi               \* the numbers std::stoi reads in some of them

ASSUME KeysAssumption ==
    /\ KeyTexts \in Seq(STRING)
    /\ \A k \in DOMAIN Stoi : Stoi[k] \in Int

(***************************************************************************)
(* std::sort: the members of a finite set in the order of a value each has.*)
(* The order of equals is left open; it is the same for the same arguments.*)
(***************************************************************************)
Sorted(S, value) ==
    CHOOSE f \in Bijection(1..Cardinality(S), S) :
        \A i, j \in 1..Cardinality(S) : i < j => value[f[i]] <= value[f[j]]

(***************************************************************************)
(* The text of a YAML scalar of one word, or the field's default.          *)
(***************************************************************************)
TextOr(j, n, default) == IF Has(j, n) THEN Only(At(j, n)) ELSE default

LoadPreprocessConfig(f) ==
    IF ~Readable(f) \/ f.content.is # "object" THEN Fail("PREPROCESS_FAILED")
    ELSE IF Has(f.content, "lowercase") /\ At(f.content, "lowercase").is # "boolean"
         THEN Fail("thrown")
    ELSE LET type == TextOr(f.content, "type", "no_op")
         IN  IF type \notin {"no_op", "tensor_from_json", "text_tokenization"}
             THEN Fail("PREPROCESS_FAILED")
             ELSE Ok([type |-> type,
                      field |-> TextOr(f.content, "input_field", "text"),
                      tensor |-> TextOr(f.content, "tensor_name", "input")])

LoadPostprocessConfig(f) ==
    IF ~Readable(f) \/ f.content.is # "object" THEN Fail("POSTPROCESS_FAILED")
    ELSE LET type == TextOr(f.content, "type", "no_op")
             default == IF type = "classification_postprocess" THEN "logits" ELSE "output"
             top == IF Has(f.content, "top_k") THEN At(f.content, "top_k") ELSE Whole(1)
             k == top.num \div 100
         IN  IF ~IsWhole(top) THEN Fail("thrown")
             ELSE IF type \notin {"no_op", "classification_postprocess"} \/ k <= 0
                  THEN Fail("POSTPROCESS_FAILED")
             ELSE Ok([type |-> type, top |-> k,
                      tensor |-> TextOr(f.content, "tensor_name", default)])

ExpectedInputs(pre) ==
    IF pre.type = "text_tokenization" THEN <<"input_ids", "attention_mask">>
    ELSE <<pre.tensor>>
ExpectedOutputs(post) == <<post.tensor>>
-----------------------------------------------------------------------------
AtLeastOne(shape) == IF shape = <<>> THEN <<1>> ELSE shape

IsInt(leaf) == leaf.is = "boolean" \/ IsWhole(leaf)

(***************************************************************************)
(* BuildTensorFromJsonValue.  FlattenNumericValues reads every leaf of an  *)
(* array as a number and throws on text.                                   *)
(***************************************************************************)
TensorFromJsonUnshaped(name, v, source) ==
    IF \A i \in DOMAIN LeavesOf(v) : LeavesOf(v)[i].is \in {"number", "boolean"}
    THEN Ok(<<[name |-> name, dtype |-> "float32", values |-> v, source |-> source,
               shape |-> AtLeastOne(Shape(v))]>>)
    ELSE Fail("thrown")
TensorFromJson(name, v, source) ==
    LET leaves == LeavesOf(v)
        tensor(dtype) == [name |-> name, dtype |-> dtype, values |-> v, source |-> source,
                          shape |-> AtLeastOne(Shape(v))]
    IN  IF ~IsRectangular(v) THEN Fail("PREPROCESS_FAILED")
        ELSE IF v.is = "string" THEN Ok(<<tensor("string")>>)
        ELSE IF v.is = "array" /\ \E i \in DOMAIN leaves : leaves[i].is = "string"
             THEN Fail("thrown")
        ELSE Ok(<<tensor(IF \A i \in DOMAIN leaves : IsInt(leaves[i])
                         THEN "int64" ELSE "float32")>>)

(***************************************************************************)
(* Tokens become opaque numbers, one per word, between two markers.        *)
(***************************************************************************)
HashToken(word) == Whole(200)

Tokenized(v) ==
    LET words == IF v.words = <<>> THEN <<"[EMPTY]">> ELSE v.words
        ids == <<Whole(101)>> \o [i \in DOMAIN words |-> HashToken(words[i])] \o <<Whole(102)>>
        tensor(name, row) == [name |-> name, dtype |-> "int64", shape |-> <<1, Len(row)>>,
                              values |-> Array(<<Array(row)>>),
                              source |-> Object([text |-> v])]
    IN  <<tensor("input_ids", ids),
          tensor("attention_mask", [i \in DOMAIN ids |-> Whole(1)])>>

TensorSent(inputs) == IF Has(inputs, "tensor") THEN At(inputs, "tensor") ELSE inputs

RunPreprocess(pre, inputs) ==
    CASE pre.type = "no_op" ->
            Ok(<<[name |-> pre.tensor, dtype |-> "string", shape |-> <<1>>,
                  values |-> inputs, source |-> inputs]>>)
      [] pre.type = "tensor_from_json" ->
            TensorFromJson(pre.tensor, TensorSent(inputs), inputs)
      [] pre.type = "text_tokenization" ->
            IF Has(inputs, pre.field) /\ At(inputs, pre.field).is = "string"
            THEN Ok(Tokenized(At(inputs, pre.field)))
            ELSE Fail("PREPROCESS_FAILED")
-----------------------------------------------------------------------------
(***************************************************************************)
(* The session.  A model file names the tensors it takes and gives and the *)
(* element type it takes; what it computes is here the identity of its     *)
(* first input, like the model of the tests.  The stub reads none of this. *)
(***************************************************************************)
LoadModel(build, f, provider, inputs, outputs) ==
    IF ~Exists(f) THEN Fail("ONNX_MODEL_NOT_FOUND")
    ELSE IF provider \notin {"", "cpu"} THEN Fail("ONNX_LOAD_FAILED")
    ELSE IF build = "stub"
         THEN Ok([build |-> build, inputs |-> inputs, outputs |-> outputs])
    ELSE IF Readable(f)
         THEN Ok([build |-> build, inputs |-> f.content.inputs,
                  outputs |-> f.content.outputs, takes |-> f.content.takes])
    ELSE Fail("ONNX_LOAD_FAILED")

(***************************************************************************)
(* BuildOrtInputTensor: the leaves must be of the tensor's type and as     *)
(* many as its shape says; a dimension of zero is refused as negative.     *)
(***************************************************************************)
OrtInput(tensor) ==
    LET leaves == LeavesOf(tensor.values)
        fits(leaf) == CASE tensor.dtype = "float32" -> leaf.is \in {"number", "boolean"}
                        [] tensor.dtype = "int64"   -> IsInt(leaf)
                        [] tensor.dtype = "string"  -> leaf.is = "string"
    IN  IF /\ Product(tensor.shape) # 0
           /\ \A i \in DOMAIN leaves : fits(leaves[i])
           /\ Len(leaves) = Product(tensor.shape)
        THEN Ok(leaves) ELSE Fail("ONNX_INPUT_TENSOR_MISMATCH")

(***************************************************************************)
(* A leaf on its way through a tensor: true becomes 1, and a number the one*)
(* that the element type holds for it: static_cast<float> takes the nearest*)
(* float (0.1 becomes 0.10000000149), which comes back as a double, and    *)
(* get<int64_t> goes round beyond 2^63.  (A number beyond the range of     *)
(* floats is not modelled.)                                                *)
(***************************************************************************)
AsTensorLeafTruncated(leaf, dtype) ==
    IF leaf.is = "number" THEN Whole(leaf.num \div 100) ELSE leaf

AsTensorLeaf(leaf, dtype) ==
    CASE leaf.is = "string" -> leaf
      [] leaf.is = "boolean" -> LET n == IF leaf.truth THEN 1 ELSE 0
                                IN  IF dtype = "int64" THEN Whole(n) ELSE Hundredths(100 * n)
      [] leaf.is = "number" -> Held(dtype, leaf)

(***************************************************************************)
(* ConvertOrtOutputTensor of what the model gives back.                    *)
(***************************************************************************)
OrtRow(tensor) ==
    [i \in DOMAIN LeavesOf(tensor.values) |->
        AsTensorLeaf(LeavesOf(tensor.values)[i], tensor.dtype)]

OrtOutput(tensor) == Unflattened(OrtRow(tensor), tensor.shape)

RunOrt(session, tensors) ==
    LET unready == {i \in DOMAIN tensors : ~OrtInput(tensors[i]).ok}
        first == tensors[1]
    IN  IF unready # {} THEN Fail("ONNX_INPUT_TENSOR_MISMATCH")
        ELSE IF first.dtype # session.takes THEN Fail("ONNX_RUNTIME_ERROR")
        ELSE Ok([i \in DOMAIN session.outputs |->
                    [name |-> session.outputs[i], values |-> OrtOutput(first)]])

(***************************************************************************)
(* The stub's answers: scores by topic when the model is to give logits,   *)
(* and otherwise the first input back.                                     *)
(***************************************************************************)
Lower == [w \in {"Task", "TASK"} |-> "task"]

Mentions(v, topic) ==
    \E i \in DOMAIN v.words :
        topic = IF v.words[i] \in DOMAIN Lower THEN Lower[v.words[i]] ELSE v.words[i]

SourceText(tensors) ==
    LET told == SelectSeq(tensors, LAMBDA t :
                    Has(t.source, "text") /\ At(t.source, "text").is = "string")
    IN  IF told = <<>> THEN Text(<<>>) ELSE At(told[1].source, "text")

NumericSignal(tensors) ==
    LET heads(j) == <<j>> \o (IF j.is = "array" /\ j.items # <<>>
                              THEN <<j.items[1]>> \o
                                   (IF j.items[1].is = "array" /\ j.items[1].items # <<>>
                                    THEN <<j.items[1].items[1]>> ELSE <<>>)
                              ELSE <<>>)
        numbers == SelectSeq(FlattenSeq([i \in DOMAIN tensors |-> heads(tensors[i].values)]),
                             LAMBDA j : j.is = "number")
    IN  IF numbers = <<>> THEN 0 ELSE numbers[1].num

StubScores(text, signal) ==
    IF Mentions(text, "task") THEN <<96, 2, 2>>
    ELSE IF Mentions(text, "report") THEN <<3, 93, 4>>
    ELSE IF signal > 50 THEN <<20, 30, 50>>
    ELSE <<8, 12, 80>>

RunStub(session, tensors) ==
    LET scores == StubScores(SourceText(tensors), NumericSignal(tensors))
        name == session.outputs[1]
    IN  Ok(<<[name |-> name,
              values |-> IF name = "logits"
                         THEN Array(<<Array([i \in 1..3 |-> Hundredths(scores[i])])>>)
                         ELSE tensors[1].values]>>)

RunSession(session, tensors) ==
    IF session.build = "stub" THEN RunStub(session, tensors) ELSE RunOrt(session, tensors)
-----------------------------------------------------------------------------
(***************************************************************************)
(* LoadLabels.  A JSON object keeps its members in the order of their      *)
(* names' text; the first whose value is no string, or whose name          *)
(* std::stoi throws on, ends it.  The labels are put in the order of their *)
(* numbers, without gaps.                                                  *)
(***************************************************************************)
LabelKeys(map) == SelectSeq(KeyTexts, LAMBDA k : Has(map, k))

LabelsUnsorted(map) == [i \in DOMAIN LabelKeys(map) |-> At(map, LabelKeys(map)[i])]
Labels(map) ==
    LET keys == Sorted(Names(map), Stoi)
    IN  [i \in 1..Cardinality(Names(map)) |-> At(map, keys[i])]

LoadLabels(f) ==
    LET map == f.content
        bad == {i \in DOMAIN KeyTexts :
                    /\ Has(map, KeyTexts[i])
                    /\ At(map, KeyTexts[i]).is # "string" \/ KeyTexts[i] \notin DOMAIN Stoi}
    IN  IF ~Readable(f) \/ map.is # "object" THEN Fail("POSTPROCESS_FAILED")
        ELSE IF bad = {} THEN Ok(Labels(map))
        ELSE IF At(map, KeyTexts[Min(bad)]).is # "string" THEN Fail("POSTPROCESS_FAILED")
        ELSE Fail("thrown")

(***************************************************************************)
(* ExtractScoreVector: a row of numbers, or the first of several rows.     *)
(***************************************************************************)
ScoreVector(j) ==
    LET rows == IsArray(j) /\ Len(j.items) > 0 /\ j.items[1].is = "array"
        row == IF rows THEN j.items[1] ELSE j
    IN  IF /\ IsArray(row) /\ Len(row.items) > 0
           /\ \A i \in DOMAIN row.items : IsNumber(row.items[i])
        THEN Ok([i \in DOMAIN row.items |-> row.items[i].num])
        ELSE Fail("POSTPROCESS_FAILED")

(***************************************************************************)
(* NormalizeScores: probabilities pass, anything else goes through a       *)
(* softmax (here of whole distances from the greatest score and with 2 for *)
(* e, which keeps what the softmax keeps: the order of the scores, and     *)
(* nothing for a score far below the greatest).                            *)
(***************************************************************************)
Total(scores) ==
    LET upTo[i \in 0..Len(scores)] == IF i = 0 THEN 0 ELSE upTo[i - 1] + scores[i]
    IN  upTo[Len(scores)]

Weight(far) ==
    IF far > 10 THEN 0 ELSE <<1024, 512, 256, 128, 64, 32, 16, 8, 4, 2, 1>>[far + 1]

Normalized(scores) ==
    LET weights == [i \in DOMAIN scores |->
                        Weight((Max(Range(scores)) - scores[i]) \div 100)]
    IN  IF (\A i \in DOMAIN scores : scores[i] \in 0..100) /\ Total(scores) = 100
        THEN scores
        ELSE [i \in DOMAIN scores |-> (100 * weights[i]) \div Total(weights)]

(***************************************************************************)
(* The classes by falling probability.                                     *)
(***************************************************************************)
Ranked(p) == Sorted(DOMAIN p, [i \in DOMAIN p |-> -p[i]])

Prediction(labels, p, i) ==
    Object([label |-> labels[i], confidence |-> Hundredths(p[i])])

Classified(top, labels, p) ==
    LET order == Ranked(p)
        limit == IF top < Len(p) THEN top ELSE Len(p)
        covered == {k \in 1..limit : order[k] <= Len(labels)}
        listed == Sorted(covered, [k \in covered |-> k])
    IN  IF order[1] > Len(labels) THEN Fail("POSTPROCESS_FAILED")
        ELSE IF top = 1 THEN Ok(Prediction(labels, p, order[1]))
        ELSE Ok(Object([predictions |->
                    Array([n \in 1..Cardinality(covered) |->
                              Prediction(labels, p, order[listed[n]])])]))

RunPostprocess(post, outputs, labelFile) ==
    LET named == {i \in DOMAIN outputs : outputs[i].name = post.tensor}
        values == outputs[Min(named)].values
        labels == LoadLabels(labelFile)
        scores == ScoreVector(values)
    IN  IF named = {} THEN Fail("POSTPROCESS_FAILED")
        ELSE IF post.type = "no_op" THEN Ok(values)
        ELSE IF ~labels.ok THEN labels
        ELSE IF ~scores.ok THEN scores
        ELSE Classified(post.top, labels.value, Normalized(scores.value))
-----------------------------------------------------------------------------
(***************************************************************************)
(* OnnxRunner::Load, after the two configurations were read: the session,  *)
(* whose names must be those the configurations expect.                    *)
(***************************************************************************)
LoadSession(build, f, provider, pre, post) ==
    LET session == LoadModel(build, f, provider, ExpectedInputs(pre), ExpectedOutputs(post))
    IN  IF ~session.ok THEN session
        ELSE IF session.value.inputs # ExpectedInputs(pre)
             THEN Fail("ONNX_INPUT_TENSOR_MISMATCH")
        ELSE IF session.value.outputs # ExpectedOutputs(post)
             THEN Fail("ONNX_OUTPUT_TENSOR_MISMATCH")
        ELSE Ok([pre |-> pre, post |-> post, session |-> session.value])

(***************************************************************************)
(* OnnxRunner::Run on a loaded runner.  The label map is read here, anew   *)
(* for every input.                                                        *)
(***************************************************************************)
RunLoaded(runner, labelFile, inputs) ==
    LET tensors == RunPreprocess(runner.pre, inputs)
        outputs == RunSession(runner.session, tensors.value)
    IN  IF ~tensors.ok THEN tensors
        ELSE IF ~outputs.ok THEN outputs
        ELSE RunPostprocess(runner.post, outputs.value, labelFile)
=============================================================================
