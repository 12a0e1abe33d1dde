---------------------------- MODULE MCOnnxPackages ----------------------------
(***************************************************************************)
(* OnnxPackages on eight packages and on every package that differs        *)
(* from one of them in one file: a text classifier like the example in the *)
(* repository, one that returns several predictions, the identity model of *)
(* the tests, a model that is fed the input as it is, and a service.       *)
(***************************************************************************)
EXTENDS OnnxPackages, PackageSchemas, JsonTrees

MCCaseInputs   == <<"case_1_input", "case_2_input">>
MCCaseExpected == <<"case_1_expected", "case_2_expected">>

TestKeyTexts == <<" 1", "0", "1", "2", "3", "one">>
TestStoi == [k \in {" 1", "0", "1", "2", "3"} |->
                CASE k = "0" -> 0 [] k \in {" 1", "1"} -> 1 [] k = "2" -> 2 [] k = "3" -> 3]

(***************************************************************************)
(* The limits of the number types, scaled down: every whole number up to   *)
(* 16 is a float and up to 50 a double (2^24 and 2^53 in the code), beyond *)
(* them the even ones, and int64 goes round from 60 (2^63) to -60.  The    *)
(* quarters are floats, other fractions lie a little off one.              *)
(***************************************************************************)
FloatLimit  == 1600
DoubleLimit == 5000
Int64Limit  == 6000

ToEven(n) == 200 * ((n + 100) \div 200)

MCAsDouble(j) ==
    10 * (IF j.whole /\ j.num > DoubleLimit THEN ToEven(j.num) ELSE j.num) + j.off

MCHeld(dtype, j) ==
    CASE dtype = "int64" -> IF j.num < Int64Limit THEN j
                            ELSE Whole((j.num - 2 * Int64Limit) \div 100)
      [] dtype = "float32" -> IF j.num > FloatLimit THEN Hundredths(ToEven(j.num))
                              ELSE [Hundredths(j.num) EXCEPT
                                    !.off = IF j.num % 25 = 0 THEN 0 ELSE 1]

(***************************************************************************)
(* The word for a text of six characters, two of them of two bytes.        *)
(***************************************************************************)
TestExtraBytes == [w \in {"resume"} |-> 2]

Schema(fields) == Holding(Object(fields))
Typed(t) == Object([type |-> Word(t)])

AnyValue == Schema([title |-> Word("any")])

TextSchema == Schema([
    type |-> Word("object"), required |-> Array(<<Word("text")>>),
    additionalProperties |-> Truth(FALSE),
    properties |-> Object([text |-> Object([type |-> Word("string"),
                                            minLength |-> Whole(2),
                                            maxLength |-> Whole(9)])])])

InputSchemas == {
    AnyValue, TextSchema,
    Schema([type |-> Word("object"), additionalProperties |-> Truth(FALSE)]),
    Schema([required |-> Array(<<Word("text")>>)]),
    Schema([type |-> Word("array"), minItems |-> Whole(1), maxItems |-> Whole(2),
            items |-> Object([type |-> Word("array"), maxItems |-> Whole(2),
                              items |-> Object([type |-> Word("integer"),
                                                maximum |-> Whole(3)])])]),
    Schema([properties |-> Object([n |-> Object([type |-> Word("integer"),
                                                 minimum |-> Whole(1)]),
                                   tensor |-> Object([items |-> Typed("number")])])]),
    Schema([enum |-> Array(<<Whole(1), Null, Array(<<Truth(TRUE)>>), Word("note"),
                             Hundredths(5200)>>)]),
    Schema([minimum |-> Whole(52)]),
    Schema([type |-> Word("number"), minimum |-> Hundredths(150)]) }

NoSchemas == {
    Missing, Broken, Holding(Array(<<>>)), Schema([title |-> Whole(5)]),
    Schema([type |-> Word("text")]), Schema([type |-> Array(<<Word("string")>>)]),
    Schema([enum |-> Array(<<>>)]), Schema([minLength |-> Whole(-1)]),
    Schema([maxItems |-> Hundredths(100)]), Schema([minimum |-> Word("low")]),
    Schema([required |-> Word("text")]), Schema([additionalProperties |-> Typed("null")]),
    Schema([properties |-> Object([n |-> Whole(5)])]),
    Schema([items |-> Array(<<Typed("null")>>)]),
    Schema([properties |-> Object([n |-> Object([description |-> Null])])]) }

OnnxCard == [backend |-> "onnx", runtime |-> "onnx", defect |-> "none", model |-> TRUE,
             preprocess |-> "given", postprocess |-> "given", labels |-> TRUE,
             tokenizer |-> TRUE, provider |-> "cpu", endpoints |-> FALSE, timeout |-> FALSE]

Cards == {Missing, Broken} \cup {Holding(c) : c \in {
    OnnxCard,
    [OnnxCard EXCEPT !.runtime = "python_http_service"],
    [OnnxCard EXCEPT !.defect = "thrown"],
    [OnnxCard EXCEPT !.postprocess = "absent"],
    [OnnxCard EXCEPT !.labels = FALSE, !.tokenizer = FALSE],
    [OnnxCard EXCEPT !.provider = "cuda"],
    [OnnxCard EXCEPT !.backend = "python_http_service", !.runtime = "python_http_service"] }}

Model(inputs, output, takes) ==
    Holding([inputs |-> inputs, outputs |-> <<output>>, takes |-> takes])

Tokenization == Holding(Object([type |-> Word("text_tokenization"), lowercase |-> Truth(TRUE)]))
FromJson     == Holding(Object([type |-> Word("tensor_from_json")]))
AsItIs       == Holding(Object([type |-> Word("no_op")]))
Classify(k)  == Holding(Object([type |-> Word("classification_postprocess"),
                                top_k |-> k]))
ClassifyInput == Holding(Object([type |-> Word("classification_postprocess"),
                                 tensor_name |-> Word("output"), top_k |-> Whole(2)]))

LabelMap(keys) ==
    Holding(Object([k \in keys |->
        CASE k = "0" -> Word("task") [] k = "1" -> Word("report") [] k = " 1" -> Word("report")
          [] k = "2" -> Word("other") [] k = "3" -> Word("rest") [] k = "one" -> Word("report")]))

Sent(words) == Object([text |-> Text(words)])
Tensor(v)   == Object([tensor |-> v])
Row(s)      == Array([i \in DOMAIN s |-> Whole(s[i])])
Matrix      == Array(<<Row(<<1, 2>>), Row(<<3, 4>>), Row(<<5, 6>>)>>)
Cube        == Array(<<Array(<<Row(<<1, 2>>), Row(<<3, 4>>)>>),
                       Array(<<Row(<<5, 6>>), Row(<<7, 8>>)>>)>>)
Shares      == Array(<<Hundredths(20), Hundredths(50), Hundredths(30)>>)
Large       == Array(<<Hundredths(10), Whole(17)>>)

TestInputs == {
    Sent(<<"Task", "note">>), Sent(<<"note">>), Sent(<<>>), Sent(<<"a", "report">>),
    Sent(<<"my", "resume">>), Whole(51), Tensor(Large), Tensor(Row(<<1, 61>>)),
    Object([text |-> Whole(1)]), Object([text |-> Word("note"), n |-> Whole(0)]),
    Object([n |-> Hundredths(100)]),
    Tensor(Array(<<Whole(1), Hundredths(250)>>)), Tensor(Matrix), Tensor(Cube),
    Tensor(Array(<<Row(<<1>>), Row(<<2, 3>>)>>)), Tensor(Array(<<Word("note")>>)),
    Tensor(Array(<<>>)), Tensor(Truth(TRUE)), Tensor(Shares), Tensor(Word("note")),
    Array(<<Truth(TRUE)>>), Array(<<Row(<<1, 3>>)>>), Array(<<Row(<<4>>)>>),
    Row(<<1, 3, 2>>), Hundredths(100), Whole(3), Word("note"), Null }

Label(l, p)  == Object([label |-> Word(l), confidence |-> Hundredths(p)])
Labels2(l, p, m, q) == Object([predictions |-> Array(<<Label(l, p), Label(m, q)>>)])

Base(c, model, schema, pre, post, in1, ex1, in2, ex2) ==
    [f \in FileNames |->
        CASE f = "card" -> Holding(c) [] f = "model" -> model
          [] f = "input_schema" -> schema [] f = "output_schema" -> AnyValue
          [] f = "preprocess" -> pre [] f = "postprocess" -> post
          [] f = "labels" -> LabelMap({"0", "1", "2"}) [] f = "tokenizer" -> Broken
          [] f = "case_1_input" -> Holding(in1) [] f = "case_1_expected" -> Holding(ex1)
          [] f = "case_2_input" -> in2 [] f = "case_2_expected" -> ex2]

VectorModel == Model(<<"input">>, "output", "float32")
Vector      == Tensor(Array(<<Hundredths(100), Hundredths(200)>>))

Bases == {
    Base(OnnxCard, Broken, TextSchema, Tokenization, Classify(Whole(1)),
         Sent(<<"Task", "note">>), Label("task", 96),
         Holding(Sent(<<"a", "report">>)), Holding(Label("report", 93))),
    Base(OnnxCard, Broken, AnyValue, FromJson, Classify(Whole(2)),
         Tensor(Row(<<1>>)), Labels2("other", 50, "report", 30),
         Holding(Tensor(Row(<<0>>))), Holding(Labels2("other", 80, "report", 12))),
    Base(OnnxCard, Broken, AnyValue, Tokenization, Classify(Whole(1)),
         Sent(<<"note">>), Label("other", 50), Missing, Missing),
    Base(OnnxCard, VectorModel, AnyValue, FromJson, AsItIs,
         Vector, At(Vector, "tensor"), Holding(Tensor(Shares)), Holding(Shares)),
    Base(OnnxCard, Model(<<"input">>, "output", "int64"), AnyValue, FromJson, AsItIs,
         Tensor(Matrix), Matrix, Holding(Tensor(Row(<<1, 2>>))), Holding(Row(<<1, 2>>))),
    Base(OnnxCard, VectorModel, AnyValue, FromJson, ClassifyInput,
         Tensor(Shares), Labels2("report", 50, "other", 30), Missing, Missing),
    Base(OnnxCard, Model(<<"input">>, "output", "string"), AnyValue, AsItIs, AsItIs,
         Word("note"), Word("note"), Missing, Missing),
    Base([OnnxCard EXCEPT !.backend = "python_http_service",
                          !.runtime = "python_http_service", !.endpoints = TRUE,
                          !.timeout = TRUE],
         Missing, TextSchema, Missing, Missing, Null, Null, Missing, Missing) }

Deviations == [f \in FileNames |->
    CASE f = "card" -> Cards
      [] f = "model" -> {Missing, Broken, VectorModel,
                         Model(<<"input_ids", "attention_mask">>, "logits", "int64"),
                         Model(<<"input">>, "scores", "float32")}
      [] f = "input_schema" -> InputSchemas \cup NoSchemas
      [] f = "output_schema" -> {Missing, Holding(Typed("array")), Holding(Typed("object")),
                                 Schema([enum |-> Array(<<At(Vector, "tensor"), Shares>>)]),
                                 Schema([title |-> Null])}
      [] f = "preprocess" -> {Missing, Holding(Null), Tokenization, FromJson, AsItIs,
                              Holding(Object([lowercase |-> Word("maybe")])),
                              Holding(Object([type |-> Word("image")]))}
      [] f = "postprocess" -> {Missing, Holding(Null), AsItIs, ClassifyInput,
                               Classify(Whole(0)), Classify(Whole(1)), Classify(Whole(5)),
                               Classify(Word("two")), Holding(Object([type |-> Word("x")]))}
      [] f = "labels" -> {Missing, Holding(Null), LabelMap({"0", " 1", "2"}),
                          LabelMap({"0", "2", "3"}), LabelMap({"0"}),
                          LabelMap({"0", "one", "2"}),
                          Holding(Object([k \in {"0"} |-> Whole(1)]))}
      [] f = "tokenizer" -> {Missing}
      [] f \in {"case_1_input", "case_2_input"} ->
            {Missing, Broken, Holding(Sent(<<"note">>)), Holding(Tensor(Array(<<Word("note")>>))),
             Holding(Tensor(Cube))}
      [] f \in {"case_1_expected", "case_2_expected"} ->
            {Missing, Broken, Holding(Label("other", 50)), Holding(Label("task", 96)),
             Holding(Cube)}]

TestPackages ==
    Bases \cup UNION {{[b EXCEPT ![f] = g] : g \in Deviations[f]} : b \in Bases, f \in FileNames}

TestReplacements == [f \in FileNames |->
    CASE f = "card" -> {Missing}
      [] f = "model" -> {Missing, VectorModel}
      [] f = "input_schema" -> {Holding(Typed("array")), Schema([title |-> Whole(5)])}
      [] f = "output_schema" -> {Broken, Holding(Typed("array"))}
      [] f = "preprocess" -> {FromJson, Holding(Object([lowercase |-> Word("maybe")]))}
      [] f = "postprocess" -> {AsItIs, Classify(Whole(5))}
      [] f = "labels" -> {Missing, LabelMap({"0", "one", "2"})}
      [] f = "tokenizer" -> {Missing}
      [] f \in {"case_1_input", "case_2_input"} -> {Missing, Holding(Tensor(Cube))}
      [] f \in {"case_1_expected", "case_2_expected"} -> {Holding(Label("other", 50))}]

TestDocuments ==
    UNION {AllParts(d) : d \in Inputs \cup
               {f.content : f \in {g \in FilesAt("input_schema") : Readable(g)}}}
=============================================================================
