------------------------------- MODULE JsonTrees --------------------------------
(***************************************************************************)
(* The walks over JSON trees: those of src/runtime/onnx_pipeline.cpp and   *)
(* onnx_session.cpp, which turn nested arrays into tensors and back, and   *)
(* those of src/core/schema_validator.cpp, whose rules for one node are in *)
(* SchemaValidator.  They are recursive over data of any depth: TLC        *)
(* evaluates them, and the proofs know them by their rules only.           *)
(***************************************************************************)
EXTENDS SchemaValidator

(***************************************************************************)
(* Tensors as JSON: the shape of an array, its leaves in order, and the    *)
(* array of a given shape that has them (BuildJsonFromFlatValues).         *)
(***************************************************************************)
RECURSIVE ShapeOf(_)
ShapeOf(j) ==
    IF j.is # "array" THEN <<>>
    ELSE <<Len(j.items)>> \o (IF j.items = <<>> THEN <<>> ELSE ShapeOf(j.items[1]))

RECURSIVE Rectangular(_)
Rectangular(j) ==
    IF j.is # "array" THEN j.is \in {"number", "boolean", "string"}
    ELSE \A i \in DOMAIN j.items :
            Rectangular(j.items[i]) /\ ShapeOf(j.items[i]) = ShapeOf(j.items[1])

RECURSIVE Leaves(_)
Leaves(j) ==
    IF j.is # "array" THEN <<j>>
    ELSE FlattenSeq([i \in DOMAIN j.items |-> Leaves(j.items[i])])

RowWithoutStride(flat, n, i) == SubSeq(flat, i, i + n - 1)
RowOf(flat, n, i) == SubSeq(flat, (i - 1) * n + 1, i * n)

RECURSIVE Nested(_, _)
Nested(flat, shape) ==
    IF Len(shape) = 1 THEN Array(flat)
    ELSE LET n == Product(Tail(shape))
         IN  Array([i \in 1..shape[1] |->
                Nested(RowOf(flat, n, i), Tail(shape))])
-----------------------------------------------------------------------------
(***************************************************************************)
(* Three ways to compare JSON values, which differ in the numbers: as they *)
(* are; with operator==, integers with each other as they are and all else *)
(* as doubles, so 1 = 1.0; and as CompareJson does in golden cases, within *)
(* 1e-6, more than a float is off and less than a hundredth.               *)
(***************************************************************************)
Tolerance == 2

SameNumber(a, b, way) ==
    CASE way = "exact" -> a.num = b.num /\ a.off = b.off
      [] way = "operator==" -> IF a.whole /\ b.whole THEN a.num = b.num
                               ELSE AsDouble(a) = AsDouble(b)
      [] way = "CompareJson" -> AsDouble(a) - AsDouble(b) \in -Tolerance..Tolerance

RECURSIVE Agree(_, _, _)
Agree(a, b, way) ==
    /\ a.is = b.is
    /\ CASE a.is = "number" -> SameNumber(a, b, way)
         [] a.is = "array" ->
                /\ Len(a.items) = Len(b.items)
                /\ \A i \in DOMAIN a.items : Agree(a.items[i], b.items[i], way)
         [] a.is = "object" ->
                /\ Names(a) = Names(b)
                /\ \A n \in Names(a) : Agree(At(a, n), At(b, n), way)
         [] OTHER -> a = b

Exact(a, b)    == Agree(a, b, "exact")
Same(a, b)     == Agree(a, b, "operator==")
Compared(a, b) == Agree(a, b, "CompareJson")

(***************************************************************************)
(* ValidateSchemaNode and ValidateInstanceNode, and the reference.         *)
(***************************************************************************)
SubSchemas(s) ==
    {At(At(s, "properties"), n) : n \in Declared(s)} \cup
    {At(s, n) : n \in {"items"} \cap Names(s)}

RECURSIVE IsSchema(_)
IsSchema(s) == SchemaNode(s, {c \in SubSchemas(s) : IsSchema(c)})

RECURSIVE Accepts(_, _)
Accepts(s, v) == InstanceNode(s, v, {p \in PartPairs(s, v) : Accepts(p[1], p[2])})

RECURSIVE SpokenOf(_, _)
SpokenOf(s, v) == {<<s, v>>} \cup UNION {SpokenOf(p[1], p[2]) : p \in PartPairs(s, v)}

(***************************************************************************)
(* A document with all its parts, and how deep it is.                      *)
(***************************************************************************)
PartsOf(j) ==
    {At(j, n) : n \in Names(j)} \cup
    {j.items[i] : i \in IF j.is = "array" THEN DOMAIN j.items ELSE {}}

RECURSIVE AllParts(_)
AllParts(j) == {j} \cup UNION {AllParts(p) : p \in PartsOf(j)}

RECURSIVE DepthOf(_)
DepthOf(j) ==
    IF PartsOf(j) = {} THEN 0 ELSE 1 + Max({DepthOf(p) : p \in PartsOf(j)})
=============================================================================
