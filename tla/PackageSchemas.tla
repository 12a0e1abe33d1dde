----------------------------- MODULE PackageSchemas -----------------------------
(***************************************************************************)
(* PackageValidation with the schemas of SchemaValidator: what a caller may*)
(* send to an accepted algorithm.                                          *)
(***************************************************************************)
EXTENDS PackageValidation

CONSTANTS
    Spoken(_, _),  \* the parts of a schema and of a value that concern one another
    Documents,     \* the schemas of packages, callers' inputs, and all their parts
    Depth(_)       \* how deeply a document is nested

(***************************************************************************)
(* JSON documents are finite trees.                                        *)
(***************************************************************************)
ASSUME DocumentsAssumption ==
    /\ Inputs \subseteq Documents
    /\ \A f \in FilesAt("input_schema") : Readable(f) => f.content \in Documents
    /\ \A d \in Documents :
        /\ d.is \in {"null", "boolean", "number", "string", "array", "object"}
        /\ d.is = "number" => d.num \in Int /\ d.off = 0 /\ (d.whole => d.num % 100 = 0)
        /\ Depth(d) \in Nat
        /\ \A n \in Names(d) : At(d, n) \in Documents /\ Depth(At(d, n)) < Depth(d)
        /\ d.is = "array" => \A i \in DOMAIN d.items :
            d.items[i] \in Documents /\ Depth(d.items[i]) < Depth(d)

(***************************************************************************)
(* Doubles keep the order of numbers, not always their difference, and     *)
(* operator== finds what is the same equal.                                *)
(***************************************************************************)
ASSUME ComparisonAssumption ==
    \A c, d \in Documents :
        /\ c.is = "number" /\ d.is = "number" =>
            /\ AsDouble(c) \in Int
            /\ c.num <= d.num => AsDouble(c) <= AsDouble(d)
        /\ Alike(c, d) => SameJson(c, d)

(***************************************************************************)
(* The documents that are schemas, and what each of them accepts.          *)
(***************************************************************************)
Schemas  == {d \in Documents : IsSchemaDocument(d)}
Accepted == {p \in Documents \X Documents : InstanceAccepted(p[1], p[2])}

(***************************************************************************)
(* What is decided of a document follows the rules of its nodes.           *)
(***************************************************************************)
ASSUME SchemaAssumption ==
    \A s, v \in Documents :
        /\ IsSchemaDocument(s) <=> SchemaNode(s, Schemas)
        /\ InstanceAccepted(s, v) <=> InstanceNode(s, v, Accepted)
        /\ Spoken(s, v) = {<<s, v>>} \cup
                            UNION {Spoken(p[1], p[2]) : p \in PartPairs(s, v)}

Conforms(s, v) == \A pair \in Spoken(s, v) : Meets(pair[1], pair[2])
Departs(s, v)  == \E pair \in Spoken(s, v) : DepartsHere(pair[1], pair[2])

(***************************************************************************)
(* What the validator decides of a caller's input is what JSON Schema says *)
(* of it, for every nesting of the keywords it supports, except where one  *)
(* of the departures that SchemaValidator names (DepartsHere) is met.      *)
(***************************************************************************)
SchemaVerdictIsStandard ==
    at = "load_output_schema" =>
        LET schema == disk["input_schema"].content
        IN  IsSchemaFile(disk["input_schema"]) =>
                \A v \in Inputs :
                    \/ InstanceAccepted(schema, v) <=> Conforms(schema, v)
                    \/ Departs(schema, v)
=============================================================================
