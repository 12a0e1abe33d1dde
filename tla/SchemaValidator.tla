---------------------------- MODULE SchemaValidator ----------------------------
(***************************************************************************)
(* The subset of JSON Schema that packages may use                         *)
(* (src/core/schema_validator.cpp): which documents are schemas, and which *)
(* values a schema accepts.  A schema is itself a JSON value, as in the    *)
(* code.  Every refusal of the validator has the same code, which the      *)
(* caller chooses, so its results are Booleans here.                       *)
(*                                                                         *)
(* The validator is recursive over data of any depth.  The rules here are  *)
(* for one node, given the parts of it of which the same was decided; what *)
(* is decided of whole documents are constant operators.                   *)
(***************************************************************************)
EXTENDS JsonValues, FiniteSets

CONSTANTS
    IsSchemaDocument(_),    \* whether a document is a schema
    InstanceAccepted(_, _), \* whether a schema accepts a value
    SameJson(_, _),         \* whether operator== finds two values equal
    Alike(_, _),            \* whether they are the same value
    AsDouble(_),            \* get<double>() of a number, in steps of less than a hundredth
    ExtraBytes              \* how many bytes more than characters some words have

ASSUME BytesAssumption == \A w \in DOMAIN ExtraBytes : ExtraBytes[w] \in Nat

(***************************************************************************)
(* The characters of a text, and std::string::size(): its bytes in UTF-8.  *)
(* Words are set apart by one space.                                       *)
(***************************************************************************)
TextSize(j, wide) ==
    LET upTo[i \in 0..Len(j.words)] ==
            IF i = 0 THEN 0
            ELSE upTo[i - 1] + Len(j.words[i]) + (IF i > 1 THEN 1 ELSE 0)
                 + (IF j.words[i] \in wide THEN ExtraBytes[j.words[i]] ELSE 0)
    IN  upTo[Len(j.words)]

Characters(j) == TextSize(j, {})
Size(j)       == TextSize(j, DOMAIN ExtraBytes)
-----------------------------------------------------------------------------
SupportedTypes ==
    {"object", "array", "string", "number", "integer", "boolean", "null"}

CountKeywords == {"minLength", "maxLength", "minItems", "maxItems"}
BoundKeywords == {"minimum", "maximum"}

(***************************************************************************)
(* ValidateSchemaNode: the documents that are schemas of the subset.  (The *)
(* counts are read as an int of 32 bits first, so that some beyond 2^31 are*)
(* refused as negative; the counts here are smaller.)                      *)
(***************************************************************************)
SchemaNode(s, schemas) ==
    /\ s.is = "object"
    /\ Has(s, "type") =>
        /\ At(s, "type").is = "string"
        /\ \E t \in SupportedTypes : At(s, "type") = Word(t)
    /\ Has(s, "enum") => At(s, "enum").is = "array" /\ At(s, "enum").items # <<>>
    /\ \A k \in CountKeywords :
        Has(s, k) => IsWhole(At(s, k)) /\ At(s, k).num >= 0
    /\ \A k \in BoundKeywords : Has(s, k) => At(s, k).is = "number"
    /\ Has(s, "properties") =>
        /\ At(s, "properties").is = "object"
        /\ \A n \in Names(At(s, "properties")) : At(At(s, "properties"), n) \in schemas
    /\ Has(s, "required") =>
        /\ At(s, "required").is = "array"
        /\ \A i \in DOMAIN At(s, "required").items :
            At(s, "required").items[i].is = "string"
    /\ Has(s, "additionalProperties") => At(s, "additionalProperties").is = "boolean"
    /\ Has(s, "items") => At(s, "items") \in schemas

(***************************************************************************)
(* ValidateTypeConstraint: a number written 1.0 is no integer.             *)
(***************************************************************************)
TypeMatches(v, t) ==
    IF t = "integer" THEN IsWhole(v) ELSE v.is = t

(***************************************************************************)
(* The members an object may and must have.  Unknown members are refused   *)
(* only when properties is there too.                                      *)
(***************************************************************************)
MembersAllowedUnchecked(s, v) ==
    Has(s, "properties") /\ Has(s, "additionalProperties")
        /\ ~At(s, "additionalProperties").truth =>
        Names(v) \subseteq Names(At(s, "properties"))

MembersAllowed(s, v) ==
    /\ Has(s, "required") =>
        \A i \in DOMAIN At(s, "required").items :
            Has(v, Only(At(s, "required").items[i]))
    /\ Has(s, "properties") /\ Has(s, "additionalProperties")
        /\ ~At(s, "additionalProperties").truth =>
        Names(v) \subseteq Names(At(s, "properties"))

(***************************************************************************)
(* The keywords about a value itself.  A keyword for another kind of value *)
(* is passed over.  Numbers are compared as doubles.                       *)
(***************************************************************************)
KeywordsMet(s, v) ==
    /\ Has(s, "enum") =>
        \E i \in DOMAIN At(s, "enum").items : SameJson(At(s, "enum").items[i], v)
    /\ Has(s, "type") => TypeMatches(v, Only(At(s, "type")))
    /\ v.is = "object" => MembersAllowed(s, v)
    /\ v.is = "array" =>
        /\ Has(s, "minItems") => 100 * Len(v.items) >= At(s, "minItems").num
        /\ Has(s, "maxItems") => 100 * Len(v.items) <= At(s, "maxItems").num
    /\ v.is = "string" =>
        /\ Has(s, "minLength") => 100 * Size(v) >= At(s, "minLength").num
        /\ Has(s, "maxLength") => 100 * Size(v) <= At(s, "maxLength").num
    /\ v.is = "number" =>
        /\ Has(s, "minimum") => AsDouble(v) >= AsDouble(At(s, "minimum"))
        /\ Has(s, "maximum") => AsDouble(v) <= AsDouble(At(s, "maximum"))

(***************************************************************************)
(* ValidateInstanceNode: those, and the values that properties and items   *)
(* speak of.                                                               *)
(***************************************************************************)
InstanceNode(s, v, accepted) ==
    /\ IsSchemaDocument(s)
    /\ KeywordsMet(s, v)
    /\ v.is = "object" /\ Has(s, "properties") =>
        \A n \in Names(At(s, "properties")) \cap Names(v) :
            <<At(At(s, "properties"), n), At(v, n)>> \in accepted
    /\ v.is = "array" /\ Has(s, "items") =>
        \A i \in DOMAIN v.items : <<At(s, "items"), v.items[i]>> \in accepted
-----------------------------------------------------------------------------
(***************************************************************************)
(* The reference: what the JSON Schema standard says of the same keywords. *)
(* A schema speaks of a value and, through properties and items, of parts  *)
(* of it; the value conforms when each part meets what is said of it.      *)
(* Numbers are those that the parser holds, compared exactly, and a text is*)
(* as long as it has characters.                                           *)
(***************************************************************************)
Declared(s) == IF Has(s, "properties") THEN Names(At(s, "properties")) ELSE {}

PartPairs(s, v) ==
    {<<At(At(s, "properties"), n), At(v, n)>> : n \in Declared(s) \cap Names(v)} \cup
    {<<At(s, "items"), v.items[i]>> :
        i \in IF Has(s, "items") /\ v.is = "array" THEN DOMAIN v.items ELSE {}}

Closed(s) == Has(s, "additionalProperties") /\ ~At(s, "additionalProperties").truth

Required(s) ==
    IF Has(s, "required")
    THEN {Only(At(s, "required").items[i]) : i \in DOMAIN At(s, "required").items}
    ELSE {}

Within(s, n, low, high) ==
    /\ Has(s, low)  => n >= At(s, low).num
    /\ Has(s, high) => n <= At(s, high).num

Meets(s, v) ==
    /\ Has(s, "type") =>
        \/ Only(At(s, "type")) = v.is
        \/ Only(At(s, "type")) = "integer" /\ v.is = "number" /\ v.num % 100 = 0
    /\ Has(s, "enum") =>
        \E i \in DOMAIN At(s, "enum").items : Alike(At(s, "enum").items[i], v)
    /\ CASE v.is = "object" -> /\ Required(s) \subseteq Names(v)
                               /\ Closed(s) => Names(v) \subseteq Declared(s)
         [] v.is = "array"  -> Within(s, 100 * Len(v.items), "minItems", "maxItems")
         [] v.is = "string" -> Within(s, 100 * Characters(v), "minLength", "maxLength")
         [] v.is = "number" -> Within(s, v.num, "minimum", "maximum")
         [] OTHER -> TRUE

(***************************************************************************)
(* Where the validator may depart from it: an object that is closed and    *)
(* declares no property at all; an integer held as a floating number, like *)
(* 1.0; the length of a text with characters of several bytes; a number    *)
(* that is not its bound, and one that is not the one of the enum, but the *)
(* same double (integers beyond 2^53).                                     *)
(***************************************************************************)
DepartsHere(s, v) ==
    \/ Closed(s) /\ ~Has(s, "properties") /\ v.is = "object"
    \/ /\ Has(s, "type") /\ Only(At(s, "type")) = "integer"
       /\ v.is = "number" /\ ~v.whole /\ v.num % 100 = 0
    \/ /\ v.is = "string" /\ Size(v) # Characters(v)
       /\ Has(s, "minLength") \/ Has(s, "maxLength")
    \/ /\ v.is = "number"
       /\ \E k \in BoundKeywords \cap Names(s) :
            v.num # At(s, k).num /\ AsDouble(v) = AsDouble(At(s, k))
    \/ /\ Has(s, "enum")
       /\ \E i \in DOMAIN At(s, "enum").items :
            SameJson(At(s, "enum").items[i], v) /\ ~Alike(At(s, "enum").items[i], v)
=============================================================================
