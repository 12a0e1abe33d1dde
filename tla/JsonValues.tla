------------------------------- MODULE JsonValues -------------------------------
(***************************************************************************)
(* The values that pass between the modules of an algorithm package: JSON  *)
(* documents, the results of operations that may fail, and files.          *)
(***************************************************************************)
EXTENDS Integers, SequencesExt

(***************************************************************************)
(* JSON values.  A number counts hundredths and remembers whether it was   *)
(* written as an integer; one that went through a float may be a little    *)
(* `off' them, by far less than 1e-6 and to the side of the sign.  A string*)
(* is a sequence of words; the members of an object are a function from    *)
(* their names.                                                            *)
(***************************************************************************)
Null          == [is |-> "null"]
Truth(b)      == [is |-> "boolean", truth |-> b]
Whole(n)      == [is |-> "number", num |-> 100 * n, off |-> 0, whole |-> TRUE]
Hundredths(n) == [is |-> "number", num |-> n, off |-> 0, whole |-> FALSE]
Text(words)   == [is |-> "string", words |-> words]
Word(w)       == Text(<<w>>)
Array(items)  == [is |-> "array", items |-> items]
Object(fields) == [is |-> "object", members |-> fields]

Names(j)  == IF j.is = "object" THEN DOMAIN j.members ELSE {}
Has(j, n) == n \in Names(j)
At(j, n)  == j.members[n]

IsNumber(j) == j.is = "number" /\ j.num \in Int
IsWhole(j)  == IsNumber(j) /\ j.whole
IsArray(j)  == j.is = "array" /\ Len(j.items) \in Nat /\ DOMAIN j.items = 1..Len(j.items)
Only(j)     == j.words[1]      \* the text of a string of one word

(***************************************************************************)
(* How many numbers a tensor of a shape has.                               *)
(***************************************************************************)
Product(shape) == FoldSeq(LAMBDA d, n : d * n, 1, shape)

(***************************************************************************)
(* What an operation returns.  The code signals failure in two ways, a     *)
(* Status and a C++ exception that nothing catches before main; a result   *)
(* Fail("thrown") is the second.                                           *)
(***************************************************************************)
Ok(v)      == [ok |-> TRUE, value |-> v]
Fail(code) == [ok |-> FALSE, code |-> code]

(***************************************************************************)
(* A file: absent, without the syntax its reader expects, or read.         *)
(***************************************************************************)
Missing      == [is |-> "missing"]
Broken       == [is |-> "broken"]
Holding(x)   == [is |-> "read", content |-> x]
Exists(f)    == f.is # "missing"
Readable(f)  == f.is = "read"
=============================================================================
