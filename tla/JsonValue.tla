------------------------------ MODULE JsonValue ------------------------------
(***************************************************************************)
(* JSON values as jsoncpp 1.9 reads them: an integer literal is kept as a  *)
(* signed 64-bit number if it fits, else as an unsigned one; a literal     *)
(* with a point or an exponent, or too large for both, is a double.        *)
(*                                                                         *)
(* Which numbers are doubles is a parameter: small whole and half numbers, *)
(* and of the large ones a few, so that an integer may lie between two.    *)
(* Of a string, its size in bytes, whether it is ASCII or at least UTF-8,  *)
(* and the form it has matter, and both of what a C function takes of it:  *)
(* the bytes up to the first NUL.                                          *)
(*                                                                         *)
(* A document is a tree, held as a function from paths to nodes: the path  *)
(* of a node is what the errors of the codec call it by, message.a[0].b.   *)
(***************************************************************************)
EXTENDS Integers, Sequences, FiniteSets

CONSTANTS LargestBits,    \* the width of int64_t and uint64_t
          Doubles,        \* the finite numbers of type double
          FieldNames,     \* names of fields of messages, known or not
          MaxItems,       \* no array is longer
          MaxDepth        \* no document is nested deeper: jsoncpp's stack limit

ASSUME SizesAssumption == MaxItems \in Nat /\ MaxDepth \in Nat

Null           == [t |-> "null"]
Boolean(b)     == [t |-> "bool", b |-> b]
Integer(n)     == [t |-> "integer", v |-> n]
Real(n, half)  == [t |-> "real", v |-> n, half |-> half]
Array(n)       == [t |-> "array", size |-> n]
Object         == [t |-> "object"]

\* A word of a form, the same with more after a NUL, and other texts.
String(n, ascii, utf8, form, c) ==
    [t |-> "string", bytes |-> n, ascii |-> ascii, utf8 |-> utf8,
     form |-> form, c |-> c]
Before(n, form)    == [bytes |-> n, form |-> form]
Word(n, form)      == String(n, TRUE, TRUE, form, Before(n, form))
CutWord(n, k, form) == String(n, TRUE, TRUE, "other", Before(k, form))
Text(n, ascii)     == String(n, ascii, TRUE, "other", Before(n, "other"))
Malformed(n)       == String(n, FALSE, FALSE, "other", Before(n, "other"))

Signed(bits)   == -(2 ^ (bits - 1)) .. 2 ^ (bits - 1) - 1
Unsigned(bits) == 0 .. 2 ^ bits - 1

\* double(maxInt64) and maxUInt64AsDouble: rounded up to a power of two.
MaxInt64AsDouble  == 2 ^ (LargestBits - 1)
MaxUInt64AsDouble == 2 ^ LargestBits

Int64 == -MaxInt64AsDouble .. MaxInt64AsDouble - 1

\* What is no finite number: one infinity, of either sign, beyond all of them.
NotANumber == [t |-> "nan"]
Infinity   == Real(4 * MaxInt64AsDouble, FALSE)
NonFinite  == {NotANumber, Infinity}

\* Twice a number, an integer, to order numbers by.
Halves(j) == 2 * j.v + (IF j.t = "real" /\ j.half THEN 1 ELSE 0)

\* The real numbers up to limit and down to -limit.
Reals(limit) == {x \in [t : {"real"}, v : Int, half : BOOLEAN] :
                    Halves(x) \in -(2 * limit) .. 2 * limit}

ASSUME DoublesAssumption ==
    /\ Doubles \subseteq Reals(Infinity.v - 1)
    /\ {Real(n, FALSE) : n \in {0, -MaxInt64AsDouble, MaxInt64AsDouble,
                                MaxUInt64AsDouble}} \subseteq Doubles

\* Json::Value::isNumeric, isIntegral, isInt64.
isNumeric(j)  == j.t \in {"integer", "real"}
isIntegral(j) == \/ j.t = "integer"
                 \/ /\ j.t = "real" /\ ~j.half
                    /\ -MaxInt64AsDouble <= j.v /\ j.v < MaxUInt64AsDouble
isInt64(j)    == isIntegral(j) /\ j.v \in Int64

\* Json::Value::asInt64 of an integral value: an integer beyond Int64 throws an
\* exception of jsoncpp; a double does so only above double(maxInt64), and that
\* one, which is maxInt64 + 1, is converted without a defined result.
asInt64Throws(j) == IF j.t = "integer" THEN j.v \notin Int64
                                       ELSE j.v > MaxInt64AsDouble
asInt64(j, undefined) == IF j.v \in Int64 THEN j.v ELSE undefined

\* The number of a set of them that a conversion rounds x to; of two that are as
\* near it is either.
Distance(x, y) == IF Halves(x) >= Halves(y) THEN Halves(x) - Halves(y)
                                            ELSE Halves(y) - Halves(x)
IsNearest(numbers, x, y) ==
    y \in numbers /\ \A z \in numbers : Distance(x, y) <= Distance(x, z)
Nearest(numbers, x) == CHOOSE y \in numbers : IsNearest(numbers, x, y)

\* Json::Value::asDouble of a number.
asDouble(j) == IF j.t = "integer" THEN Nearest(Doubles, j) ELSE j

\* What the conversion gives on the two processors the package is built for.
UndefinedConversions == {-MaxInt64AsDouble, MaxInt64AsDouble - 1}

\* What jsoncpp makes of a literal, and an array or object without its content.
Forms == {"graph name", "message type", "service type", "identifier", "reliable",
          "best-effort", "volatile", "transient-local", "other"}
Strings ==
    {s \in [t : {"string"}, bytes : Nat, ascii : BOOLEAN, utf8 : BOOLEAN,
            form : Forms, c : [bytes : Nat, form : Forms]] :
       /\ s.form # "other" => s.bytes > 0
       /\ s.c.form # "other" => s.c.bytes > 0
       /\ IF s.c.bytes = s.bytes THEN s.c.form = s.form
          ELSE s.c.bytes < s.bytes /\ s.form = "other"
       /\ s.ascii => s.utf8}
Nodes == {Null, Object, Infinity} \cup Doubles \cup [t : {"bool"}, b : BOOLEAN]
           \cup [t : {"integer"}, v : -MaxInt64AsDouble .. MaxUInt64AsDouble - 1]
           \cup [t : {"array"}, size : Nat] \cup Strings

------------------------------------------------------------------------------
(***************************************************************************)
(* Paths: the steps from the root, each to a field or to an item.          *)
(***************************************************************************)
Field(n) == [name |-> n, index |-> 0]
Item(i)  == [name |-> "item", index |-> i]
Steps == {Field(n) : n \in FieldNames} \cup {Item(i) : i \in 1 .. MaxItems}
Paths == UNION {[1 .. n -> Steps] : n \in 0 .. MaxDepth}
Root  == <<>>

\* The first k steps of p; Above is the node that the k-th step of p leaves.
Prefix(p, k) == [i \in 1 .. k |-> p[i]]
Above(p, k)  == Prefix(p, k - 1)

\* An object is above its fields, an array above all its items.
IsDocument(doc) ==
    /\ DOMAIN doc \subseteq Paths
    /\ Root \in DOMAIN doc /\ doc[Root] = Object
    /\ \A p \in DOMAIN doc :
         /\ doc[p] \in Nodes
         /\ \A k \in DOMAIN p :
              /\ Above(p, k) \in DOMAIN doc
              /\ \/ doc[Above(p, k)].t = "object" /\ p[k].index = 0
                 \/ /\ doc[Above(p, k)].t = "array"
                    /\ p[k].index \in 1 .. doc[Above(p, k)].size
         /\ doc[p].t = "array" =>
              \A i \in 1 .. doc[p].size : Append(p, Item(i)) \in DOMAIN doc

Mentions(doc, numbers) == \E p \in DOMAIN doc : doc[p] \in numbers

------------------------------------------------------------------------------
\* The mathematical integers in lo..hi, said without jsoncpp: 5 and 5.0 alike.
IsIntegerIn(j, numbers) == /\ isNumeric(j)
                           /\ j.t = "real" => ~j.half
                           /\ j.v \in numbers
==============================================================================
