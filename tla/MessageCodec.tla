----------------------------- MODULE MessageCodec -----------------------------
(***************************************************************************)
(* JsonCodec: a ROS message from its JSON (messageFromJson) and the JSON   *)
(* of a ROS message (messageToJson), along the introspected members.  The  *)
(* widths of the integer types are a parameter; that the largest is the    *)
(* width of jsoncpp's integers is what matters.                            *)
(*                                                                         *)
(* A type T and a message are trees like a document.  The code recurs over *)
(* the type; here what it does at one path is a definition, and the errors *)
(* and the cells of the message are gathered from the paths.               *)
(***************************************************************************)
EXTENDS JsonValue

\* The items of an array share one type, kept at its first.
Shape(p) == [i \in DOMAIN p |-> IF p[i].index = 0 THEN p[i] ELSE Item(1)]

\* A number type: the numbers it holds, the largest, and whether it is the long
\* one, which holds every double.
IsFloating(m) ==
    /\ m.long \in BOOLEAN
    /\ m.limit \in MaxUInt64AsDouble .. Infinity.v - 1
    /\ m.values # {} /\ m.values \subseteq Reals(m.limit)
    /\ IF m.long THEN Doubles \subseteq m.values ELSE m.values \subseteq Doubles

IsMember(m) ==
    CASE m.type \in {"bool", "other", "message"} -> TRUE
      [] m.type = "signed"   -> Signed(m.bits) \subseteq Int64 /\ 0 \in Signed(m.bits)
      [] m.type = "unsigned" -> /\ 0 \in Unsigned(m.bits)
                                /\ Unsigned(m.bits) \subseteq 0 .. MaxUInt64AsDouble - 1
      [] m.type = "floating" -> IsFloating(m)
      [] m.type \in {"string", "wstring"} -> m.bound \in Nat
      [] m.type = "array"    -> \/ m.array = "fixed" /\ m.size \in 0 .. MaxItems
                                \/ m.array \in {"bounded", "sequence"} /\ m.size \in Nat
      [] OTHER -> FALSE

\* The cells of a C++ message: of an array its size, of a message nothing.
Members == [t |-> "members"]
Items(n) == [t |-> "items", size |-> n]

WellTypedCell(m, x) ==
    CASE m.type = "bool" -> x \in BOOLEAN
      [] m.type = "signed" -> x \in Signed(m.bits)
      [] m.type = "unsigned" -> x \in Unsigned(m.bits)
      [] m.type = "floating" -> x \in NonFinite \cup m.values
      [] m.type \in {"string", "wstring"} ->
           x \in Strings /\ (m.bound # 0 => x.bytes <= m.bound)
      [] m.type = "array" ->
           /\ x \in [t : {"items"}, size : Nat]
           /\ m.array = "fixed" => x.size = m.size
           /\ m.array = "bounded" => x.size <= m.size
      [] m.type = "message" -> x = Members
      [] OTHER -> TRUE

\* The default values an interface file gives: of a field its cell, of an array
\* the number of items it starts with, of an item one cell for each of those.
HasDefault(T, p) ==
    /\ T[p].type = "array" => /\ T[p].initial \in 0 .. MaxItems
                              /\ WellTypedCell(T[p], Items(T[p].initial))
    /\ T[p].type \notin {"array", "message"} =>
         IF p[Len(p)].index = 0 THEN WellTypedCell(T[p], T[p].initial)
         ELSE \A i \in 1 .. T[Above(p, Len(p))].initial :
                WellTypedCell(T[p], T[p].initial[i])

\* The introspected members: a member that is an array is above its item, which
\* is none.
IsType(T) ==
    /\ DOMAIN T \subseteq Paths
    /\ Root \in DOMAIN T /\ T[Root].type = "message"
    /\ \A p \in DOMAIN T :
         /\ IsMember(T[p])
         /\ T[p].type = "array" =>
              /\ Append(p, Item(1)) \in DOMAIN T
              /\ T[Append(p, Item(1))].type # "array"
         /\ HasDefault(T, p)
         /\ \A k \in DOMAIN p :
              /\ Above(p, k) \in DOMAIN T
              /\ \/ T[Above(p, k)].type = "message" /\ p[k].index = 0
                 \/ T[Above(p, k)].type = "array" /\ p[k] = Item(1)

------------------------------------------------------------------------------
(***************************************************************************)
(* JSON to message.  The code throws the first error it meets; here all of *)
(* them are collected, and any may be the one thrown.                      *)
(***************************************************************************)
Unless(condition, error) == IF condition THEN {} ELSE {error}

\* Mutant of assignSigned: the upper bound is that of the unsigned type.
assignSignedWide(m, j, undefined) ==
    IF ~isIntegral(j) THEN {"invalid_message_field"}
    ELSE IF asInt64Throws(j) THEN {"std::exception"}
    ELSE Unless(/\ asInt64(j, undefined) >= -(2 ^ (m.bits - 1))
                /\ asInt64(j, undefined) \notin 2 ^ m.bits .. MaxUInt64AsDouble,
                "message_field_out_of_range")

assignSigned(m, j, undefined) ==
    IF ~isIntegral(j) THEN {"invalid_message_field"}
    ELSE IF asInt64Throws(j) THEN {"std::exception"}
    ELSE Unless(asInt64(j, undefined) \in Signed(m.bits),
                "message_field_out_of_range")

\* Mutant of assignUnsigned: a value out of range is taken for a failed call.
assignUnsignedUntyped(m, j) ==
    IF ~isIntegral(j) \/ (isInt64(j) /\ j.v < 0) THEN {"invalid_message_field"}
    ELSE Unless(j.v \in Unsigned(m.bits), "std::exception")

assignUnsigned(m, j) ==
    IF ~isIntegral(j) \/ (isInt64(j) /\ j.v < 0) THEN {"invalid_message_field"}
    ELSE Unless(j.v \in Unsigned(m.bits), "message_field_out_of_range")

assignFloating(m, j) ==
    IF ~isNumeric(j) THEN {"invalid_message_field"}
    ELSE Unless(Halves(asDouble(j)) \in -(2 * m.limit) .. 2 * m.limit,
                "message_field_out_of_range")

\* Mutant of assignString: the bound itself is taken for too long.
assignStringShort(m, j) ==
    IF j.t # "string" THEN {"invalid_message_field"}
    ELSE Unless(m.type = "string" \/ j.ascii, "unsupported_message_field")
           \cup Unless(m.bound = 0 \/ j.bytes < m.bound,
                       "message_field_out_of_range")

\* STRING and WSTRING; a wide string holds ASCII only.
assignString(m, j) ==
    IF j.t # "string" THEN {"invalid_message_field"}
    ELSE Unless(m.type = "string" \/ j.ascii, "unsupported_message_field")
           \cup Unless(m.bound = 0 \/ j.bytes <= m.bound,
                       "message_field_out_of_range")

assignArray(m, j) ==
    Unless(/\ j.t = "array"
           /\ m.array = "fixed" => j.size = m.size
           /\ m.array = "bounded" => j.size <= m.size, "invalid_message_field")

\* requireObject and rejectUnknownFields, of the object at p.
assignMessage(T, doc, p) ==
    IF doc[p].t # "object" THEN {"invalid_message"}
    ELSE Unless(\A q \in DOMAIN doc : \A k \in DOMAIN q :
                   Above(q, k) = p => Shape(Prefix(q, k)) \in DOMAIN T,
                "unknown_message_field")

\* assignMember of an array and assignScalar of what is no message.
assignScalar(m, j, undefined) ==
    CASE m.type = "bool"     -> Unless(j.t = "bool", "invalid_message_field")
      [] m.type = "signed"   -> assignSigned(m, j, undefined)
      [] m.type = "unsigned" -> assignUnsigned(m, j)
      [] m.type = "floating" -> assignFloating(m, j)
      [] m.type \in {"string", "wstring"} -> assignString(m, j)
      [] m.type = "array"    -> assignArray(m, j)
      [] OTHER -> {"unsupported_message_field"}

\* What is thrown at p itself.
assignMember(T, doc, p, undefined) ==
    IF T[Shape(p)].type = "message" THEN assignMessage(T, doc, p)
    ELSE assignScalar(T[Shape(p)], doc[p], undefined)

\* Further down it goes where there is no error.
Reached(T, doc, undefined) ==
    {p \in DOMAIN doc : \A k \in DOMAIN p :
        assignMember(T, doc, Above(p, k), undefined) = {}}

assignErrors(T, doc, undefined) ==
    UNION {assignMember(T, doc, p, undefined) : p \in Reached(T, doc, undefined)}

\* The cell MessageInitialization::ALL leaves at p: the default of the field or of
\* the item. A document that has an array has all its items.
InitialCell(T, p) ==
    LET m == T[Shape(p)] IN
    CASE m.type = "message" -> Members
      [] m.type = "array" -> Items(m.initial)
      [] OTHER -> IF p[Len(p)].index = 0 THEN m.initial
                                         ELSE m.initial[p[Len(p)].index]

\* What is assigned where there is no error; a number is converted to double and
\* then to the type of its field, and rounded each time.
AssignedCell(m, j, undefined) ==
    CASE m.type = "bool" -> j.b
      [] m.type = "signed" -> asInt64(j, undefined)
      [] m.type = "unsigned" -> j.v
      [] m.type = "floating" -> Nearest(m.values, asDouble(j))
      [] m.type = "array" -> Items(j.size)
      [] m.type = "message" -> Members
      [] OTHER -> j

CellAt(T, doc, p, undefined) ==
    IF p \in DOMAIN doc THEN AssignedCell(T[Shape(p)], doc[p], undefined)
                        ELSE InitialCell(T, p)

\* Every field is there, and of an array as many items as it was resized to.
messageFromJson(T, doc, undefined) ==
    [p \in {p \in Paths :
              /\ Shape(p) \in DOMAIN T
              /\ \A k \in DOMAIN p : p[k].index # 0 =>
                   p[k].index <= CellAt(T, doc, Above(p, k), undefined).size} |->
        CellAt(T, doc, p, undefined)]

------------------------------------------------------------------------------
(***************************************************************************)
(* Message to JSON.                                                        *)
(***************************************************************************)
\* Finite, and of an amount no larger than the largest double.
WithinDoubles(x) ==
    x \notin NonFinite /\ \E d \in Doubles : Halves(x) \in -Halves(d) .. Halves(d)

\* Mutant of scalarErrors: a long double is not checked either.
scalarErrorsUnchecked(m, x) ==
    CASE m.type = "wstring" -> Unless(x.ascii, "unsupported_message_field")
      [] m.type = "other"   -> {"unsupported_message_field"}
      [] OTHER -> {}

scalarErrors(m, x) ==
    CASE m.type = "wstring" -> Unless(x.ascii, "unsupported_message_field")
      [] m.type = "other"   -> {"unsupported_message_field"}
      [] m.type = "floating" ->
           Unless(m.long => WithinDoubles(x), "message_field_out_of_range")
      [] OTHER -> {}

projectionErrors(T, message) ==
    UNION {scalarErrors(T[Shape(p)], message[p]) : p \in DOMAIN message}

\* Mutant of scalarToJson: an unsigned field is projected as a signed one.
scalarToJsonSigned(m, x) ==
    CASE m.type = "unsigned" ->
           Integer(IF x \in Signed(m.bits) THEN x ELSE x - 2 ^ m.bits)
      [] m.type = "signed" -> Integer(x)
      [] m.type = "bool" -> Boolean(x)
      [] m.type = "array" -> Array(x.size)
      [] m.type = "message" -> Object
      [] OTHER -> x

\* memberToJson and scalarToJson at one path.
scalarToJson(m, x) ==
    CASE m.type = "bool" -> Boolean(x)
      [] m.type \in {"signed", "unsigned"} -> Integer(x)
      [] m.type = "floating" -> IF m.long /\ x \notin NonFinite
                                THEN Nearest(Doubles, x) ELSE x
      [] m.type = "array" -> Array(x.size)
      [] m.type = "message" -> Object
      [] OTHER -> x

messageToJson(T, message) ==
    [p \in DOMAIN message |-> scalarToJson(T[Shape(p)], message[p])]

\* What a reader gets of the text jsoncpp writes for j: no JSON stands for NaN,
\* and bytes that are no UTF-8 become other characters, of three bytes at most.
written(j) == CASE j = NotANumber -> Null
                [] j.t = "string" /\ ~j.utf8 -> Text(3 * j.bytes, FALSE)
                [] OTHER -> j

writeJson(doc) == [p \in DOMAIN doc |-> written(doc[p])]
==============================================================================
