--------------------------- MODULE RequestHandling ---------------------------
(***************************************************************************)
(* The document of a request from the Adapter Runtime to the ROS message,  *)
(* and a response of a service from the ROS message to the JSON answered:  *)
(* the checks, the type support, the codec.  What happens in between, in   *)
(* time, is that of PublishOperation and ServiceOperation.                 *)
(***************************************************************************)
EXTENDS RequestValidation, MessageCodec

CONSTANTS MessageTypes,   \* introspected messages of the installed packages
          Received        \* responses: [type, message] of the ROS side

\* at is also "loaded", "unsupported", "decoded", "refused", "echoed",
\* "answered", "encoded" or "unprojectable".
VARIABLES type,      \* the members of the message
          message    \* the C++ message, a cell for each member and item

handlingVars == <<at, request, answer, type, message>>

\* The message a request carries.
document(r) == r.text.fields[IF r.kind = "publish" THEN "message"
                                                   ELSE "request"].tree

------------------------------------------------------------------------------
Init == RequestInit /\ type = Null /\ message = Null

Receive == Validate /\ UNCHANGED <<type, message>>

\* loadMessageType, loadServiceType: which package a name stands for, and if it
\* is installed, is up to the environment.
LoadType ==
    /\ at = "accepted" /\ request.kind # "configuration"
    /\ \/ at' = "loaded" /\ type' \in MessageTypes /\ UNCHANGED answer
       \/ /\ at' = "unsupported"
          /\ \/ answer' = "ros_type_support_unavailable"
             \/ /\ request.kind = "service"
                /\ answer' = "ros_type_support_invalid"
          /\ UNCHANGED type
    /\ UNCHANGED <<request, message>>

\* messageFromJson
Decode ==
    /\ at = "loaded"
    /\ \E undefined \in UndefinedConversions :
         LET errors == assignErrors(type, document(request), undefined) IN
         \/ /\ errors = {}
            /\ at' = "decoded"
            /\ message' = messageFromJson(type, document(request), undefined)
            /\ UNCHANGED answer
         \/ /\ at' = "refused"
            /\ answer' \in errors
            /\ UNCHANGED message
    /\ UNCHANGED <<request, type>>

\* A service answers.
Respond ==
    /\ at = "decoded" /\ request.kind = "service"
    /\ at' = "answered"
    /\ \E r \in Received : type' = r.type /\ message' = r.message
    /\ UNCHANGED <<request, answer>>

\* messageToJson and writeJson, of a response and, as the tests of the codec do,
\* of the message just decoded.
Encode ==
    /\ at \in {"decoded", "answered"}
    /\ LET errors == projectionErrors(type, message) IN
         \/ /\ errors = {}
            /\ at' = IF at = "decoded" THEN "echoed" ELSE "encoded"
            /\ answer' = writeJson(messageToJson(type, message))
         \/ at' = "unprojectable" /\ answer' \in errors
    /\ UNCHANGED <<request, type, message>>

Next == Receive \/ LoadType \/ Decode \/ Respond \/ Encode

Spec == Init /\ [][Next]_handlingVars

------------------------------------------------------------------------------
(***************************************************************************)
(* Properties.                                                             *)
(***************************************************************************)

\* cells has every place of a message of type T and no other: each field, and of
\* each array as many items as the array says.
HasItsPlaces(T, cells) ==
    /\ DOMAIN cells \subseteq Paths
    /\ \A p \in Paths : p \in DOMAIN cells <=>
         /\ Shape(p) \in DOMAIN T
         /\ \A k \in DOMAIN p :
              /\ Above(p, k) \in DOMAIN cells
              /\ p[k].index # 0 => p[k].index <= cells[Above(p, k)].size

WellTyped(T, cells) ==
    /\ HasItsPlaces(T, cells)
    /\ \A p \in DOMAIN cells : WellTypedCell(T[Shape(p)], cells[p])

ASSUME TypesAssumption ==
    /\ \A T \in MessageTypes : IsType(T)
    /\ \A r \in Received : IsType(r.type) /\ WellTyped(r.type, r.message)

\* Whatever JSON comes in, the C++ message stays one of its type: integers in
\* their width, fixed arrays at their size, bounded ones and strings in their
\* bounds (the members are written through raw pointers and offsets).
MessageIsWellTyped ==
    at \in {"decoded", "echoed", "answered", "encoded"} => WellTyped(type, message)

\* JSON j describes a value of m: what the documentation of a typed request
\* promises to accept, said without jsoncpp.
FitsNode(m, j) ==
    CASE m.type = "bool" -> j.t = "bool"
      [] m.type = "signed" -> IsIntegerIn(j, Signed(m.bits))
      [] m.type = "unsigned" -> IsIntegerIn(j, Unsigned(m.bits))
      [] m.type = "floating" ->
           isNumeric(j) /\ Halves(j) \in -(2 * m.limit) .. 2 * m.limit
      [] m.type \in {"string", "wstring"} ->
           /\ j.t = "string"
           /\ m.type = "wstring" => j.ascii
           /\ m.bound # 0 => j.bytes <= m.bound
      [] m.type = "array" ->
           /\ j.t = "array"
           /\ m.array = "fixed" => j.size = m.size
           /\ m.array = "bounded" => j.size <= m.size
      [] m.type = "message" -> j.t = "object"
      [] OTHER -> FALSE

Fits(T, doc) ==
    \A p \in DOMAIN doc : Shape(p) \in DOMAIN T /\ FitsNode(T[Shape(p)], doc[p])

\* The one double that is out of range and not refused.
OnlyLapse == Real(MaxInt64AsDouble, FALSE)

\* The codec takes a document exactly if it fits the message type, whatever the
\* nesting, the widths and jsoncpp's three kinds of number, but for one double.
TakesWhatFits ==
    /\ at \in {"decoded", "echoed"} =>
         \/ Fits(type, document(request))
         \/ Mentions(document(request), {OnlyLapse})
    /\ at = "refused" => ~Fits(type, document(request))

\* The integers that asInt64 throws on.
BeyondInt64 ==
    LET above == MaxInt64AsDouble .. MaxUInt64AsDouble - 1
    IN  [t : {"integer"}, v : above] \cup [t : {"real"}, v : above, half : {FALSE}]

\* Every request that can never succeed is refused with an error of its own, none
\* of which asks the caller to repeat it, but for what jsoncpp throws on: an
\* integer beyond Int64 and a text nested deeper than its stack limit are answered
\* as transient, with the code of any failed call (of a configuration, which has
\* no answer, with the text of jsoncpp).
RefusalsAreTyped ==
    at \in {"invalid", "refused"} /\ answer = "std::exception" =>
        \/ request.text = TooDeep
        \/ \E n \in DOMAIN request.text.fields :
             LET node == request.text.fields[n] IN
             \/ node.t # "object" /\ node \in BeyondInt64
             \/ node.t = "object" /\ Mentions(node.tree, BeyondInt64)

\* b is what a document gets back that says a of a member m: the same integer,
\* of a number the nearest that m can hold, and of a text that is UTF-8 itself.
SaysTheSame(m, a, b) ==
    CASE m.type \in {"signed", "unsigned"} -> IsIntegerIn(a, {b.v})
      [] m.type = "floating" -> IsNearest(m.values, asDouble(a), b)
      [] m.type \in {"string", "wstring"} -> IF a.utf8 THEN a = b ELSE b.t = "string"
      [] OTHER -> a = b

\* What was published is what was asked for: the projection of the message is
\* the document, field by field and item by item, with the defaults of the
\* interface in the fields it left out. A number of a floating field comes back
\* rounded to that field, and a text that is not UTF-8 as another text. Only the
\* double out of range comes back as another integer.
RoundTrips ==
    at = "echoed" =>
        \/ /\ HasItsPlaces(type, answer)
           /\ DOMAIN document(request) \subseteq DOMAIN answer
           /\ \A p \in DOMAIN answer :
                LET m == type[Shape(p)] IN
                IF p \in DOMAIN document(request)
                THEN SaysTheSame(m, document(request)[p], answer[p])
                ELSE answer[p] = written(scalarToJson(m, InitialCell(type, p)))
        \/ Mentions(document(request), {OnlyLapse})

\* What JSON, as the adapter writes it, has no word for and the projection does
\* not refuse: a float or a double that is not finite, a long double between two
\* doubles, and a text that is not UTF-8, which a string of a message may be.
NotInJson(m, x) ==
    \/ m.type = "floating" /\ IF m.long THEN x \notin Doubles /\ WithinDoubles(x)
                                         ELSE x \in NonFinite
    \/ m.type = "string" /\ ~x.utf8

\* An answer can be sent back: its JSON has the places of the message it was
\* projected from, and at each of them is taken, as a message of the same type,
\* for the same value, whatever stands beside it, unless JSON has no word for it.
\* A long double that no double comes near is never projected.
ProjectionReadsBack ==
    at \in {"echoed", "encoded"} =>
        \A undefined \in UndefinedConversions :
            LET back == messageFromJson(type, answer, undefined) IN
            /\ DOMAIN back = DOMAIN message
            /\ \A p \in DOMAIN message :
                 \/ NotInJson(type[Shape(p)], message[p])
                 \/ /\ assignMember(type, answer, p, undefined) = {}
                    /\ back[p] = message[p]

\* "is out of range" (json_codec.cpp:66): a number that does not fit its integer
\* field is never put into it.
OutOfRangeIsRefused == at = "decoded" => Fits(type, document(request))
==============================================================================
