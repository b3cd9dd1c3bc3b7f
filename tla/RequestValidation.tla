-------------------------- MODULE RequestValidation --------------------------
(***************************************************************************)
(* What Publish, CallService and FromInstanceSpec accept of the document   *)
(* they are given, and what the schemas they advertise describe.  The code *)
(* never evaluates the schemas: their bounds and forms are written down a  *)
(* second time in tools_adapter.cpp.                                       *)
(***************************************************************************)
EXTENDS JsonValue

CONSTANT Requests    \* requests the Adapter Runtime may hand over

VARIABLES at,        \* "received", "accepted" or "invalid"; see RequestHandling
          request,
          answer     \* the code of the error, or what is answered

requestVars == <<at, request, answer>>

\* A document is published, called with, or configures the process.
Kinds == {"publish", "service", "configuration"}

\* What else of a request must match: the work context the endpoint, the subject
\* (of a configuration the scope) the process, the schema the compiled one, the
\* size its limit (a configuration may hold no secrets either).
Envelope == {"context", "subject", "contract", "size"}

\* A payload is lax that jsoncpp reads as a document, in its strict mode, though
\* it is no JSON text: something follows the document, or a string of it holds a
\* control character.

\* A request with the fields f; a field that is an object, with its document.
Fields(f)        == [t |-> "object", fields |-> f]
Subdocument(doc) == [t |-> "object", tree |-> doc]

\* Payloads jsoncpp makes no value of: not its strict JSON; nested too deep.
NotStrict == [t |-> "not strict"]
TooDeep   == [t |-> "too deep"]

IsRequest(r) ==
    /\ r.kind \in Kinds
    /\ r.wrong \in SUBSET Envelope
    /\ r.kind = "configuration" => "context" \notin r.wrong
    /\ r.lax \in BOOLEAN
    /\ r.text.t = "object" =>
         \A n \in DOMAIN r.text.fields :
           IF r.text.fields[n].t = "object" THEN IsDocument(r.text.fields[n].tree)
                                            ELSE r.text.fields[n] \in Nodes

kMaximumDomainID          == 232
kMaximumWaitMilliseconds  == 300000
kMaximumRosNameBytes      == 1024
kMaximumRosTypeBytes      == 256
RMW_TOPIC_MAX_NAME_LENGTH == 247

\* The widest integers hold every bound of this module.
ASSUME WidthAssumption ==
    /\ MaxInt64AsDouble \in Nat /\ MaxInt64AsDouble > kMaximumWaitMilliseconds
    /\ MaxUInt64AsDouble = 2 * MaxInt64AsDouble

ASSUME RequestsAssumption == \A r \in Requests : IsRequest(r)

------------------------------------------------------------------------------
(***************************************************************************)
(* The checks, in the order of the code.  f is the object of a document, n *)
(* a field of it.  "none" is no error; the first error is the one thrown.  *)
(***************************************************************************)
IsString(f, n) == n \in DOMAIN f /\ f[n].t = "string"
IsObject(f, n) == n \in DOMAIN f /\ f[n].t = "object"

requiredString(f, n) == IsString(f, n) /\ f[n].bytes > 0

\* Mutant of requiredUInt: the upper bound is left out.
requiredUIntUnbounded(f, n, minimum, maximum) ==
    n \in DOMAIN f /\ isIntegral(f[n]) /\ f[n].v >= minimum

requiredUInt(f, n, minimum, maximum) ==
    /\ n \in DOMAIN f
    /\ isIntegral(f[n])
    /\ ~(isInt64(f[n]) /\ f[n].v < 0)
    /\ minimum <= f[n].v /\ f[n].v <= maximum

\* Of the names of the right form, rmw refuses the long ones.
rmw_validate_full_topic_name(c) ==
    c.form = "graph name" /\ c.bytes <= RMW_TOPIC_MAX_NAME_LENGTH

\* rmw is handed value.c_str(), the name up to its first NUL.
validateGraphName(j) ==
    j.bytes <= kMaximumRosNameBytes /\ rmw_validate_full_topic_name(j.c)

validateType(j, form) == j.bytes <= kMaximumRosTypeBytes /\ j.form = form

PublishFields == {"topic", "messageType", "message", "qosDepth", "reliability",
                  "durability", "waitForSubscribersMs"}
ServiceFields == {"service", "serviceType", "request", "waitForServiceMs",
                  "callTimeoutMs"}

\* What Publish and CallService check alike, and first.
namesError(f, allowed, name, type, form) ==
    IF ~(/\ DOMAIN f \subseteq allowed
         /\ requiredString(f, name)
         /\ requiredString(f, type))       THEN "invalid_request"
    ELSE IF ~validateGraphName(f[name])    THEN "invalid_ros_name"
    ELSE IF ~validateType(f[type], form)   THEN "invalid_ros_type"
    ELSE "none"

Publish(f) ==
    LET error == namesError(f, PublishFields, "topic", "messageType",
                            "message type")
        takes == /\ IsObject(f, "message")
                 /\ requiredUInt(f, "qosDepth", 1, 1000)
                 /\ requiredUInt(f, "waitForSubscribersMs", 0,
                                 kMaximumWaitMilliseconds)
                 /\ requiredString(f, "reliability")
                 /\ f["reliability"].form \in {"reliable", "best-effort"}
                 /\ requiredString(f, "durability")
                 /\ f["durability"].form \in {"volatile", "transient-local"}
    IN  IF error = "none" /\ ~takes THEN "invalid_request" ELSE error

CallService(f) ==
    LET error == namesError(f, ServiceFields, "service", "serviceType",
                            "service type")
        takes == /\ IsObject(f, "request")
                 /\ requiredUInt(f, "waitForServiceMs", 0,
                                 kMaximumWaitMilliseconds)
                 /\ requiredUInt(f, "callTimeoutMs", 1,
                                 kMaximumWaitMilliseconds)
    IN  IF error = "none" /\ ~takes THEN "invalid_request" ELSE error

\* An integer beyond Int64 is not refused: asInt64 throws.
FromInstanceSpec(f) ==
    LET integral == "domainId" \in DOMAIN f /\ isIntegral(f["domainId"])
    IN  IF ~(DOMAIN f \subseteq {"domainId", "rmwImplementation"})
        THEN "invalid_request"
        ELSE IF integral /\ asInt64Throws(f["domainId"])
        THEN "std::exception"
        ELSE IF /\ integral
                /\ 0 <= f["domainId"].v /\ f["domainId"].v <= kMaximumDomainID
                /\ IsString(f, "rmwImplementation")
                /\ \/ f["rmwImplementation"].bytes = 0
                   \/ f["rmwImplementation"].form = "identifier"
                /\ f["rmwImplementation"].bytes <= 255
        THEN "none"
        ELSE "invalid_configuration"

\* Without failIfExtra, a lax payload is read like any other.
parseStrictJson(text) == CASE text = NotStrict  -> "invalid_json"
                           [] text = TooDeep    -> "std::exception"
                           [] text.t = "object" -> "none"
                           [] OTHER             -> "invalid_request"

Error(r) ==
    IF r.kind = "configuration" THEN
        IF r.wrong \cap {"contract", "size"} # {}  THEN "invalid_configuration"
        ELSE IF parseStrictJson(r.text) # "none"   THEN parseStrictJson(r.text)
        ELSE IF FromInstanceSpec(r.text.fields) # "none"
        THEN FromInstanceSpec(r.text.fields)
        ELSE IF "subject" \in r.wrong              THEN "invalid_scope"
        ELSE "none"
    ELSE IF "context" \in r.wrong                  THEN "invalid_work_context"
    ELSE IF "subject" \in r.wrong                  THEN "invalid_subject"
    ELSE IF "contract" \in r.wrong        THEN "unsupported_input_contract"
    ELSE IF "size" \in r.wrong                     THEN "request_too_large"
    ELSE IF parseStrictJson(r.text) # "none"       THEN parseStrictJson(r.text)
    ELSE IF r.kind = "publish"                     THEN Publish(r.text.fields)
    ELSE CallService(r.text.fields)

------------------------------------------------------------------------------
RequestInit == at = "received" /\ request \in Requests /\ answer = Null

\* The code before the type is loaded, and the whole of FromInstanceSpec.
Validate ==
    /\ at = "received"
    /\ IF Error(request) = "none"
       THEN at' = "accepted" /\ UNCHANGED answer
       ELSE at' = "invalid" /\ answer' = Error(request)
    /\ UNCHANGED request

RequestSpec == RequestInit /\ [][Validate]_requestVars

------------------------------------------------------------------------------
(***************************************************************************)
(* The advertised schemas, as a JSON Schema validator reads them: 5.0 is   *)
(* an integer.  What the code is known to be wider in is a parameter: the  *)
(* maxima of the waits, and whether a payload may be lax and a graph name  *)
(* go on after a NUL.                                                      *)
(***************************************************************************)
SchemaMaximumWait == 60000
SchemaMaximumCall == 120000

Integral(f, n, minimum, maximum) ==
    n \in DOMAIN f /\ IsIntegerIn(f[n], minimum .. maximum)
Matches(f, n, form, length) ==
    IsString(f, n) /\ f[n].form = form /\ f[n].bytes <= length

GraphName(f, n, wider) ==
    \/ Matches(f, n, "graph name", 1024)
    \/ wider /\ IsString(f, n) /\ f[n].c.form = "graph name" /\ f[n].bytes <= 1024

PublishRequest(f, wait, wider) ==
    /\ DOMAIN f = PublishFields
    /\ GraphName(f, "topic", wider)
    /\ Matches(f, "messageType", "message type", 256)
    /\ IsObject(f, "message")
    /\ Integral(f, "qosDepth", 1, 1000)
    /\ IsString(f, "reliability")
    /\ f["reliability"].form \in {"reliable", "best-effort"}
    /\ IsString(f, "durability")
    /\ f["durability"].form \in {"volatile", "transient-local"}
    /\ Integral(f, "waitForSubscribersMs", 0, wait)

ServiceCallRequest(f, wait, call, wider) ==
    /\ DOMAIN f = ServiceFields
    /\ GraphName(f, "service", wider)
    /\ Matches(f, "serviceType", "service type", 256)
    /\ IsObject(f, "request")
    /\ Integral(f, "waitForServiceMs", 0, wait)
    /\ Integral(f, "callTimeoutMs", 1, call)

NativeContextSchema(f) ==
    /\ DOMAIN f = {"domainId", "rmwImplementation"}
    /\ Integral(f, "domainId", 0, 232)
    /\ IsString(f, "rmwImplementation")
    /\ \/ f["rmwImplementation"].bytes = 0
       \/ f["rmwImplementation"].form = "identifier"
    /\ f["rmwImplementation"].bytes <= 255

Described(r, wait, call, wider) ==
    /\ r.text.t = "object"
    /\ r.lax => wider
    /\ CASE r.kind = "publish" -> PublishRequest(r.text.fields, wait, wider)
         [] r.kind = "service" -> ServiceCallRequest(r.text.fields, wait, call, wider)
         [] OTHER              -> NativeContextSchema(r.text.fields)

\* A name that the schemas allow and rmw does not.
NameTooLong(r) ==
    \E n \in {"topic", "service"} \cap DOMAIN r.text.fields :
        r.text.fields[n].bytes > RMW_TOPIC_MAX_NAME_LENGTH

\* A document the advertised schema describes is refused only for its envelope or
\* for a name too long for rmw. One that is accepted has a sound envelope and is
\* described but for three things: the code lets a request wait longer than the
\* schema says; it looks at a graph name only up to its first NUL
\* (tools_adapter.cpp:113); and it reads payloads that are no JSON text, with
\* something after the document or control characters in a string, which no schema
\* describes (json_codec.cpp:505).
ServesTheSchema ==
    /\ at = "invalid" =>
         \/ request.wrong # {}
         \/ ~Described(request, SchemaMaximumWait, SchemaMaximumCall, FALSE)
         \/ NameTooLong(request)
    /\ at \notin {"received", "invalid"} =>
         /\ request.wrong = {}
         /\ Described(request, kMaximumWaitMilliseconds,
                      kMaximumWaitMilliseconds, TRUE)
==============================================================================
