------------------------- MODULE RequestHandlingProofs -------------------------
(***************************************************************************)
(* The checks of the three documents agree with their advertised schemas,  *)
(* and the codec keeps its promises, whatever the documents, the message   *)
(* types and the responses: their depth, their arrays, their widths.       *)
(***************************************************************************)
EXTENDS RequestHandling, WellFoundedInduction, TLAPS

\* The numbers, in one place: written out they slow the provers down.
LEMMA Bounds ==
    /\ 0 \in Nat /\ 1 \in Nat
    /\ kMaximumWaitMilliseconds \in Nat
    /\ SchemaMaximumWait \in Nat /\ SchemaMaximumCall \in Nat
    /\ SchemaMaximumWait <= kMaximumWaitMilliseconds
    /\ SchemaMaximumCall <= kMaximumWaitMilliseconds
    /\ kMaximumWaitMilliseconds <= kMaximumWaitMilliseconds
    /\ 1000 <= kMaximumWaitMilliseconds
    /\ kMaximumDomainID <= kMaximumWaitMilliseconds
  BY SMT DEF kMaximumWaitMilliseconds, SchemaMaximumWait, SchemaMaximumCall,
             kMaximumDomainID

\* What a double is, and the infinity that is none.
LEMMA RealKinds ==
    /\ \A x \in Doubles \cup {Infinity} :
         x \in [t : {"real"}, v : Int, half : BOOLEAN]
    /\ Infinity \notin Doubles /\ NotANumber \notin Doubles
<1>1. MaxInt64AsDouble \in Nat
  BY WidthAssumption
<1>2. Infinity \in [t : {"real"}, v : Int, half : BOOLEAN]
      /\ Infinity.v \in Nat /\ Halves(Infinity) = 2 * Infinity.v
  BY <1>1 DEF Infinity, Real, Halves
<1>3. Doubles \subseteq Reals(Infinity.v - 1)
  BY DoublesAssumption
<1>4. \A x \in Doubles : /\ x \in [t : {"real"}, v : Int, half : BOOLEAN]
                         /\ Halves(x) <= 2 * (Infinity.v - 1)
  BY <1>2, <1>3 DEF Reals
<1>5. Infinity \notin Doubles
  BY <1>2, <1>4
<1>6. NotANumber \notin Doubles
  <2>1. NotANumber.t # "real"
    BY DEF NotANumber
  <2> QED
    BY <1>4, <2>1
<1> QED
  BY <1>2, <1>4, <1>5, <1>6

LEMMA FieldIsNode ==
    ASSUME NEW r, IsRequest(r), r.text.t = "object", NEW n \in DOMAIN r.text.fields
    PROVE  LET j == r.text.fields[n] IN
           /\ j.t # "object" => j \in Nodes
           /\ isNumeric(j) => j.v \in Int
           /\ j.t = "string" =>
                /\ j.bytes \in Nat
                /\ j.form # "other" => /\ j.bytes > 0
                                       /\ j.c.bytes = j.bytes /\ j.c.form = j.form
<1> DEFINE j == r.text.fields[n]
<1>1. MaxInt64AsDouble \in Nat /\ MaxUInt64AsDouble \in Nat
  BY WidthAssumption
<1>2. j.t # "object" => j \in Nodes
  BY DEF IsRequest
<1>3. j \in Nodes => (isNumeric(j) => j.v \in Int)
  BY <1>1, RealKinds DEF Nodes, Strings, isNumeric, Null, Object
<1>4. j \in Nodes => (j.t = "string" => j \in Strings)
  BY RealKinds DEF Nodes, Null, Object
<1> QED
  BY <1>2, <1>3, <1>4 DEF isNumeric, Strings

\* What the code takes for an unsigned integer within its bounds is an integer
\* within them, and the other way round, however jsoncpp holds it.
LEMMA UIntIsIntegral ==
    ASSUME NEW r, IsRequest(r), r.text.t = "object", NEW n,
           NEW minimum \in Nat, NEW maximum \in Nat,
           maximum <= kMaximumWaitMilliseconds
    PROVE  requiredUInt(r.text.fields, n, minimum, maximum)
             <=> Integral(r.text.fields, n, minimum, maximum)
<1> DEFINE j == r.text.fields[n]
<1>1. MaxInt64AsDouble \in Nat /\ maximum < MaxInt64AsDouble
      /\ MaxUInt64AsDouble = 2 * MaxInt64AsDouble
  BY WidthAssumption, Bounds
<1>2. n \in DOMAIN r.text.fields => (isNumeric(j) => j.v \in Int)
  BY FieldIsNode
<1>3. ASSUME requiredUInt(r.text.fields, n, minimum, maximum)
      PROVE  Integral(r.text.fields, n, minimum, maximum)
  BY <1>1, <1>2, <1>3
  DEF requiredUInt, Integral, IsIntegerIn, isIntegral, isNumeric
<1>4. ASSUME Integral(r.text.fields, n, minimum, maximum)
      PROVE  requiredUInt(r.text.fields, n, minimum, maximum)
  BY <1>1, <1>2, <1>4
  DEF requiredUInt, Integral, IsIntegerIn, isIntegral, isNumeric
<1> QED
  BY <1>3, <1>4

\* A string of a form that the requests know is not empty.
LEMMA FormIsNotEmpty ==
    ASSUME NEW r, IsRequest(r), r.text.t = "object", NEW n,
           IsString(r.text.fields, n), r.text.fields[n].form # "other"
    PROVE  /\ requiredString(r.text.fields, n) /\ r.text.fields[n].bytes \in Nat
           /\ r.text.fields[n].c.bytes = r.text.fields[n].bytes
           /\ r.text.fields[n].c.form = r.text.fields[n].form
  BY FieldIsNode DEF IsString, requiredString

LEMMA PublishServesSchema ==
    ASSUME NEW r, IsRequest(r), r.kind = "publish", r.text.t = "object",
           NEW f, f = r.text.fields
    PROVE  /\ Publish(f) = "none" => PublishRequest(f, kMaximumWaitMilliseconds, TRUE)
           /\ PublishRequest(f, SchemaMaximumWait, FALSE) /\ ~NameTooLong(r) =>
                Publish(f) = "none"
<1> DEFINE names == namesError(f, PublishFields, "topic", "messageType", "message type")
           takes == /\ IsObject(f, "message")
                    /\ requiredUInt(f, "qosDepth", 1, 1000)
                    /\ requiredUInt(f, "waitForSubscribersMs", 0,
                                    kMaximumWaitMilliseconds)
                    /\ requiredString(f, "reliability")
                    /\ f["reliability"].form \in {"reliable", "best-effort"}
                    /\ requiredString(f, "durability")
                    /\ f["durability"].form \in {"volatile", "transient-local"}
<1>1. Publish(f) = "none" <=> names = "none" /\ takes
  BY ZenonT(40) DEF Publish
<1>2. names = "none" <=>
        /\ DOMAIN f \subseteq PublishFields
        /\ requiredString(f, "topic") /\ requiredString(f, "messageType")
        /\ validateGraphName(f["topic"]) /\ validateType(f["messageType"], "message type")
  BY DEF namesError
<1>3. requiredUInt(f, "qosDepth", 1, 1000)
        <=> Integral(f, "qosDepth", 1, 1000)
  <2> DEFINE depth == 1000
  <2>1. depth \in Nat /\ depth <= kMaximumWaitMilliseconds
    BY Bounds
  <2> HIDE DEF depth
  <2>2. requiredUInt(f, "qosDepth", 1, depth) <=> Integral(f, "qosDepth", 1, depth)
    BY ZenonT(40), <2>1, UIntIsIntegral, Bounds
  <2> QED
    BY <2>2 DEF depth
<1>4. requiredUInt(f, "waitForSubscribersMs", 0, kMaximumWaitMilliseconds)
        <=> Integral(f, "waitForSubscribersMs", 0, kMaximumWaitMilliseconds)
  BY UIntIsIntegral, Bounds
<1>5. ASSUME Publish(f) = "none"
      PROVE  PublishRequest(f, kMaximumWaitMilliseconds, TRUE)
  <2>1. names = "none" /\ takes
    BY <1>1, <1>5
  <2>2. /\ DOMAIN f \subseteq PublishFields
        /\ requiredString(f, "topic") /\ requiredString(f, "messageType")
        /\ validateGraphName(f["topic"]) /\ validateType(f["messageType"], "message type")
    BY <1>2, <2>1
  <2>3. /\ GraphName(f, "topic", TRUE)
        /\ Matches(f, "messageType", "message type", 256)
    BY <2>2 DEF GraphName, Matches, requiredString, validateGraphName, validateType,
                rmw_validate_full_topic_name, kMaximumRosNameBytes,
                kMaximumRosTypeBytes
  <2>4. /\ Integral(f, "qosDepth", 1, 1000)
        /\ Integral(f, "waitForSubscribersMs", 0, kMaximumWaitMilliseconds)
    BY <1>3, <1>4, <2>1
  <2>5. /\ "topic" \in DOMAIN f
        /\ "messageType" \in DOMAIN f
        /\ "reliability" \in DOMAIN f
        /\ "durability" \in DOMAIN f
        /\ "message" \in DOMAIN f
        /\ "qosDepth" \in DOMAIN f
        /\ "waitForSubscribersMs" \in DOMAIN f
    BY <2>1, <2>3, <2>4
       DEF GraphName, Matches, Integral, requiredString, IsString, IsObject
  <2>6. DOMAIN f = PublishFields
    BY <2>2, <2>5 DEF PublishFields
  <2> QED
    BY <2>1, <2>3, <2>4, <2>6 DEF PublishRequest, requiredString
<1>6. ASSUME PublishRequest(f, SchemaMaximumWait, FALSE), ~NameTooLong(r)
      PROVE  Publish(f) = "none"
  <2>1. /\ Matches(f, "topic", "graph name", 1024)
        /\ Matches(f, "messageType", "message type", 256)
    BY <1>6 DEF PublishRequest, GraphName
  <2>2. /\ requiredString(f, "topic") /\ f["topic"].bytes \in Nat
        /\ f["topic"].c.bytes = f["topic"].bytes
        /\ f["topic"].c.form = f["topic"].form
    <3>1. IsString(f, "topic") /\ f["topic"].form # "other"
      BY <2>1 DEF Matches
    <3> HIDE DEF names, takes
    <3> QED
      BY <3>1, FormIsNotEmpty
  <2>3. requiredString(f, "messageType")
    <3>1. IsString(f, "messageType") /\ f["messageType"].form # "other"
      BY <2>1 DEF Matches
    <3> HIDE DEF names, takes
    <3> QED
      BY <3>1, FormIsNotEmpty
  <2>4. f["topic"].bytes <= RMW_TOPIC_MAX_NAME_LENGTH
    <3>1. "topic" \in {"topic", "service"} \cap DOMAIN f
      BY <2>1 DEF Matches, IsString
    <3>2. ~(f["topic"].bytes > RMW_TOPIC_MAX_NAME_LENGTH)
      BY <1>6, <3>1 DEF NameTooLong
    <3> QED
      BY <2>2, <3>2 DEF RMW_TOPIC_MAX_NAME_LENGTH
  <2>5. names = "none"
    <3>1. validateGraphName(f["topic"])
      <4> HIDE DEF names, takes
      <4>1. f["topic"].form = "graph name" /\ f["topic"].bytes <= 1024
        BY <2>1 DEF Matches
      <4>2. rmw_validate_full_topic_name(f["topic"].c)
        <5>1. f["topic"].c.form = "graph name"
          BY <2>2, <4>1
        <5>2. f["topic"].c.bytes <= RMW_TOPIC_MAX_NAME_LENGTH
          BY <2>2, <2>4
        <5> QED
          BY <5>1, <5>2 DEF rmw_validate_full_topic_name
      <4> QED
        BY <4>1, <4>2 DEF validateGraphName, kMaximumRosNameBytes
    <3>2. validateType(f["messageType"], "message type")
      <4> HIDE DEF names, takes
      <4> QED
        BY <2>1 DEF Matches, validateType, kMaximumRosTypeBytes
    <3> QED
      BY <1>2, <1>6, <2>2, <2>3, <3>1, <3>2 DEF PublishRequest
  <2>6. Integral(f, "waitForSubscribersMs", 0, kMaximumWaitMilliseconds)
    <3>1. Integral(f, "waitForSubscribersMs", 0, SchemaMaximumWait)
      BY <1>6 DEF PublishRequest
    <3> QED
      BY <3>1, Bounds DEF Integral, IsIntegerIn
  <2>7. takes
    <3>1. /\ requiredUInt(f, "qosDepth", 1, 1000)
          /\ requiredUInt(f, "waitForSubscribersMs", 0, kMaximumWaitMilliseconds)
      BY <1>3, <1>4, <1>6, <2>6 DEF PublishRequest
    <3>2. requiredString(f, "reliability")
      <4>1. IsString(f, "reliability") /\ f["reliability"].form # "other"
        BY <1>6 DEF PublishRequest
      <4> HIDE DEF names, takes
      <4> QED
        BY <4>1, FormIsNotEmpty
    <3>3. requiredString(f, "durability")
      <4>1. IsString(f, "durability") /\ f["durability"].form # "other"
        BY <1>6 DEF PublishRequest
      <4> HIDE DEF names, takes
      <4> QED
        BY <4>1, FormIsNotEmpty
    <3> QED
      BY <1>6, <3>1, <3>2, <3>3 DEF PublishRequest
  <2> QED
    BY <1>1, <2>5, <2>7
<1> QED
  BY <1>5, <1>6

LEMMA CallServesSchema ==
    ASSUME NEW r, IsRequest(r), r.kind = "service", r.text.t = "object",
           NEW f, f = r.text.fields
    PROVE  /\ CallService(f) = "none" => ServiceCallRequest(f, kMaximumWaitMilliseconds,
                                                          kMaximumWaitMilliseconds, TRUE)
           /\ ServiceCallRequest(f, SchemaMaximumWait, SchemaMaximumCall, FALSE) /\ ~NameTooLong(r) =>
                CallService(f) = "none"
<1> DEFINE names == namesError(f, ServiceFields, "service", "serviceType", "service type")
           takes == /\ IsObject(f, "request")
                    /\ requiredUInt(f, "waitForServiceMs", 0, kMaximumWaitMilliseconds)
                    /\ requiredUInt(f, "callTimeoutMs", 1, kMaximumWaitMilliseconds)
<1>1. CallService(f) = "none" <=> names = "none" /\ takes
  BY DEF CallService
<1>2. names = "none" <=>
        /\ DOMAIN f \subseteq ServiceFields
        /\ requiredString(f, "service") /\ requiredString(f, "serviceType")
        /\ validateGraphName(f["service"]) /\ validateType(f["serviceType"], "service type")
  BY DEF namesError
<1>3. requiredUInt(f, "waitForServiceMs", 0, kMaximumWaitMilliseconds)
        <=> Integral(f, "waitForServiceMs", 0, kMaximumWaitMilliseconds)
  BY UIntIsIntegral, Bounds
<1>4. requiredUInt(f, "callTimeoutMs", 1, kMaximumWaitMilliseconds)
        <=> Integral(f, "callTimeoutMs", 1, kMaximumWaitMilliseconds)
  BY UIntIsIntegral, Bounds
<1>5. ASSUME CallService(f) = "none"
      PROVE  ServiceCallRequest(f, kMaximumWaitMilliseconds,
                                                          kMaximumWaitMilliseconds, TRUE)
  <2>1. names = "none" /\ takes
    BY <1>1, <1>5
  <2>2. /\ DOMAIN f \subseteq ServiceFields
        /\ requiredString(f, "service") /\ requiredString(f, "serviceType")
        /\ validateGraphName(f["service"]) /\ validateType(f["serviceType"], "service type")
    BY <1>2, <2>1
  <2>3. /\ GraphName(f, "service", TRUE)
        /\ Matches(f, "serviceType", "service type", 256)
    BY <2>2 DEF GraphName, Matches, requiredString, validateGraphName, validateType,
                rmw_validate_full_topic_name, kMaximumRosNameBytes,
                kMaximumRosTypeBytes
  <2>4. /\ Integral(f, "waitForServiceMs", 0, kMaximumWaitMilliseconds)
        /\ Integral(f, "callTimeoutMs", 1, kMaximumWaitMilliseconds)
    BY <1>3, <1>4, <2>1
  <2>5. /\ "service" \in DOMAIN f
        /\ "serviceType" \in DOMAIN f
        /\ "request" \in DOMAIN f
        /\ "waitForServiceMs" \in DOMAIN f
        /\ "callTimeoutMs" \in DOMAIN f
    BY <2>1, <2>3, <2>4
       DEF GraphName, Matches, Integral, requiredString, IsString, IsObject
  <2>6. DOMAIN f = ServiceFields
    BY <2>2, <2>5 DEF ServiceFields
  <2> QED
    BY <2>1, <2>3, <2>4, <2>6 DEF ServiceCallRequest, requiredString
<1>6. ASSUME ServiceCallRequest(f, SchemaMaximumWait, SchemaMaximumCall, FALSE), ~NameTooLong(r)
      PROVE  CallService(f) = "none"
  <2>1. /\ Matches(f, "service", "graph name", 1024)
        /\ Matches(f, "serviceType", "service type", 256)
    BY <1>6 DEF ServiceCallRequest, GraphName
  <2>2. /\ requiredString(f, "service") /\ f["service"].bytes \in Nat
        /\ f["service"].c.bytes = f["service"].bytes
        /\ f["service"].c.form = f["service"].form
    <3>1. IsString(f, "service") /\ f["service"].form # "other"
      BY <2>1 DEF Matches
    <3> HIDE DEF names, takes
    <3> QED
      BY <3>1, FormIsNotEmpty
  <2>3. requiredString(f, "serviceType")
    <3>1. IsString(f, "serviceType") /\ f["serviceType"].form # "other"
      BY <2>1 DEF Matches
    <3> HIDE DEF names, takes
    <3> QED
      BY <3>1, FormIsNotEmpty
  <2>4. f["service"].bytes <= RMW_TOPIC_MAX_NAME_LENGTH
    <3>1. "service" \in {"topic", "service"} \cap DOMAIN f
      BY <2>1 DEF Matches, IsString
    <3>2. ~(f["service"].bytes > RMW_TOPIC_MAX_NAME_LENGTH)
      BY <1>6, <3>1 DEF NameTooLong
    <3> QED
      BY <2>2, <3>2 DEF RMW_TOPIC_MAX_NAME_LENGTH
  <2>5. names = "none"
    <3>1. validateGraphName(f["service"])
      <4> HIDE DEF names, takes
      <4>1. f["service"].form = "graph name" /\ f["service"].bytes <= 1024
        BY <2>1 DEF Matches
      <4>2. rmw_validate_full_topic_name(f["service"].c)
        <5>1. f["service"].c.form = "graph name"
          BY <2>2, <4>1
        <5>2. f["service"].c.bytes <= RMW_TOPIC_MAX_NAME_LENGTH
          BY <2>2, <2>4
        <5> QED
          BY <5>1, <5>2 DEF rmw_validate_full_topic_name
      <4> QED
        BY <4>1, <4>2 DEF validateGraphName, kMaximumRosNameBytes
    <3>2. validateType(f["serviceType"], "service type")
      <4> HIDE DEF names, takes
      <4> QED
        BY <2>1 DEF Matches, validateType, kMaximumRosTypeBytes
    <3> QED
      BY <1>2, <1>6, <2>2, <2>3, <3>1, <3>2 DEF ServiceCallRequest
  <2>6. Integral(f, "waitForServiceMs", 0, kMaximumWaitMilliseconds)
    <3>1. Integral(f, "waitForServiceMs", 0, SchemaMaximumWait)
      BY <1>6 DEF ServiceCallRequest
    <3> QED
      BY <3>1, Bounds DEF Integral, IsIntegerIn
  <2>7. Integral(f, "callTimeoutMs", 1, kMaximumWaitMilliseconds)
    <3>1. Integral(f, "callTimeoutMs", 1, SchemaMaximumCall)
      BY <1>6 DEF ServiceCallRequest
    <3> QED
      BY <3>1, Bounds DEF Integral, IsIntegerIn
  <2>8. takes
    <3>1. /\ requiredUInt(f, "waitForServiceMs", 0, kMaximumWaitMilliseconds)
          /\ requiredUInt(f, "callTimeoutMs", 1, kMaximumWaitMilliseconds)
      BY <1>3, <1>4, <1>6, <2>6, <2>7 DEF ServiceCallRequest
    <3> QED
      BY <1>6, <3>1 DEF ServiceCallRequest
  <2> QED
    BY <1>1, <2>5, <2>8
<1> QED
  BY <1>5, <1>6

LEMMA ConfigurationServesSchema ==
    ASSUME NEW r, IsRequest(r), r.kind = "configuration", r.text.t = "object",
           NEW f, f = r.text.fields
    PROVE  FromInstanceSpec(f) = "none" <=> NativeContextSchema(f)
<1>1. \A n \in DOMAIN f : isNumeric(f[n]) => f[n].v \in Int
  BY FieldIsNode
<1>2. /\ MaxInt64AsDouble \in Nat /\ kMaximumDomainID < MaxInt64AsDouble
      /\ MaxUInt64AsDouble = 2 * MaxInt64AsDouble
  BY WidthAssumption, Bounds DEF kMaximumDomainID
<1>3. ASSUME FromInstanceSpec(f) = "none"
      PROVE  NativeContextSchema(f)
  <2>1. /\ DOMAIN f \subseteq {"domainId", "rmwImplementation"}
        /\ "domainId" \in DOMAIN f /\ isIntegral(f["domainId"])
        /\ 0 <= f["domainId"].v /\ f["domainId"].v <= kMaximumDomainID
        /\ IsString(f, "rmwImplementation")
        /\ \/ f["rmwImplementation"].bytes = 0
           \/ f["rmwImplementation"].form = "identifier"
        /\ f["rmwImplementation"].bytes <= 255
    BY <1>3 DEF FromInstanceSpec
  <2>2. Integral(f, "domainId", 0, 232)
    BY SMTT(30), <1>1, <2>1 DEF Integral, IsIntegerIn, isIntegral, isNumeric,
                      kMaximumDomainID
  <2> QED
    BY <2>1, <2>2 DEF NativeContextSchema, IsString
<1>4. ASSUME NativeContextSchema(f)
      PROVE  FromInstanceSpec(f) = "none"
  <2>1. /\ "domainId" \in DOMAIN f /\ IsIntegerIn(f["domainId"], 0 .. 232)
    BY <1>4 DEF NativeContextSchema, Integral
  <2>2. isIntegral(f["domainId"]) /\ ~asInt64Throws(f["domainId"])
    BY SMTT(30), <1>2, <2>1 DEF IsIntegerIn, isIntegral, isNumeric,
        asInt64Throws, Int64,
                      kMaximumDomainID
  <2> QED
    BY SMTT(30), <1>4, <2>1, <2>2 DEF FromInstanceSpec, NativeContextSchema, IsIntegerIn,
                            kMaximumDomainID
<1> QED
  BY <1>3, <1>4

LEMMA ObjectParses ==
    ASSUME NEW text
    PROVE  parseStrictJson(text) = "none" <=> text.t = "object"
<1>1. CASE text = NotStrict
  BY <1>1 DEF parseStrictJson, NotStrict
<1>2. CASE text = TooDeep
  BY <1>2 DEF parseStrictJson, TooDeep, NotStrict
<1>3. CASE text # NotStrict /\ text # TooDeep
  BY <1>3 DEF parseStrictJson
<1> QED
  BY <1>1, <1>2, <1>3

\* What Error lets pass, and what it must.
LEMMA ErrorServesSchema ==
    ASSUME NEW r, IsRequest(r)
    PROVE  /\ Error(r) = "none" =>
                /\ r.wrong = {}
                /\ Described(r, kMaximumWaitMilliseconds, kMaximumWaitMilliseconds, TRUE)
           /\ r.wrong = {} /\ Described(r, SchemaMaximumWait, SchemaMaximumCall, FALSE) /\ ~NameTooLong(r) =>
                Error(r) = "none"
<1>1. r.kind \in Kinds /\ r.wrong \in SUBSET Envelope
      /\ (r.kind = "configuration" => "context" \notin r.wrong)
  BY DEF IsRequest
<1>2. ASSUME Error(r) = "none"
      PROVE  r.wrong = {} /\ parseStrictJson(r.text) = "none"
  <2>1. \A part \in Envelope : part \notin r.wrong
    BY <1>1, <1>2 DEF Error, Envelope
  <2> QED
    BY <1>1, <1>2, <2>1 DEF Error
<1>3. ASSUME Described(r, SchemaMaximumWait, SchemaMaximumCall, FALSE)
      PROVE  r.text.t = "object"
  BY <1>3 DEF Described
<1>4. CASE r.kind = "publish"
  BY <1>2, <1>3, <1>4, ObjectParses, PublishServesSchema DEF Error, Described
<1>5. CASE r.kind = "service"
  BY <1>2, <1>3, <1>5, ObjectParses, CallServesSchema DEF Error, Described
<1>6. CASE r.kind = "configuration"
  BY <1>2, <1>3, <1>6, ObjectParses, ConfigurationServesSchema
  DEF Error, Described
<1> QED
  BY <1>1, <1>4, <1>5, <1>6 DEF Kinds

------------------------------------------------------------------------------
(***************************************************************************)
(* Paths.                                                                  *)
(***************************************************************************)
LEMMA LeastNatural ==
    ASSUME NEW S, S \subseteq Nat, S # {}
    PROVE  \E n \in S : \A m \in S : n <= m
<1> DEFINE R == {ss \in Nat \X Nat : ss[1] < ss[2]}
<1>1. IsWellFoundedOn(R, Nat)
  BY NatLessThanWellFounded, Zenon DEF OpToRel
<1>2. \A m, n \in Nat : m < n => <<m, n>> \in R
  OBVIOUS
<1> HIDE DEF R
<1>3. PICK n \in S : \A m \in S : ~(<<m, n>> \in R)
  BY <1>1, WFMin, Zenon
<1>4. \A m \in S : ~(m < n)
  BY <1>2, <1>3
<1> QED
  BY <1>3, <1>4

LEMMA StepKinds ==
    ASSUME NEW step \in Steps
    PROVE  /\ step.index \in Nat
           /\ step.index # 0 => step = Item(step.index)
  BY SizesAssumption DEF Steps, Field, Item

LEMMA PathLength ==
    ASSUME NEW p \in Paths
    PROVE  \E n \in 0 .. MaxDepth : p \in [1 .. n -> Steps]
  BY DEF Paths

LEMMA RootPath == Root \in Paths /\ DOMAIN Root = {} /\ Shape(Root) = Root
<1>1. Root \in [1 .. 0 -> Steps]
  BY DEF Root
<1> QED
  BY <1>1, SizesAssumption DEF Paths, Root, Shape

LEMMA PrefixPath ==
    ASSUME NEW n \in 0 .. MaxDepth, NEW p \in [1 .. n -> Steps], NEW k \in 0 .. n
    PROVE  /\ Prefix(p, k) \in Paths
           /\ DOMAIN Prefix(p, k) = 1 .. k
           /\ Shape(Prefix(p, k)) = Prefix(Shape(p), k)
           /\ \A i \in 1 .. k : /\ Prefix(p, k)[i] = p[i]
                                /\ Above(Prefix(p, k), i) = Above(p, i)
<1>1. n \in Nat /\ k \in Nat /\ k \in 0 .. MaxDepth
  BY SizesAssumption
<1>2. Prefix(p, k) \in [1 .. k -> Steps]
  BY <1>1 DEF Prefix
<1>3. Shape(Prefix(p, k)) = Prefix(Shape(p), k)
  BY <1>1 DEF Shape, Prefix
<1>4. \A i \in 1 .. k : Prefix(p, k)[i] = p[i]
  BY <1>1 DEF Prefix
<1>5. \A i \in 1 .. k : Above(Prefix(p, k), i) = Above(p, i)
  BY <1>1 DEF Prefix, Above
<1> QED
  BY <1>1, <1>2, <1>3, <1>4, <1>5 DEF Paths

\* Of a node: the nodes above it, and itself as the last of its prefixes.
LEMMA AbovePath ==
    ASSUME NEW p \in Paths, NEW k \in DOMAIN p
    PROVE  /\ k \in Nat /\ k > 0
           /\ Above(p, k) \in Paths
           /\ DOMAIN Above(p, k) = 1 .. k - 1
           /\ Shape(Above(p, k)) = Above(Shape(p), k)
           /\ DOMAIN Shape(p) = DOMAIN p
           /\ p[k] \in Steps
           /\ \A i \in 1 .. k - 1 : /\ i \in DOMAIN p
                                    /\ Above(p, k)[i] = p[i]
                                    /\ Above(Above(p, k), i) = Above(p, i)
           /\ Prefix(p, k) \in Paths
           /\ DOMAIN Prefix(p, k) = 1 .. k
           /\ Shape(Prefix(p, k)) = Prefix(Shape(p), k)
           /\ Prefix(p, k) = p \/ (k + 1 \in DOMAIN p /\ Prefix(p, k) = Above(p, k + 1))
           /\ \A i \in 1 .. k : /\ i \in DOMAIN p
                                /\ Prefix(p, k)[i] = p[i]
                                /\ Above(Prefix(p, k), i) = Above(p, i)
<1>1. PICK n \in 0 .. MaxDepth : p \in [1 .. n -> Steps]
  BY PathLength
<1>2. n \in Nat /\ k \in 1 .. n /\ k - 1 \in 0 .. n /\ k \in 0 .. n
  BY <1>1, SizesAssumption
<1>3. k = n => Prefix(p, k) = p
  BY <1>1, <1>2 DEF Prefix
<1>4. k # n => k + 1 \in DOMAIN p /\ Prefix(p, k) = Above(p, k + 1)
  BY <1>1, <1>2 DEF Above
<1>5. /\ Prefix(p, k) \in Paths
      /\ DOMAIN Prefix(p, k) = 1 .. k
      /\ Shape(Prefix(p, k)) = Prefix(Shape(p), k)
      /\ \A i \in 1 .. k : /\ Prefix(p, k)[i] = p[i]
                           /\ Above(Prefix(p, k), i) = Above(p, i)
  BY <1>1, <1>2, PrefixPath
<1>6. /\ Above(p, k) \in Paths
      /\ DOMAIN Above(p, k) = 1 .. k - 1
      /\ Shape(Above(p, k)) = Above(Shape(p), k)
      /\ \A i \in 1 .. k - 1 : /\ Above(p, k)[i] = p[i]
                               /\ Above(Above(p, k), i) = Above(p, i)
  <2> DEFINE l == k - 1
  <2>1. l \in 0 .. n /\ Above(p, k) = Prefix(p, l) /\ Above(Shape(p), k) = Prefix(Shape(p), l)
    BY <1>2 DEF Above
  <2> HIDE DEF l
  <2>2. /\ Prefix(p, l) \in Paths
        /\ DOMAIN Prefix(p, l) = 1 .. l
        /\ Shape(Prefix(p, l)) = Prefix(Shape(p), l)
        /\ \A i \in 1 .. l : /\ Prefix(p, l)[i] = p[i]
                             /\ Above(Prefix(p, l), i) = Above(p, i)
    BY <1>1, <2>1, PrefixPath
  <2> QED
    BY <2>1, <2>2 DEF l
<1>7. DOMAIN Shape(p) = DOMAIN p /\ p[k] \in Steps
  BY <1>1 DEF Shape
<1> QED
  BY <1>1, <1>2, <1>3, <1>4, <1>5, <1>6, <1>7

LEMMA SequenceOfLength ==
    ASSUME NEW S, NEW n \in Nat, NEW a \in [1 .. n -> S]
    PROVE  a \in Seq(S) /\ Len(a) = n
<1>1. a \in Seq(S)
  OBVIOUS
<1>2. Len(a) = n
  OBVIOUS
<1> QED
  BY <1>1, <1>2

LEMMA LengthOfSequence ==
    ASSUME NEW S, NEW a \in Seq(S)
    PROVE  a \in [1 .. Len(a) -> S]
  OBVIOUS

LEMMA AppendToFunction ==
    ASSUME NEW S, NEW n \in Nat, NEW a \in [1 .. n -> S], NEW e \in S
    PROVE  Append(a, e) = [i \in 1 .. n + 1 |-> IF i = n + 1 THEN e ELSE a[i]]
<1>1. a \in Seq(S) /\ Len(a) = n
  BY SequenceOfLength
<1> DEFINE b == Append(a, e)
<1>2. b \in Seq(S) /\ Len(b) = n + 1
  BY <1>1
<1>3. b \in [1 .. n + 1 -> S]
  <2> HIDE DEF b
  <2> QED
    BY <1>2, LengthOfSequence
<1>4. \A i \in 1 .. n + 1 : b[i] = IF i = n + 1 THEN e ELSE a[i]
  BY <1>1
<1> HIDE DEF b
<1> QED
  BY <1>3, <1>4 DEF b

LEMMA ChildShape ==
    ASSUME NEW p \in Paths, NEW k \in DOMAIN p
    PROVE  /\ Shape(p)[k] = IF p[k].index = 0 THEN p[k] ELSE Item(1)
           /\ p[k].index # 0 =>
                Shape(Prefix(p, k)) = Append(Shape(Above(p, k)), Item(1))
<1>1. PICK n \in 0 .. MaxDepth : p \in [1 .. n -> Steps]
  BY PathLength
<1>2. n \in Nat /\ k \in 1 .. n
  BY <1>1, SizesAssumption
<1>3. Shape(p)[k] = IF p[k].index = 0 THEN p[k] ELSE Item(1)
  BY <1>1 DEF Shape
<1>4. ASSUME p[k].index # 0
      PROVE  Shape(Prefix(p, k)) = Append(Shape(Above(p, k)), Item(1))
  <2> DEFINE a == Shape(Above(p, k))
       l == k - 1
  <2>0. l \in Nat /\ k = l + 1 /\ l \in 0 .. n
    BY <1>2
  <2>1. a \in [1 .. l -> Steps \cup {Item(1)}]
    BY <1>1, <1>2, <2>0 DEF Above, Prefix, Shape
  <2>2. Shape(Prefix(p, k)) = [i \in 1 .. k |-> IF i = k THEN Item(1) ELSE a[i]]
    BY <1>1, <1>2, <1>4, <2>0 DEF Above, Prefix, Shape
  <2> HIDE DEF a, l
  <2>3. Append(a, Item(1)) = [i \in 1 .. k |-> IF i = k THEN Item(1) ELSE a[i]]
    <3> DEFINE first == Item(1)
               kinds == Steps \cup {first}
    <3>1. l \in Nat /\ first \in kinds /\ a \in [1 .. l -> kinds]
      BY <2>0, <2>1
    <3> HIDE DEF first, kinds
    <3>2. Append(a, first) = [i \in 1 .. l + 1 |-> IF i = l + 1 THEN first ELSE a[i]]
      BY <3>1, AppendToFunction
    <3> QED
      BY <2>0, <3>2 DEF first
  <2> QED
    BY <2>2, <2>3 DEF a
<1> QED
  BY <1>3, <1>4

\* A path is the one above its last step, and that step.
LEMMA LastStep ==
    ASSUME NEW p \in Paths, NEW k \in DOMAIN p, DOMAIN p = 1 .. k
    PROVE  Append(Above(p, k), p[k]) = p
<1>1. PICK n \in 0 .. MaxDepth : p \in [1 .. n -> Steps]
  BY PathLength
<1>2. n \in Nat /\ n = k
  <2>1. n \in Nat /\ 1 .. n = 1 .. k /\ k \in 1 .. n
    BY <1>1, SizesAssumption
  <2> QED
    BY <2>1
<1> DEFINE l == n - 1
<1>3. l \in Nat /\ n = l + 1
  BY <1>1, <1>2
<1>4. Above(p, k) \in [1 .. l -> Steps] /\ p[k] \in Steps
  BY <1>1, <1>2, <1>3 DEF Above, Prefix
<1>5. \A i \in 1 .. l : Above(p, k)[i] = p[i]
  BY <1>2 DEF Above, Prefix
<1> HIDE DEF l
<1>6. Append(Above(p, k), p[k]) =
        [i \in 1 .. l + 1 |-> IF i = l + 1 THEN p[k] ELSE Above(p, k)[i]]
  BY <1>3, <1>4, AppendToFunction
<1>7. p = [i \in 1 .. l + 1 |-> p[i]]
  BY <1>1, <1>3
<1>8. \A i \in 1 .. l + 1 : p[i] = IF i = l + 1 THEN p[k] ELSE Above(p, k)[i]
  BY <1>2, <1>3, <1>5
<1> QED
  BY <1>6, <1>7, <1>8

\* Induction along a path: a set that holds the root and, with all nodes above
\* one of its prefixes, that prefix, holds the path.
LEMMA AlongPath ==
    ASSUME NEW S, NEW p \in Paths, Root \in S,
           \A k \in DOMAIN p :
              (\A i \in 1 .. k : Above(p, i) \in S) => Prefix(p, k) \in S
    PROVE  p \in S /\ \A k \in DOMAIN p : Above(p, k) \in S
<1>1. PICK n \in 0 .. MaxDepth : p \in [1 .. n -> Steps]
  BY PathLength
<1> DEFINE Missed == {k \in 0 .. n : Prefix(p, k) \notin S}
<1>2. n \in Nat /\ Prefix(p, 0) = Root /\ Prefix(p, n) = p
  <2>1. n \in Nat
    BY SizesAssumption
  <2>2. Prefix(p, 0) = Root
    BY DEF Prefix, Root
  <2>3. Prefix(p, n) = p
    BY <1>1, <2>1 DEF Prefix
  <2> QED
    BY <2>1, <2>2, <2>3
<1>3. Missed = {}
  <2> SUFFICES ASSUME Missed # {} PROVE FALSE
    OBVIOUS
  <2>0. Missed \subseteq Nat
    OBVIOUS
  <2>1. PICK k \in Missed : \A m \in Missed : k <= m
    <3> HIDE DEF Missed
    <3> QED
      BY <2>0, LeastNatural
  <2>2. k \in 1 .. n
    BY <1>2, <2>1
  <2>3. \A i \in 1 .. k : Above(p, i) \in S
    <3> TAKE i \in 1 .. k
    <3>1. i - 1 \in 0 .. n /\ i - 1 < k
      BY <1>2, <2>2
    <3>2. i - 1 \notin Missed
      BY <2>1, <3>1
    <3> QED
      BY <3>1, <3>2 DEF Above
  <2> QED
    BY <1>1, <2>1, <2>2, <2>3
<1>4. \A k \in DOMAIN p : k - 1 \in 0 .. n
  BY <1>1, <1>2
<1> QED
  BY <1>2, <1>3, <1>4 DEF Above

------------------------------------------------------------------------------
(***************************************************************************)
(* One node and one cell.                                                  *)
(***************************************************************************)
LEMMA Widths ==
    /\ MaxInt64AsDouble \in Nat /\ MaxInt64AsDouble > 0
    /\ MaxUInt64AsDouble \in Nat /\ MaxUInt64AsDouble = 2 * MaxInt64AsDouble
  BY WidthAssumption, Bounds

LEMMA NodeKinds ==
    ASSUME NEW j \in Nodes
    PROVE  /\ j.t \in {"null", "object", "bool", "integer", "real", "array", "string"}
           /\ j.t = "object"  => j = Object
           /\ j.t = "bool"    => j.b \in BOOLEAN /\ j = Boolean(j.b)
           /\ j.t = "integer" => /\ j.v \in Int /\ j = Integer(j.v)
                                 /\ -MaxInt64AsDouble <= j.v /\ j.v < MaxUInt64AsDouble
           /\ j.t = "real"    => /\ j.v \in Int /\ j.half \in BOOLEAN
                                 /\ j = Real(j.v, j.half)
                                 /\ j \in Doubles \cup {Infinity}
           /\ j.t = "array"   => j.size \in Nat /\ j = Array(j.size)
           /\ j.t = "string"  => j \in Strings /\ j.bytes \in Nat
<1>1. CASE j \in {Null, Object}
  BY <1>1 DEF Null, Object
<1>2. CASE j \in [t : {"bool"}, b : BOOLEAN]
  BY <1>2 DEF Boolean
<1>3. CASE j \in [t : {"integer"}, v : -MaxInt64AsDouble .. MaxUInt64AsDouble - 1]
  <2>1. /\ j.t = "integer" /\ j.v \in -MaxInt64AsDouble .. MaxUInt64AsDouble - 1
        /\ j = Integer(j.v)
    BY <1>3 DEF Integer
  <2> QED
    BY <2>1, Widths
<1>4. CASE j \in Doubles \cup {Infinity}
  <2>1. j \in [t : {"real"}, v : Int, half : BOOLEAN]
    BY <1>4, RealKinds
  <2> QED
    BY <1>4, <2>1 DEF Real
<1>5. CASE j \in [t : {"array"}, size : Nat]
  BY <1>5 DEF Array
<1>6. CASE j \in Strings
  BY <1>6 DEF Strings
<1> QED
  BY <1>1, <1>2, <1>3, <1>4, <1>5, <1>6 DEF Nodes

\* A number is rounded to one of the numbers there are, whichever they are.
LEMMA NearestExists ==
    ASSUME NEW S, S # {}, S \subseteq [t : {"real"}, v : Int, half : BOOLEAN],
           NEW x, Halves(x) \in Int
    PROVE  IsNearest(S, x, Nearest(S, x))
<1> DEFINE D == {Distance(x, y) : y \in S}
<1>1. \A y \in S : Halves(y) \in Int
  BY DEF Halves
<1>2. \A y \in S : Distance(x, y) \in Nat
  BY <1>1 DEF Distance
<1>3. D \subseteq Nat /\ D # {}
  BY <1>2
<1>4. PICK n \in D : \A m \in D : n <= m
  <2> HIDE DEF D
  <2> QED
    BY <1>3, LeastNatural
<1>5. PICK y \in S : n = Distance(x, y)
  OBVIOUS
<1>6. IsNearest(S, x, y)
  BY <1>4, <1>5 DEF IsNearest
<1> QED
  BY <1>5, <1>6 DEF Nearest

\* A number that is one of them stays as it is.
LEMMA NearestOfMember ==
    ASSUME NEW S, S \subseteq [t : {"real"}, v : Int, half : BOOLEAN], NEW x \in S
    PROVE  Nearest(S, x) = x
<1> DEFINE y == Nearest(S, x)
<1>1. x \in [t : {"real"}, v : Int, half : BOOLEAN] /\ Halves(x) \in Int
  BY DEF Halves
<1>2. IsNearest(S, x, y)
  BY <1>1, NearestExists
<1> HIDE DEF y
<1>3. y \in S /\ Distance(x, y) <= Distance(x, x)
  BY <1>2 DEF IsNearest
<1>4. y \in [t : {"real"}, v : Int, half : BOOLEAN] /\ Halves(y) \in Int
  BY <1>3 DEF Halves
<1>5. Halves(x) = Halves(y)
  BY <1>1, <1>3, <1>4 DEF Distance
<1>6. x.v = y.v /\ x.half = y.half
  BY <1>1, <1>4, <1>5 DEF Halves
<1>7. x = y
  BY <1>1, <1>4, <1>6
<1> QED
  BY <1>7 DEF y

\* What jsoncpp makes a double of: a double is one; an integer is rounded to one
\* no larger than the largest integers.
LEMMA DoubleOfNumber ==
    ASSUME NEW j \in Nodes, isNumeric(j)
    PROVE  /\ Halves(j) \in Int /\ Halves(asDouble(j)) \in Int
           /\ asDouble(j) \in Doubles \cup {Infinity}
           /\ j.t = "real" => asDouble(j) = j
           /\ j.t = "integer" =>
                /\ Halves(j) \in -(2 * MaxUInt64AsDouble) .. 2 * MaxUInt64AsDouble
                /\ Halves(asDouble(j)) \in -(2 * MaxUInt64AsDouble) .. 2 * MaxUInt64AsDouble
<1>1. Doubles \subseteq [t : {"real"}, v : Int, half : BOOLEAN]
  BY RealKinds
<1>2. CASE j.t = "real"
  <2>1. asDouble(j) = j
    BY <1>2 DEF asDouble
  <2>2. j \in Doubles \cup {Infinity} /\ j.v \in Int
    BY <1>2, NodeKinds
  <2>3. Halves(j) \in Int
    BY <2>2 DEF Halves
  <2> QED
    BY <1>2, <2>1, <2>2, <2>3
<1>3. CASE j.t = "integer"
  <2> DEFINE low == Real(-MaxInt64AsDouble, FALSE)
             high == Real(MaxUInt64AsDouble, FALSE)
             y == Nearest(Doubles, j)
  <2>1. /\ j.v \in Int /\ -MaxInt64AsDouble <= j.v /\ j.v < MaxUInt64AsDouble
        /\ Halves(j) = 2 * j.v
    BY <1>3, NodeKinds DEF Halves
  <2>2. low \in Doubles /\ high \in Doubles
    BY DoublesAssumption
  <2>3. Halves(low) = 2 * (-MaxInt64AsDouble) /\ Halves(high) = 2 * MaxUInt64AsDouble
    BY Widths DEF Halves, Real
  <2>4. IsNearest(Doubles, j, y)
    <3>1. Halves(j) \in Int
      BY <2>1
    <3>2. Doubles # {}
      BY <2>2
    <3> QED
      BY <1>1, <3>1, <3>2, NearestExists
  <2> HIDE DEF y, low, high
  <2>5. /\ y \in Doubles /\ Halves(y) \in Int
        /\ Distance(j, y) <= Distance(j, low) /\ Distance(j, y) <= Distance(j, high)
    BY <1>1, <2>2, <2>4 DEF IsNearest, Halves
  <2>6. Halves(y) <= 2 * MaxUInt64AsDouble
    BY <2>1, <2>3, <2>5, Widths DEF Distance
  <2>7. 2 * (-MaxInt64AsDouble) <= Halves(y)
    BY <2>1, <2>3, <2>5, Widths DEF Distance
  <2>8. asDouble(j) = y
    BY <1>3 DEF asDouble, y
  <2> QED
    BY <1>3, <2>1, <2>5, <2>6, <2>7, <2>8, Widths
<1> QED
  BY <1>2, <1>3 DEF isNumeric

\* The types of members, with what is known of each.
LEMMA MemberKinds ==
    ASSUME NEW m, IsMember(m)
    PROVE  \/ m.type \in {"bool", "other", "message"}
           \/ m.type = "signed" /\ Signed(m.bits) \subseteq Int64 /\ 0 \in Signed(m.bits)
           \/ /\ m.type = "unsigned" /\ 0 \in Unsigned(m.bits)
              /\ Unsigned(m.bits) \subseteq 0 .. MaxUInt64AsDouble - 1
           \/ m.type = "floating" /\ IsFloating(m)
           \/ m.type \in {"string", "wstring"} /\ m.bound \in Nat
           \/ m.type = "array" /\ m.array \in {"fixed", "bounded", "sequence"} /\ m.size \in Nat
  BY SizesAssumption DEF IsMember

LEMMA FloatingKind ==
    ASSUME NEW m, IsMember(m), m.type = "floating"
    PROVE  /\ m.limit \in Nat /\ m.long \in BOOLEAN
           /\ MaxUInt64AsDouble <= m.limit /\ m.limit < Infinity.v /\ Infinity.v \in Nat
           /\ m.values # {}
           /\ m.values \subseteq [t : {"real"}, v : Int, half : BOOLEAN]
           /\ \A x \in m.values : Halves(x) \in -(2 * m.limit) .. 2 * m.limit
           /\ m.long => Doubles \subseteq m.values
           /\ ~m.long => m.values \subseteq Doubles
<1>1. IsFloating(m)
  BY MemberKinds
<1>2. MaxUInt64AsDouble \in Nat /\ Infinity.v \in Nat
  BY Widths DEF Infinity, Real
<1> QED
  BY <1>1, <1>2 DEF IsFloating, Reals

\* A number within the limit of a floating member is rounded to one that the
\* member holds, and that is a double.
LEMMA FloatingAssigned ==
    ASSUME NEW m, IsMember(m), m.type = "floating", NEW j \in Nodes, isNumeric(j),
           Halves(asDouble(j)) \in -(2 * m.limit) .. 2 * m.limit
    PROVE  /\ IsNearest(m.values, asDouble(j), Nearest(m.values, asDouble(j)))
           /\ Nearest(m.values, asDouble(j)) \in m.values \cap Doubles
<1> DEFINE d == asDouble(j)
           x == Nearest(m.values, d)
<1>1. Halves(d) \in Int /\ d \in Doubles \cup {Infinity}
  BY DoubleOfNumber
<1>2. d \in Doubles
  <2>1. Halves(Infinity) = 2 * Infinity.v
    BY Widths DEF Infinity, Real, Halves
  <2>2. 2 * m.limit < 2 * Infinity.v
    BY FloatingKind
  <2>3. d # Infinity
    BY <2>1, <2>2, FloatingKind
  <2> QED
    BY <1>1, <2>3
<1>3. IsNearest(m.values, d, x)
  BY <1>1, FloatingKind, NearestExists
<1>4. x \in m.values
  BY <1>3 DEF IsNearest
<1>5. x \in Doubles
  <2>1. CASE m.long
    <3>1. d \in m.values
      BY <1>2, <2>1, FloatingKind
    <3>2. x = d
      BY <3>1, FloatingKind, NearestOfMember
    <3> QED
      BY <1>2, <3>2
  <2>2. CASE ~m.long
    BY <1>4, <2>2, FloatingKind
  <2> QED
    BY <2>1, <2>2
<1> QED
  BY <1>3, <1>4, <1>5

\* What is assigned to a cell without an error is of its type.
LEMMA AssignedIsTyped ==
    ASSUME NEW m, IsMember(m), m.type # "message", NEW j \in Nodes, NEW undefined,
           assignScalar(m, j, undefined) = {}
    PROVE  WellTypedCell(m, AssignedCell(m, j, undefined))
<1>1. CASE m.type = "bool"
  BY <1>1, NodeKinds DEF assignScalar, Unless, WellTypedCell, AssignedCell
<1>2. CASE m.type = "signed"
  BY <1>2 DEF assignScalar, assignSigned, Unless, WellTypedCell, AssignedCell
<1>3. CASE m.type = "unsigned"
  BY <1>3 DEF assignScalar, assignUnsigned, Unless, WellTypedCell, AssignedCell
<1>4. CASE m.type = "floating"
  <2>1. isNumeric(j) /\ Halves(asDouble(j)) \in -(2 * m.limit) .. 2 * m.limit
    BY <1>4 DEF assignScalar, assignFloating, Unless
  <2>2. AssignedCell(m, j, undefined) \in m.values
    BY <1>4, <2>1, FloatingAssigned DEF AssignedCell
  <2> QED
    BY <1>4, <2>2 DEF WellTypedCell
<1>5. CASE m.type \in {"string", "wstring"}
  <2>1. j.t = "string" /\ (m.bound = 0 \/ j.bytes <= m.bound)
    BY <1>5 DEF assignScalar, assignString, Unless
  <2> QED
    BY <1>5, <2>1, NodeKinds DEF WellTypedCell, AssignedCell
<1>6. CASE m.type = "array"
  <2>1. /\ j.t = "array" /\ j.size \in Nat
        /\ m.array = "fixed" => j.size = m.size
        /\ m.array = "bounded" => j.size <= m.size
    BY <1>6, NodeKinds DEF assignScalar, assignArray, Unless
  <2> QED
    BY <1>6, <2>1 DEF WellTypedCell, AssignedCell, Items
<1>7. CASE m.type = "other"
  BY <1>7 DEF WellTypedCell
<1> QED
  BY <1>1, <1>2, <1>3, <1>4, <1>5, <1>6, <1>7, MemberKinds

\* The default of a field, and of an item of an array that is left out.
LEMMA InitialIsTyped ==
    ASSUME NEW T, IsType(T), NEW p \in Paths, Shape(p) \in DOMAIN T,
           \A k \in DOMAIN p : p[k].index # 0 /\ DOMAIN p = 1 .. k =>
               p[k].index \in 1 .. T[Shape(Above(p, k))].initial
    PROVE  WellTypedCell(T[Shape(p)], InitialCell(T, p))
<1> DEFINE q == Shape(p)
           m == T[q]
<1>1. HasDefault(T, q)
  BY DEF IsType
<1>2. CASE m.type = "message"
  BY <1>2 DEF WellTypedCell, InitialCell
<1>3. CASE m.type = "array"
  <2>1. WellTypedCell(m, Items(m.initial))
    BY <1>1, <1>3 DEF HasDefault
  <2>2. InitialCell(T, p) = Items(m.initial)
    BY <1>3 DEF InitialCell
  <2> QED
    BY <2>1, <2>2
<1>4. CASE m.type \notin {"message", "array"}
  <2>1. PICK n \in 0 .. MaxDepth : p \in [1 .. n -> Steps]
    BY PathLength
  <2>2. n \in Nat /\ p \in Seq(Steps) /\ Len(p) = n
    <3>1. n \in Nat
      BY SizesAssumption
    <3> QED
      BY <2>1, <3>1, SequenceOfLength
  <2>3. n # 0
    <3>1. n = 0 => q = Root
      BY <2>1 DEF Shape, Root
    <3>2. T[Root].type = "message"
      BY DEF IsType
    <3> QED
      BY <1>4, <3>1, <3>2
  <2>4. n \in DOMAIN p /\ DOMAIN p = 1 .. n
    BY <2>1, <2>2, <2>3
  <2>5. /\ Shape(Above(p, n)) = Above(q, n)
        /\ q[n] = IF p[n].index = 0 THEN p[n] ELSE Item(1)
    BY <2>4, AbovePath, ChildShape
  <2>6. Len(q) = n
    <3>1. q \in [1 .. n -> Steps \cup {Item(1)}]
      BY <2>1 DEF Shape
    <3> HIDE DEF q
    <3> QED
      BY <2>2, <3>1, SequenceOfLength
  <2> HIDE DEF q
  <2>7. CASE p[n].index = 0
    <3>1. q[Len(q)].index = 0
      BY <2>5, <2>6, <2>7
    <3>2. WellTypedCell(m, m.initial)
      BY <1>1, <1>4, <3>1 DEF HasDefault
    <3> QED
      BY <1>4, <2>2, <2>7, <3>2 DEF InitialCell, q
  <2>8. CASE p[n].index # 0
    <3>1. q[Len(q)].index # 0
      BY <2>5, <2>6, <2>8 DEF Item
    <3>2. p[n].index \in 1 .. T[Above(q, Len(q))].initial
      BY <2>4, <2>5, <2>6, <2>8
    <3>3. WellTypedCell(m, m.initial[p[n].index])
      BY <1>1, <1>4, <3>1, <3>2 DEF HasDefault
    <3> QED
      BY <1>4, <2>2, <2>8, <3>3 DEF InitialCell, q
  <2> QED
    BY <2>7, <2>8
<1> QED
  BY <1>2, <1>3, <1>4

\* What is assigned without an error fits, but for one double.
LEMMA AssignedFits ==
    ASSUME NEW m, IsMember(m), m.type # "message", NEW j \in Nodes, j # OnlyLapse,
           NEW undefined, assignScalar(m, j, undefined) = {}
    PROVE  FitsNode(m, j)
<1>1. CASE m.type = "bool"
  BY <1>1 DEF assignScalar, Unless, FitsNode
<1>2. CASE m.type = "signed"
  <2>1. /\ isIntegral(j) /\ ~asInt64Throws(j)
        /\ asInt64(j, undefined) \in Signed(m.bits)
    BY <1>2 DEF assignScalar, assignSigned, Unless
  <2>2. j.v \in Int64
    <3>1. CASE j.t = "integer"
      BY <2>1, <3>1 DEF asInt64Throws
    <3>2. CASE j.t = "real"
      <4>1. j.v \in Int /\ ~j.half /\ -MaxInt64AsDouble <= j.v /\ j.v <= MaxInt64AsDouble
        BY <2>1, <3>2, NodeKinds, Widths DEF isIntegral, asInt64Throws
      <4>2. j = Real(j.v, FALSE)
        BY <3>2, <4>1, NodeKinds
      <4>3. j.v # MaxInt64AsDouble
        BY <4>2 DEF OnlyLapse
      <4> QED
        BY <4>1, <4>3, Widths DEF Int64
    <3> QED
      BY <2>1, <3>1, <3>2 DEF isIntegral
  <2>3. j.v \in Signed(m.bits)
    BY <2>1, <2>2 DEF asInt64
  <2> QED
    BY <1>2, <2>1, <2>3 DEF FitsNode, IsIntegerIn, isIntegral, isNumeric
<1>3. CASE m.type = "unsigned"
  <2>1. isIntegral(j) /\ j.v \in Unsigned(m.bits)
    BY <1>3 DEF assignScalar, assignUnsigned, Unless
  <2> QED
    BY <1>3, <2>1 DEF FitsNode, IsIntegerIn, isIntegral, isNumeric
<1>4. CASE m.type = "floating"
  <2>1. isNumeric(j) /\ Halves(asDouble(j)) \in -(2 * m.limit) .. 2 * m.limit
    BY <1>4 DEF assignScalar, assignFloating, Unless
  <2>2. Halves(j) \in -(2 * m.limit) .. 2 * m.limit
    BY <1>4, <2>1, DoubleOfNumber, FloatingKind, Widths DEF isNumeric
  <2> QED
    BY <1>4, <2>1, <2>2 DEF FitsNode
<1>5. CASE m.type \in {"string", "wstring"}
  BY <1>5 DEF assignScalar, assignString, Unless, FitsNode
<1>6. CASE m.type = "array"
  BY <1>6 DEF assignScalar, assignArray, Unless, FitsNode
<1>7. CASE m.type = "other"
  BY <1>7 DEF assignScalar
<1> QED
  BY <1>1, <1>2, <1>3, <1>4, <1>5, <1>6, <1>7, MemberKinds

\* What fits is assigned without an error.
LEMMA FittingIsAssigned ==
    ASSUME NEW m, IsMember(m), m.type # "message", NEW j \in Nodes, NEW undefined,
           FitsNode(m, j)
    PROVE  assignScalar(m, j, undefined) = {}
<1>1. CASE m.type = "bool"
  BY <1>1 DEF assignScalar, Unless, FitsNode
<1>2. CASE m.type = "signed"
  <2>1. /\ isNumeric(j) /\ (j.t = "real" => ~j.half)
        /\ j.v \in Signed(m.bits) /\ j.v \in Int64
    BY <1>2, MemberKinds DEF FitsNode, IsIntegerIn
  <2>2. isIntegral(j) /\ ~asInt64Throws(j)
    BY <2>1, Widths DEF isIntegral, isNumeric, asInt64Throws, Int64
  <2> QED
    BY <1>2, <2>1, <2>2 DEF assignScalar, assignSigned, Unless, asInt64
<1>3. CASE m.type = "unsigned"
  <2>1. /\ isNumeric(j) /\ (j.t = "real" => ~j.half)
        /\ j.v \in Unsigned(m.bits) /\ j.v \in 0 .. MaxUInt64AsDouble - 1
    BY <1>3, MemberKinds DEF FitsNode, IsIntegerIn
  <2>2. isIntegral(j) /\ ~(j.v < 0)
    BY <2>1, Widths DEF isIntegral, isNumeric
  <2> QED
    BY <1>3, <2>1, <2>2 DEF assignScalar, assignUnsigned, Unless
<1>4. CASE m.type = "floating"
  <2>1. isNumeric(j) /\ Halves(j) \in -(2 * m.limit) .. 2 * m.limit
    BY <1>4 DEF FitsNode
  <2>2. Halves(asDouble(j)) \in -(2 * m.limit) .. 2 * m.limit
    BY <1>4, <2>1, DoubleOfNumber, FloatingKind, Widths DEF isNumeric
  <2> QED
    BY <1>4, <2>1, <2>2 DEF assignScalar, assignFloating, Unless
<1>5. CASE m.type \in {"string", "wstring"}
  BY <1>5 DEF assignScalar, assignString, Unless, FitsNode
<1>6. CASE m.type = "array"
  BY <1>6 DEF assignScalar, assignArray, Unless, FitsNode
<1>7. CASE m.type = "other"
  BY <1>7 DEF FitsNode
<1> QED
  BY <1>1, <1>2, <1>3, <1>4, <1>5, <1>6, <1>7, MemberKinds

\* Only what is no number and texts change when they are written.
LEMMA WrittenAsItIs ==
    ASSUME NEW j, j.t \notin {"nan", "string"} \/ (j.t = "string" /\ j.utf8)
    PROVE  written(j) = j
<1>1. NotANumber.t = "nan"
  BY DEF NotANumber
<1>2. j # NotANumber
  BY <1>1
<1> QED
  BY <1>2 DEF written

\* What is assigned without an error is projected as the same value, but for one
\* double.
LEMMA AssignedIsSame ==
    ASSUME NEW m, IsMember(m), NEW j \in Nodes, j # OnlyLapse, NEW undefined,
           IF m.type = "message" THEN j.t = "object"
                                 ELSE assignScalar(m, j, undefined) = {}
    PROVE  SaysTheSame(m, j, written(scalarToJson(m, AssignedCell(m, j, undefined))))
<1> DEFINE x == AssignedCell(m, j, undefined)
<1>1. CASE m.type = "message"
  <2>1. j = Object /\ scalarToJson(m, x) = Object
    BY <1>1, NodeKinds DEF scalarToJson
  <2>2. written(Object) = Object
    BY WrittenAsItIs DEF Object
  <2> HIDE DEF x
  <2> QED
    BY <1>1, <2>1, <2>2 DEF SaysTheSame, x
<1>2. CASE m.type # "message"
  <2>1. FitsNode(m, j)
    BY <1>2, AssignedFits
  <2>2. CASE m.type = "signed"
    <3>1. IsIntegerIn(j, Signed(m.bits)) /\ j.v \in Int64
      BY <2>1, <2>2, MemberKinds DEF FitsNode, IsIntegerIn
    <3>2. scalarToJson(m, x) = Integer(j.v)
      BY <2>2, <3>1 DEF scalarToJson, AssignedCell, asInt64
    <3>3. IsIntegerIn(j, {Integer(j.v).v}) /\ written(Integer(j.v)) = Integer(j.v)
      BY <3>1, WrittenAsItIs DEF IsIntegerIn, Integer
    <3> QED
      BY <2>2, <3>2, <3>3 DEF SaysTheSame
  <2>3. CASE m.type = "unsigned"
    <3>1. IsIntegerIn(j, Unsigned(m.bits))
      BY <2>1, <2>3 DEF FitsNode
    <3>2. scalarToJson(m, x) = Integer(j.v)
      BY <2>3 DEF scalarToJson, AssignedCell
    <3>3. IsIntegerIn(j, {Integer(j.v).v}) /\ written(Integer(j.v)) = Integer(j.v)
      BY <3>1, WrittenAsItIs DEF IsIntegerIn, Integer
    <3> QED
      BY <2>3, <3>2, <3>3 DEF SaysTheSame
  <2>4. CASE m.type = "bool"
    <3>1. j.t = "bool"
      BY <2>1, <2>4 DEF FitsNode
    <3>2. j = Boolean(j.b) /\ written(j) = j
      BY <3>1, NodeKinds, WrittenAsItIs
    <3>3. scalarToJson(m, x) = Boolean(j.b)
      BY <2>4 DEF scalarToJson, AssignedCell
    <3> HIDE DEF x
    <3> QED
      BY <2>4, <3>2, <3>3 DEF SaysTheSame, x
  <2>5. CASE m.type = "floating"
    <3>1. isNumeric(j) /\ Halves(asDouble(j)) \in -(2 * m.limit) .. 2 * m.limit
      BY <1>2, <2>5 DEF assignScalar, assignFloating, Unless
    <3>2. x = Nearest(m.values, asDouble(j))
      BY <2>5 DEF AssignedCell
    <3> HIDE DEF x
    <3>3. IsNearest(m.values, asDouble(j), x) /\ x \in Doubles
      BY <2>5, <3>1, <3>2, FloatingAssigned
    <3>4. Doubles \subseteq [t : {"real"}, v : Int, half : BOOLEAN]
      BY RealKinds
    <3>5. scalarToJson(m, x) = x
      BY <2>5, <3>3, <3>4, NearestOfMember DEF scalarToJson
    <3>6. written(x) = x
      BY <3>3, <3>4, WrittenAsItIs
    <3> QED
      BY <2>5, <3>3, <3>5, <3>6 DEF SaysTheSame, x
  <2>6. CASE m.type = "array"
    <3>1. j.t = "array"
      BY <2>1, <2>6 DEF FitsNode
    <3>2. j = Array(j.size) /\ written(j) = j
      BY <3>1, NodeKinds, WrittenAsItIs
    <3>3. scalarToJson(m, x) = Array(j.size)
      BY <2>6 DEF scalarToJson, AssignedCell, Items
    <3> HIDE DEF x
    <3> QED
      BY <2>6, <3>2, <3>3 DEF SaysTheSame, x
  <2>7. CASE m.type \in {"string", "wstring"}
    <3>1. j.t = "string"
      BY <2>1, <2>7 DEF FitsNode
    <3>2. scalarToJson(m, x) = j
      BY <2>7 DEF scalarToJson, AssignedCell
    <3>3. IF j.utf8 THEN written(j) = j ELSE written(j).t = "string"
      <4>1. j # NotANumber
        BY <3>1 DEF NotANumber
      <4>2. \A n, ascii : Text(n, ascii).t = "string"
        BY DEF Text, String
      <4> QED
        BY <3>1, <4>1, <4>2 DEF written
    <3> HIDE DEF x
    <3> QED
      BY <2>7, <3>2, <3>3 DEF SaysTheSame, x
  <2>8. m.type # "other"
    BY <2>1 DEF FitsNode
  <2> QED
    BY <1>2, <2>2, <2>3, <2>4, <2>5, <2>6, <2>7, <2>8, MemberKinds
<1> QED
  BY <1>1, <1>2

\* A cell of its type is projected as what is assigned back to the same cell,
\* unless JSON has no word for it.
LEMMA ProjectedIsAssigned ==
    ASSUME NEW m, IsMember(m), NEW x, WellTypedCell(m, x), NEW undefined,
           scalarErrors(m, x) = {}, ~NotInJson(m, x)
    PROVE  /\ m.type # "message" =>
                assignScalar(m, written(scalarToJson(m, x)), undefined) = {}
           /\ AssignedCell(m, written(scalarToJson(m, x)), undefined) = x
<1> DEFINE j == scalarToJson(m, x)
<1>1. CASE m.type = "message"
  BY <1>1 DEF WellTypedCell, AssignedCell
<1>2. CASE m.type = "signed"
  <2>1. x \in Signed(m.bits) /\ x \in Int64
    BY <1>2, MemberKinds DEF WellTypedCell
  <2>2. j = Integer(x)
    BY <1>2 DEF scalarToJson
  <2> HIDE DEF j
  <2>3. j.t = "integer" /\ j.v = x
    BY <2>2 DEF Integer
  <2>4. isIntegral(j) /\ ~asInt64Throws(j) /\ asInt64(j, undefined) = x
    BY <2>1, <2>3 DEF isIntegral, asInt64Throws, asInt64
  <2>5. written(j) = j
    BY <2>3, WrittenAsItIs
  <2>6. assignScalar(m, j, undefined) = {} /\ AssignedCell(m, j, undefined) = x
    BY <1>2, <2>1, <2>4 DEF assignScalar, assignSigned, AssignedCell, Unless
  <2> QED
    BY <2>5, <2>6 DEF j
<1>3. CASE m.type = "unsigned"
  <2>1. x \in Unsigned(m.bits) /\ x \in 0 .. MaxUInt64AsDouble - 1
    BY <1>3, MemberKinds DEF WellTypedCell
  <2>2. j = Integer(x)
    BY <1>3 DEF scalarToJson
  <2> HIDE DEF j
  <2>3. j.t = "integer" /\ j.v = x
    BY <2>2 DEF Integer
  <2>4. isIntegral(j) /\ ~(j.v < 0)
    BY <2>1, <2>3, Widths DEF isIntegral
  <2>5. written(j) = j
    BY <2>3, WrittenAsItIs
  <2>6. assignScalar(m, j, undefined) = {} /\ AssignedCell(m, j, undefined) = x
    BY <1>3, <2>1, <2>3, <2>4 DEF assignScalar, assignUnsigned, AssignedCell, Unless
  <2> QED
    BY <2>5, <2>6 DEF j
<1>4. CASE m.type = "bool"
  <2>1. x \in BOOLEAN /\ j = Boolean(x)
    BY <1>4 DEF WellTypedCell, scalarToJson
  <2> HIDE DEF j
  <2>2. j.t = "bool" /\ j.b = x
    BY <2>1 DEF Boolean
  <2>3. written(j) = j
    BY <2>2, WrittenAsItIs
  <2>4. assignScalar(m, j, undefined) = {} /\ AssignedCell(m, j, undefined) = x
    BY <1>4, <2>2 DEF assignScalar, AssignedCell, Unless
  <2> QED
    BY <2>3, <2>4 DEF j
<1>5. CASE m.type = "floating"
  <2>1. m.long => WithinDoubles(x)
    BY <1>5 DEF scalarErrors, Unless
  <2>2. x \notin NonFinite
    BY <1>5, <2>1, FloatingKind DEF NotInJson, WithinDoubles
  <2>3. x \in m.values
    BY <1>5, <2>2 DEF WellTypedCell
  <2>4. x \in Doubles
    BY <1>5, <2>1, <2>3, FloatingKind DEF NotInJson
  <2>5. Doubles \subseteq [t : {"real"}, v : Int, half : BOOLEAN]
    BY RealKinds
  <2>6. Nearest(Doubles, x) = x /\ Nearest(m.values, x) = x
    BY <1>5, <2>3, <2>4, <2>5, FloatingKind, NearestOfMember
  <2>7. j = x
    BY <1>5, <2>6 DEF scalarToJson
  <2>8. x.t = "real" /\ written(x) = x
    BY <2>4, <2>5, WrittenAsItIs
  <2>9. isNumeric(x) /\ asDouble(x) = x
    BY <2>8 DEF isNumeric, asDouble
  <2>10. Halves(x) \in -(2 * m.limit) .. 2 * m.limit
    BY <1>5, <2>3, FloatingKind
  <2> HIDE DEF j
  <2>11. assignScalar(m, x, undefined) = {}
    BY <1>5, <2>9, <2>10 DEF assignScalar, assignFloating, Unless
  <2>12. AssignedCell(m, x, undefined) = x
    BY <1>5, <2>6, <2>9 DEF AssignedCell
  <2> QED
    BY <2>7, <2>8, <2>11, <2>12 DEF j
<1>6. CASE m.type \in {"string", "wstring"}
  <2>1. /\ x \in Strings /\ (m.bound # 0 => x.bytes <= m.bound)
        /\ m.type = "wstring" => x.ascii
    BY <1>6 DEF WellTypedCell, scalarErrors, Unless
  <2>2. x.t = "string" /\ (x.ascii => x.utf8)
    BY <2>1 DEF Strings
  <2>3. x.utf8
    BY <1>6, <2>1, <2>2 DEF NotInJson
  <2>4. j = x /\ written(x) = x
    BY <1>6, <2>2, <2>3, WrittenAsItIs DEF scalarToJson
  <2> HIDE DEF j
  <2>5. assignScalar(m, x, undefined) = {} /\ AssignedCell(m, x, undefined) = x
    BY <1>6, <2>1, <2>2 DEF assignScalar, assignString, AssignedCell, Unless
  <2> QED
    BY <2>4, <2>5 DEF j
<1>7. CASE m.type = "array"
  <2>1. /\ x \in [t : {"items"}, size : Nat]
        /\ m.array = "fixed" => x.size = m.size
        /\ m.array = "bounded" => x.size <= m.size
    BY <1>7 DEF WellTypedCell
  <2>2. j = Array(x.size)
    BY <1>7 DEF scalarToJson
  <2> HIDE DEF j
  <2>3. j.t = "array" /\ j.size = x.size
    BY <2>2 DEF Array
  <2>4. x = Items(x.size)
    BY <2>1 DEF Items
  <2>5. written(j) = j
    BY <2>3, WrittenAsItIs
  <2>6. assignScalar(m, j, undefined) = {} /\ AssignedCell(m, j, undefined) = x
    BY <1>7, <2>1, <2>3, <2>4 DEF assignScalar, assignArray, AssignedCell, Unless
  <2> QED
    BY <2>5, <2>6 DEF j
<1>8. m.type # "other"
  BY DEF scalarErrors
<1> QED
  BY <1>1, <1>2, <1>3, <1>4, <1>5, <1>6, <1>7, <1>8, MemberKinds

------------------------------------------------------------------------------
(***************************************************************************)
(* Trees.                                                                  *)
(***************************************************************************)
LEMMA TypeAbove ==
    ASSUME NEW T, IsType(T), NEW p \in Paths, Shape(p) \in DOMAIN T
    PROVE  /\ IsMember(T[Shape(p)])
           /\ \A k \in DOMAIN p :
                /\ Shape(Above(p, k)) \in DOMAIN T
                /\ T[Shape(Above(p, k))].type =
                     IF p[k].index = 0 THEN "message" ELSE "array"
<1>1. IsMember(T[Shape(p)])
  BY DEF IsType
<1>2. ASSUME NEW k \in DOMAIN p
      PROVE  /\ Shape(Above(p, k)) \in DOMAIN T
             /\ T[Shape(Above(p, k))].type =
                  IF p[k].index = 0 THEN "message" ELSE "array"
  <2>1. Shape(Above(p, k)) = Above(Shape(p), k) /\ k \in DOMAIN Shape(p)
    BY AbovePath
  <2>2. Shape(p)[k] = IF p[k].index = 0 THEN p[k] ELSE Item(1)
    BY ChildShape
  <2>3. /\ Above(Shape(p), k) \in DOMAIN T
        /\ \/ T[Above(Shape(p), k)].type = "message" /\ Shape(p)[k].index = 0
           \/ T[Above(Shape(p), k)].type = "array" /\ Shape(p)[k] = Item(1)
    BY <2>1 DEF IsType
  <2>4. Item(1).index = 1
    BY DEF Item
  <2> QED
    BY <2>1, <2>2, <2>3, <2>4
<1> QED
  BY <1>1, <1>2

LEMMA DocumentAbove ==
    ASSUME NEW doc, IsDocument(doc), NEW p \in DOMAIN doc
    PROVE  /\ p \in Paths /\ doc[p] \in Nodes
           /\ \A k \in DOMAIN p :
                /\ Above(p, k) \in DOMAIN doc
                /\ Prefix(p, k) \in DOMAIN doc
                /\ \/ doc[Above(p, k)].t = "object" /\ p[k].index = 0
                   \/ /\ doc[Above(p, k)].t = "array" /\ p[k].index # 0
                      /\ p[k].index \in 1 .. doc[Above(p, k)].size
<1>1. p \in Paths /\ doc[p] \in Nodes
  BY DEF IsDocument
<1>2. ASSUME NEW k \in DOMAIN p
      PROVE  /\ Above(p, k) \in DOMAIN doc
             /\ \/ doc[Above(p, k)].t = "object" /\ p[k].index = 0
                \/ /\ doc[Above(p, k)].t = "array"
                   /\ p[k].index \in 1 .. doc[Above(p, k)].size
  BY DEF IsDocument
<1>3. ASSUME NEW k \in DOMAIN p
      PROVE  Prefix(p, k) \in DOMAIN doc
  BY <1>1, <1>2, AbovePath
<1> QED
  BY <1>1, <1>2, <1>3

\* A document that is taken is below the type, without an error at any node.
LEMMA TakenEverywhere ==
    ASSUME NEW T, IsType(T), NEW doc, IsDocument(doc), NEW undefined,
           assignErrors(T, doc, undefined) = {}, NEW p \in DOMAIN doc
    PROVE  Shape(p) \in DOMAIN T /\ assignMember(T, doc, p, undefined) = {}
<1> DEFINE Taken == {q \in DOMAIN doc : /\ Shape(q) \in DOMAIN T
                                        /\ assignMember(T, doc, q, undefined) = {}}
<1>1. ASSUME NEW q \in DOMAIN doc,
             \A k \in DOMAIN q : assignMember(T, doc, Above(q, k), undefined) = {}
      PROVE  assignMember(T, doc, q, undefined) = {}
  <2>1. q \in Reached(T, doc, undefined)
    BY <1>1 DEF Reached
  <2> QED
    BY <2>1 DEF assignErrors
<1>2. Root \in Taken
  <2>1. Root \in DOMAIN doc /\ Root \in DOMAIN T
    BY DEF IsDocument, IsType
  <2>2. assignMember(T, doc, Root, undefined) = {}
    BY <1>1, <2>1, RootPath
  <2> QED
    BY <2>1, <2>2, RootPath
<1>3. ASSUME NEW k \in DOMAIN p, \A i \in 1 .. k : Above(p, i) \in Taken
      PROVE  Prefix(p, k) \in Taken
  <2> DEFINE q == Prefix(p, k)
             a == Above(p, k)
  <2>1. p \in Paths /\ q \in DOMAIN doc
    BY DocumentAbove
  <2>2. /\ k \in 1 .. k /\ q \in Paths /\ DOMAIN q = 1 .. k
        /\ \A i \in 1 .. k : Above(q, i) = Above(p, i)
        /\ q[k] = p[k]
    BY <2>1, AbovePath
  <2>3. assignMember(T, doc, q, undefined) = {}
    BY <1>1, <1>3, <2>1, <2>2
  <2>4. /\ a \in DOMAIN doc /\ Shape(a) \in DOMAIN T
        /\ assignMember(T, doc, a, undefined) = {}
        /\ doc[a] \in Nodes
    BY <1>3, <2>2, DocumentAbove
  <2>5. IsMember(T[Shape(a)])
    BY <2>4 DEF IsType
  <2>6. \/ doc[a].t = "object" /\ p[k].index = 0
        \/ doc[a].t = "array" /\ p[k].index # 0
    BY DocumentAbove
  <2>7. Shape(q) \in DOMAIN T
    <3>1. CASE T[Shape(a)].type = "message"
      <4>1. assignMessage(T, doc, a) = {}
        BY <2>4, <3>1 DEF assignMember
      <4>2. \A r \in DOMAIN doc : \A i \in DOMAIN r :
               Above(r, i) = a => Shape(Prefix(r, i)) \in DOMAIN T
        BY <4>1 DEF assignMessage, Unless
      <4> QED
        BY <4>2
    <3>2. CASE T[Shape(a)].type = "array"
      <4>1. doc[a].t = "array"
        BY <2>4, <3>2 DEF assignMember, assignScalar, assignArray, Unless
      <4>2. Shape(q) = Append(Shape(a), Item(1))
        BY <2>1, <2>6, <4>1, ChildShape
      <4> QED
        BY <2>4, <3>2, <4>2 DEF IsType
    <3>3. CASE T[Shape(a)].type \notin {"message", "array"}
      <4>1. assignScalar(T[Shape(a)], doc[a], undefined) = {}
        BY <2>4, <3>3 DEF assignMember
      <4>2. doc[a].t \notin {"object", "array"}
        BY <2>5, <3>3, <4>1, MemberKinds
        DEF assignScalar, assignSigned, assignUnsigned, assignFloating,
            assignString,
            isIntegral, isNumeric, Unless
      <4> QED
        BY <2>6, <4>2
    <3> QED
      BY <3>1, <3>2, <3>3
  <2> QED
    BY <2>1, <2>3, <2>7
<1> HIDE DEF Taken
<1>4. p \in Paths
  BY DocumentAbove
<1>5. p \in Taken
  BY <1>2, <1>3, <1>4, AlongPath
<1> QED
  BY <1>5 DEF Taken

\* The places of a decoded message.
LEMMA DecodedPlaces ==
    ASSUME NEW T, IsType(T), NEW doc, NEW undefined
    PROVE  /\ HasItsPlaces(T, messageFromJson(T, doc, undefined))
           /\ \A p \in DOMAIN messageFromJson(T, doc, undefined) :
                /\ Shape(p) \in DOMAIN T
                /\ messageFromJson(T, doc, undefined)[p] = CellAt(T, doc, p, undefined)
<1> DEFINE M == messageFromJson(T, doc, undefined)
           Sized(p, k) == p[k].index # 0 =>
                            p[k].index <= CellAt(T, doc, Above(p, k), undefined).size
           Places == {p \in Paths : Shape(p) \in DOMAIN T /\ \A k \in DOMAIN p : Sized(p, k)}
<1>1. DOMAIN M = Places /\ \A p \in Places : M[p] = CellAt(T, doc, p, undefined)
  BY DEF messageFromJson
<1>2. ASSUME NEW p \in Places, NEW k \in DOMAIN p
      PROVE  Above(p, k) \in Places
  <2>1. p \in Paths /\ Shape(p) \in DOMAIN T
    OBVIOUS
  <2>2. Above(p, k) \in Paths /\ Shape(Above(p, k)) \in DOMAIN T
    BY <2>1, AbovePath, TypeAbove
  <2>3. ASSUME NEW i \in DOMAIN Above(p, k)
        PROVE  Sized(Above(p, k), i)
    <3>1. /\ i \in DOMAIN p /\ Above(p, k)[i] = p[i]
          /\ Above(Above(p, k), i) = Above(p, i)
      BY <2>1, AbovePath
    <3> QED
      BY <3>1
  <2> QED
    BY <2>2, <2>3
<1> HIDE DEF M
<1>3. ASSUME NEW p \in Places
      PROVE  \A k \in DOMAIN p : /\ Above(p, k) \in DOMAIN M
                                 /\ p[k].index # 0 => p[k].index <= M[Above(p, k)].size
  BY <1>1, <1>2
<1>4. ASSUME NEW p \in Paths, Shape(p) \in DOMAIN T,
             \A k \in DOMAIN p : /\ Above(p, k) \in DOMAIN M
                                 /\ p[k].index # 0 => p[k].index <= M[Above(p, k)].size
      PROVE  p \in Places
  BY <1>1, <1>4
<1>5. HasItsPlaces(T, M)
  BY <1>1, <1>3, <1>4 DEF HasItsPlaces
<1> QED
  BY <1>1, <1>5 DEF M

LEMMA TakenNode ==
    ASSUME NEW T, IsType(T), NEW doc, IsDocument(doc), NEW undefined,
           assignErrors(T, doc, undefined) = {}, NEW p \in DOMAIN doc
    PROVE  /\ p \in Paths /\ doc[p] \in Nodes
           /\ Shape(p) \in DOMAIN T /\ IsMember(T[Shape(p)])
           /\ IF T[Shape(p)].type = "message" THEN doc[p].t = "object"
              ELSE assignScalar(T[Shape(p)], doc[p], undefined) = {}
<1>1. p \in Paths /\ doc[p] \in Nodes
  BY DocumentAbove
<1>2. Shape(p) \in DOMAIN T /\ assignMember(T, doc, p, undefined) = {}
  BY TakenEverywhere
<1>3. IsMember(T[Shape(p)])
  BY <1>2 DEF IsType
<1> QED
  BY <1>1, <1>2, <1>3 DEF assignMember, assignMessage

\* The message of a document that is taken has a place for each of its nodes,
\* and is one of its type.
LEMMA TakenIsTyped ==
    ASSUME NEW T, IsType(T), NEW doc, IsDocument(doc), NEW undefined,
           assignErrors(T, doc, undefined) = {}
    PROVE  /\ DOMAIN doc \subseteq DOMAIN messageFromJson(T, doc, undefined)
           /\ WellTyped(T, messageFromJson(T, doc, undefined))
<1> DEFINE M == messageFromJson(T, doc, undefined)
<1>1. /\ HasItsPlaces(T, M)
      /\ \A p \in DOMAIN M : /\ Shape(p) \in DOMAIN T
                             /\ M[p] = CellAt(T, doc, p, undefined)
  BY DecodedPlaces
<1>2. ASSUME NEW p \in DOMAIN doc
      PROVE  p \in DOMAIN M
  <2>1. p \in Paths /\ Shape(p) \in DOMAIN T
    BY TakenNode
  <2>2. ASSUME NEW k \in DOMAIN p, p[k].index # 0
        PROVE  p[k].index <= CellAt(T, doc, Above(p, k), undefined).size
    <3>1. /\ Above(p, k) \in DOMAIN doc
          /\ p[k].index \in 1 .. doc[Above(p, k)].size
          /\ doc[Above(p, k)].t = "array" /\ doc[Above(p, k)] \in Nodes
      BY <2>2, DocumentAbove
    <3>2. T[Shape(Above(p, k))].type = "array"
      BY <2>1, <2>2, TypeAbove
    <3>3. CellAt(T, doc, Above(p, k), undefined).size = doc[Above(p, k)].size
      BY <3>1, <3>2 DEF CellAt, AssignedCell, Items
    <3>4. doc[Above(p, k)].size \in Nat
      BY <3>1, NodeKinds
    <3> QED
      BY <3>1, <3>3, <3>4
  <2> QED
    BY <2>1, <2>2 DEF messageFromJson
<1>3. ASSUME NEW p \in DOMAIN M
      PROVE  WellTypedCell(T[Shape(p)], M[p])
  <2>1. IsMember(T[Shape(p)])
    BY <1>1 DEF IsType
  <2>2. CASE p \in DOMAIN doc
    <3>1. M[p] = AssignedCell(T[Shape(p)], doc[p], undefined)
      BY <1>1, <2>2 DEF CellAt
    <3>2. CASE T[Shape(p)].type = "message"
      BY <3>1, <3>2 DEF AssignedCell, WellTypedCell
    <3>3. CASE T[Shape(p)].type # "message"
      BY <2>2, <3>1, <3>3, TakenNode, AssignedIsTyped
    <3> QED
      BY <3>2, <3>3
  <2>3. CASE p \notin DOMAIN doc
    <3>1. M[p] = InitialCell(T, p) /\ p \in Paths /\ Shape(p) \in DOMAIN T
      BY <1>1, <2>3 DEF CellAt, HasItsPlaces
    <3>2. ASSUME NEW k \in DOMAIN p, p[k].index # 0, DOMAIN p = 1 .. k
          PROVE  p[k].index \in 1 .. T[Shape(Above(p, k))].initial
      <4> DEFINE a == Above(p, k)
      <4>1. /\ a \in DOMAIN M /\ p[k].index <= M[a].size
            /\ M[a] = CellAt(T, doc, a, undefined)
        BY <1>1, <3>1, <3>2 DEF HasItsPlaces
      <4>2. T[Shape(a)].type = "array" /\ Shape(a) \in DOMAIN T
        BY <3>1, <3>2, TypeAbove
      <4>3. p[k].index \in Nat /\ p[k].index > 0 /\ p[k] = Item(p[k].index)
        <5>1. p[k] \in Steps
          BY <3>1, AbovePath
        <5> QED
          BY <3>2, <5>1, StepKinds
      <4>4. a \notin DOMAIN doc
        <5> SUFFICES ASSUME a \in DOMAIN doc PROVE FALSE
          OBVIOUS
        <5>1. doc[a].t = "array" /\ doc[a] \in Nodes
          BY <4>2, TakenNode DEF assignScalar, assignArray, Unless
        <5>2. M[a].size = doc[a].size /\ doc[a].size \in Nat
          BY <4>1, <4>2, <5>1, NodeKinds DEF CellAt, AssignedCell, Items
        <5>3. p[k].index \in 1 .. doc[a].size
          BY <4>1, <4>3, <5>2
        <5>4. Append(a, Item(p[k].index)) \in DOMAIN doc
          BY <5>1, <5>3 DEF IsDocument
        <5>5. Append(a, p[k]) = p
          BY <3>1, <3>2, LastStep
        <5> QED
          BY <2>3, <4>3, <5>4, <5>5
      <4>5. M[a].size = T[Shape(a)].initial
        BY <4>1, <4>2, <4>4 DEF CellAt, InitialCell, Items
      <4>6. T[Shape(a)].initial \in Nat
        <5>1. HasDefault(T, Shape(a))
          BY <4>2 DEF IsType
        <5>2. T[Shape(a)].initial \in 0 .. MaxItems
          BY <4>2, <5>1 DEF HasDefault
        <5> QED
          BY <5>2, SizesAssumption
      <4> QED
        BY <4>1, <4>3, <4>5, <4>6
    <3> QED
      BY <3>1, <3>2, InitialIsTyped
  <2> QED
    BY <2>2, <2>3
<1> QED
  BY <1>1, <1>2, <1>3 DEF WellTyped

\* A document is taken without an error exactly if it fits, but for one double.
LEMMA TakenFits ==
    ASSUME NEW T, IsType(T), NEW doc, IsDocument(doc), NEW undefined,
           assignErrors(T, doc, undefined) = {}, ~Mentions(doc, {OnlyLapse})
    PROVE  Fits(T, doc)
<1> SUFFICES ASSUME NEW p \in DOMAIN doc
             PROVE  Shape(p) \in DOMAIN T /\ FitsNode(T[Shape(p)], doc[p])
  BY DEF Fits
<1>1. doc[p] # OnlyLapse
  BY DEF Mentions
<1>2. CASE T[Shape(p)].type = "message"
  BY <1>2, TakenNode DEF FitsNode
<1>3. CASE T[Shape(p)].type # "message"
  BY <1>1, <1>3, TakenNode, AssignedFits
<1> QED
  BY <1>2, <1>3, TakenNode

LEMMA FittingIsTaken ==
    ASSUME NEW T, IsType(T), NEW doc, IsDocument(doc), NEW undefined, Fits(T, doc)
    PROVE  assignErrors(T, doc, undefined) = {}
<1>1. ASSUME NEW p \in DOMAIN doc
      PROVE  assignMember(T, doc, p, undefined) = {}
  <2>1. /\ Shape(p) \in DOMAIN T /\ FitsNode(T[Shape(p)], doc[p])
        /\ IsMember(T[Shape(p)]) /\ doc[p] \in Nodes
    BY DocumentAbove DEF Fits, IsType
  <2>2. CASE T[Shape(p)].type = "message"
    <3>1. doc[p].t = "object"
      BY <2>1, <2>2 DEF FitsNode
    <3>2. \A q \in DOMAIN doc : \A k \in DOMAIN q : Shape(Prefix(q, k)) \in DOMAIN T
      BY DocumentAbove DEF Fits
    <3> QED
      BY <2>2, <3>1, <3>2 DEF assignMember, assignMessage, Unless
  <2>3. CASE T[Shape(p)].type # "message"
    BY <2>1, <2>3, FittingIsAssigned DEF assignMember
  <2> QED
    BY <2>2, <2>3
<1>2. Reached(T, doc, undefined) \subseteq DOMAIN doc
  BY DEF Reached
<1> QED
  BY <1>1, <1>2 DEF assignErrors

\* The JSON of a message has its places.
LEMMA WrittenPlaces ==
    ASSUME NEW T, IsType(T), NEW M, HasItsPlaces(T, M)
    PROVE  /\ DOMAIN writeJson(messageToJson(T, M)) = DOMAIN M
           /\ HasItsPlaces(T, writeJson(messageToJson(T, M)))
           /\ \A p \in DOMAIN M :
                /\ writeJson(messageToJson(T, M))[p] = written(scalarToJson(T[Shape(p)], M[p]))
                /\ \A k \in DOMAIN p :
                     p[k].index # 0 =>
                        writeJson(messageToJson(T, M))[Above(p, k)] = Array(M[Above(p, k)].size)
<1> DEFINE J == writeJson(messageToJson(T, M))
<1>1. DOMAIN J = DOMAIN M /\ \A p \in DOMAIN M : J[p] = written(scalarToJson(T[Shape(p)], M[p]))
  BY DEF messageToJson, writeJson
<1> HIDE DEF J
<1>2. ASSUME NEW p \in Paths, Shape(p) \in DOMAIN T, NEW k \in DOMAIN p,
             Above(p, k) \in DOMAIN M, p[k].index # 0
      PROVE  J[Above(p, k)] = Array(M[Above(p, k)].size)
  <2>1. T[Shape(Above(p, k))].type = "array"
    BY <1>2, TypeAbove
  <2>2. scalarToJson(T[Shape(Above(p, k))], M[Above(p, k)]) = Array(M[Above(p, k)].size)
    BY <2>1 DEF scalarToJson
  <2>3. \A n : written(Array(n)) = Array(n)
    BY WrittenAsItIs DEF Array
  <2> QED
    BY <1>1, <1>2, <2>2, <2>3
<1>3. \A n : Array(n).size = n
  BY DEF Array
<1>4. ASSUME NEW p \in Paths
      PROVE  p \in DOMAIN J <=>
               /\ Shape(p) \in DOMAIN T
               /\ \A k \in DOMAIN p :
                    /\ Above(p, k) \in DOMAIN J
                    /\ p[k].index # 0 => p[k].index <= J[Above(p, k)].size
  <2>1. p \in DOMAIN M <=>
          /\ Shape(p) \in DOMAIN T
          /\ \A k \in DOMAIN p :
               /\ Above(p, k) \in DOMAIN M
               /\ p[k].index # 0 => p[k].index <= M[Above(p, k)].size
    BY DEF HasItsPlaces
  <2> QED
    BY <1>1, <1>2, <1>3, <2>1
<1>5. HasItsPlaces(T, J)
  BY <1>1, <1>4 DEF HasItsPlaces
<1>6. ASSUME NEW p \in DOMAIN M, NEW k \in DOMAIN p, p[k].index # 0
      PROVE  J[Above(p, k)] = Array(M[Above(p, k)].size)
  <2>1. p \in Paths
    BY DEF HasItsPlaces
  <2>2. Shape(p) \in DOMAIN T /\ Above(p, k) \in DOMAIN M
    BY <2>1 DEF HasItsPlaces
  <2> QED
    BY <1>2, <1>6, <2>1, <2>2
<1> QED
  BY <1>1, <1>5, <1>6 DEF J

\* The projection of what was taken is the document, with the defaults of what
\* it left out.
LEMMA TakenRoundTrips ==
    ASSUME NEW T, IsType(T), NEW doc, IsDocument(doc), NEW undefined,
           assignErrors(T, doc, undefined) = {}, ~Mentions(doc, {OnlyLapse}),
           NEW J, J = writeJson(messageToJson(T, messageFromJson(T, doc, undefined)))
    PROVE  /\ HasItsPlaces(T, J)
           /\ DOMAIN doc \subseteq DOMAIN J
           /\ \A p \in DOMAIN J :
                IF p \in DOMAIN doc
                THEN SaysTheSame(T[Shape(p)], doc[p], J[p])
                ELSE J[p] = written(scalarToJson(T[Shape(p)], InitialCell(T, p)))
<1> DEFINE M == messageFromJson(T, doc, undefined)
<1>1. WellTyped(T, M) /\ DOMAIN doc \subseteq DOMAIN M
  BY TakenIsTyped
<1>2. \A p \in DOMAIN M : M[p] = CellAt(T, doc, p, undefined)
  BY DecodedPlaces
<1> HIDE DEF M
<1>3. /\ DOMAIN J = DOMAIN M /\ HasItsPlaces(T, J)
      /\ \A p \in DOMAIN M : J[p] = written(scalarToJson(T[Shape(p)], M[p]))
  BY <1>1, WrittenPlaces DEF WellTyped, M
<1>4. ASSUME NEW p \in DOMAIN doc
      PROVE  SaysTheSame(T[Shape(p)], doc[p], J[p])
  <2>1. J[p] = written(scalarToJson(T[Shape(p)],
                                    AssignedCell(T[Shape(p)], doc[p], undefined)))
    BY <1>1, <1>2, <1>3 DEF CellAt
  <2>2. doc[p] # OnlyLapse
    BY DEF Mentions
  <2> QED
    BY <2>1, <2>2, TakenNode, AssignedIsSame
<1>5. ASSUME NEW p \in DOMAIN J, p \notin DOMAIN doc
      PROVE  J[p] = written(scalarToJson(T[Shape(p)], InitialCell(T, p)))
  BY <1>2, <1>3, <1>5 DEF CellAt
<1> QED
  BY <1>1, <1>3, <1>4, <1>5

\* The projection of a message is taken for a message with the same places, and at
\* each place for the same cell, unless JSON has no word for it.
LEMMA ProjectedReadsBack ==
    ASSUME NEW T, IsType(T), NEW M, WellTyped(T, M),
           projectionErrors(T, M) = {}, NEW undefined
    PROVE  LET J == writeJson(messageToJson(T, M))
               N == messageFromJson(T, J, undefined)
           IN  /\ DOMAIN N = DOMAIN M
               /\ \A p \in DOMAIN M :
                    \/ NotInJson(T[Shape(p)], M[p])
                    \/ assignMember(T, J, p, undefined) = {} /\ N[p] = M[p]
<1> DEFINE J == writeJson(messageToJson(T, M))
           N == messageFromJson(T, J, undefined)
<1>1. HasItsPlaces(T, M)
  BY DEF WellTyped
<1>2. /\ DOMAIN J = DOMAIN M
      /\ \A p \in DOMAIN M :
           /\ J[p] = written(scalarToJson(T[Shape(p)], M[p]))
           /\ \A k \in DOMAIN p :
                p[k].index # 0 => J[Above(p, k)] = Array(M[Above(p, k)].size)
  BY <1>1, WrittenPlaces
<1>3. ASSUME NEW p \in DOMAIN M
      PROVE  /\ p \in Paths /\ Shape(p) \in DOMAIN T /\ IsMember(T[Shape(p)])
             /\ \A k \in DOMAIN p : Above(p, k) \in DOMAIN M
  BY <1>1 DEF HasItsPlaces, IsType
<1> HIDE DEF J
<1>4. ASSUME NEW p \in DOMAIN M, ~NotInJson(T[Shape(p)], M[p])
      PROVE  /\ T[Shape(p)].type # "message" =>
                  assignScalar(T[Shape(p)], J[p], undefined) = {}
             /\ AssignedCell(T[Shape(p)], J[p], undefined) = M[p]
  <2>1. scalarErrors(T[Shape(p)], M[p]) = {}
    BY DEF projectionErrors
  <2>2. WellTypedCell(T[Shape(p)], M[p])
    BY DEF WellTyped
  <2> QED
    BY <1>2, <1>3, <1>4, <2>1, <2>2, ProjectedIsAssigned
<1>5. ASSUME NEW p \in DOMAIN M, ~NotInJson(T[Shape(p)], M[p])
      PROVE  assignMember(T, J, p, undefined) = {}
  <2>1. CASE T[Shape(p)].type = "message"
    <3>1. J[p].t = "object"
      <4>1. scalarToJson(T[Shape(p)], M[p]) = Object
        BY <2>1 DEF scalarToJson
      <4>2. written(Object) = Object
        BY WrittenAsItIs DEF Object
      <4> QED
        BY <1>2, <4>1, <4>2 DEF Object
    <3>2. ASSUME NEW q \in DOMAIN J, NEW k \in DOMAIN q
          PROVE  Shape(Prefix(q, k)) \in DOMAIN T
      <4>1. q \in Paths /\ Shape(q) \in DOMAIN T
        BY <1>2, <1>3
      <4>2. Prefix(q, k) = q \/ (k + 1 \in DOMAIN q /\ Prefix(q, k) = Above(q, k + 1))
        BY <4>1, AbovePath
      <4> QED
        BY <4>1, <4>2, TypeAbove
    <3> QED
      BY <2>1, <3>1, <3>2 DEF assignMember, assignMessage, Unless
  <2>2. CASE T[Shape(p)].type # "message"
    BY <1>4, <1>5, <2>2 DEF assignMember
  <2> QED
    BY <2>1, <2>2
<1>6. /\ HasItsPlaces(T, N)
      /\ \A p \in DOMAIN N : N[p] = CellAt(T, J, p, undefined)
  BY DecodedPlaces
<1> HIDE DEF N
<1>7. \A p \in DOMAIN M \cap DOMAIN N : NotInJson(T[Shape(p)], M[p]) \/ N[p] = M[p]
  BY <1>2, <1>4, <1>6 DEF CellAt
<1>8. ASSUME NEW p \in Paths, Shape(p) \in DOMAIN T, NEW k \in DOMAIN p, p[k].index # 0,
             Above(p, k) \in DOMAIN M \cap DOMAIN N
      PROVE  N[Above(p, k)] = M[Above(p, k)]
  <2>1. T[Shape(Above(p, k))].type = "array"
    BY <1>8, TypeAbove
  <2>2. ~NotInJson(T[Shape(Above(p, k))], M[Above(p, k)])
    BY <2>1 DEF NotInJson
  <2> QED
    BY <1>7, <1>8, <2>2
<1>9. DOMAIN N = DOMAIN M
  <2>1. ASSUME NEW p \in Paths,
               \A i \in DOMAIN p : Above(p, i) \in DOMAIN M \cap DOMAIN N
        PROVE  p \in DOMAIN M <=> p \in DOMAIN N
    BY <1>1, <1>6, <1>8, <2>1 DEF HasItsPlaces
  <2>2. ASSUME NEW p \in Paths, p \in DOMAIN M \/ p \in DOMAIN N
        PROVE  p \in DOMAIN M \cap DOMAIN N
    <3> DEFINE Both == DOMAIN M \cap DOMAIN N
    <3>1. Root \in Both
      <4>1. Root \in DOMAIN T
        BY DEF IsType
      <4> QED
        BY <1>1, <1>6, <4>1, RootPath DEF HasItsPlaces
    <3>2. \A k \in DOMAIN p : /\ Above(p, k) \in DOMAIN M \/ Above(p, k) \in DOMAIN N
                              /\ Prefix(p, k) \in DOMAIN M \/ Prefix(p, k) \in DOMAIN N
      <4> TAKE k \in DOMAIN p
      <4>1. \A i \in DOMAIN p : Above(p, i) \in DOMAIN M \/ Above(p, i) \in DOMAIN N
        BY <1>1, <1>6, <2>2 DEF HasItsPlaces
      <4>2. Prefix(p, k) = p \/ (k + 1 \in DOMAIN p /\ Prefix(p, k) = Above(p, k + 1))
        BY AbovePath
      <4> QED
        BY <2>2, <4>1, <4>2
    <3>3. ASSUME NEW k \in DOMAIN p, \A i \in 1 .. k : Above(p, i) \in Both
          PROVE  Prefix(p, k) \in Both
      <4>1. /\ Prefix(p, k) \in Paths /\ DOMAIN Prefix(p, k) = 1 .. k
            /\ \A i \in 1 .. k : Above(Prefix(p, k), i) = Above(p, i)
        BY AbovePath
      <4>2. Prefix(p, k) \in DOMAIN M <=> Prefix(p, k) \in DOMAIN N
        BY <2>1, <3>3, <4>1
      <4> QED
        BY <3>2, <4>2
    <3> HIDE DEF Both
    <3>4. p \in Both
      BY <3>1, <3>3, AlongPath
    <3> QED
      BY <3>4 DEF Both
  <2> QED
    BY <1>1, <1>6, <2>2 DEF HasItsPlaces
<1> QED
  BY <1>5, <1>7, <1>9 DEF J, N

------------------------------------------------------------------------------
(***************************************************************************)
(* The requests that are refused as if they could succeed later.           *)
(***************************************************************************)
LEMMA IntegralThrows ==
    ASSUME NEW j \in Nodes, isIntegral(j), asInt64Throws(j)
    PROVE  j \in BeyondInt64
<1> DEFINE above == MaxInt64AsDouble .. MaxUInt64AsDouble - 1
<1>1. CASE j.t = "integer"
  <2>1. j.v \in Int /\ -MaxInt64AsDouble <= j.v /\ j.v < MaxUInt64AsDouble
        /\ j = Integer(j.v)
    BY <1>1, NodeKinds
  <2>2. j.v \in above
    BY <1>1, <2>1, Widths DEF asInt64Throws, Int64
  <2> HIDE DEF above
  <2>3. Integer(j.v) \in [t : {"integer"}, v : above]
    BY <2>2 DEF Integer
  <2> QED
    BY <2>1, <2>3 DEF above, BeyondInt64
<1>2. CASE j.t = "real"
  <2>1. j.v \in Int /\ ~j.half /\ j.v < MaxUInt64AsDouble /\ j.v > MaxInt64AsDouble
        /\ j = Real(j.v, FALSE)
    BY <1>2, NodeKinds DEF asInt64Throws, isIntegral
  <2>2. j.v \in above
    BY <2>1, Widths
  <2> HIDE DEF above
  <2>3. Real(j.v, FALSE) \in [t : {"real"}, v : above, half : {FALSE}]
    BY <2>2 DEF Real
  <2> QED
    BY <2>1, <2>3 DEF above, BeyondInt64
<1> QED
  BY <1>1, <1>2 DEF isIntegral

LEMMA OnlyAsInt64Throws ==
    ASSUME NEW m, NEW j \in Nodes, NEW undefined,
           "std::exception" \in assignScalar(m, j, undefined)
    PROVE  j \in BeyondInt64
<1> USE DEF Unless
<1>1. m.type = "signed"
  BY DEF assignScalar, assignUnsigned, assignFloating, assignString, assignArray
<1>2. isIntegral(j) /\ asInt64Throws(j)
  BY <1>1 DEF assignScalar, assignSigned
<1> QED
  BY <1>2, IntegralThrows

LEMMA ThrownIsMentioned ==
    ASSUME NEW T, NEW doc, IsDocument(doc), NEW undefined,
           "std::exception" \in assignErrors(T, doc, undefined)
    PROVE  Mentions(doc, BeyondInt64)
<1>1. PICK p \in DOMAIN doc : "std::exception" \in assignMember(T, doc, p, undefined)
  BY DEF assignErrors, Reached
<1>2. "std::exception" \in assignScalar(T[Shape(p)], doc[p], undefined)
  BY <1>1 DEF assignMember, assignMessage, Unless
<1>3. doc[p] \in BeyondInt64
  BY <1>2, DocumentAbove, OnlyAsInt64Throws
<1> QED
  BY <1>3 DEF Mentions

\* What the request breaks when the answer is that of a failed call.
BreaksAsInt64(r) ==
    \/ r.text = TooDeep
    \/ \E n \in DOMAIN r.text.fields :
         LET node == r.text.fields[n] IN
         \/ node.t # "object" /\ node \in BeyondInt64
         \/ node.t = "object" /\ Mentions(node.tree, BeyondInt64)

LEMMA InvalidThrows ==
    ASSUME NEW r, IsRequest(r), Error(r) = "std::exception"
    PROVE  BreaksAsInt64(r)
<1>1. CASE parseStrictJson(r.text) = "std::exception"
  BY <1>1 DEF parseStrictJson, BreaksAsInt64
<1>2. CASE parseStrictJson(r.text) # "std::exception"
  <2>1. namesError(r.text.fields, PublishFields, "topic", "messageType",
                   "message type") # "std::exception"
        /\ namesError(r.text.fields, ServiceFields, "service", "serviceType",
                      "service type") # "std::exception"
    BY DEF namesError
  <2>2. /\ Publish(r.text.fields) # "std::exception"
        /\ CallService(r.text.fields) # "std::exception"
    BY <2>1 DEF Publish, CallService
  <2>3. /\ parseStrictJson(r.text) = "none"
        /\ FromInstanceSpec(r.text.fields) = "std::exception"
    BY <1>2, <2>2 DEF Error
  <2> DEFINE j == r.text.fields["domainId"]
  <2>4. /\ "domainId" \in DOMAIN r.text.fields
        /\ isIntegral(j) /\ asInt64Throws(j)
    BY <2>3 DEF FromInstanceSpec
  <2>5. r.text.t = "object"
    BY <2>3, ObjectParses
  <2>6. j.t # "object"
    BY <2>4 DEF isIntegral
  <2>7. j \in BeyondInt64
    BY <2>4, <2>5, <2>6, FieldIsNode, IntegralThrows
  <2> QED
    BY <2>4, <2>6, <2>7 DEF BreaksAsInt64
<1> QED
  BY <1>1, <1>2

\* The request of a message that is decoded carries a document.
LEMMA AcceptedCarriesDocument ==
    ASSUME NEW r, IsRequest(r), Error(r) = "none", r.kind # "configuration"
    PROVE  LET n == IF r.kind = "publish" THEN "message" ELSE "request" IN
           /\ n \in DOMAIN r.text.fields /\ r.text.fields[n].t = "object"
           /\ document(r) = r.text.fields[n].tree
           /\ IsDocument(document(r))
<1> DEFINE n == IF r.kind = "publish" THEN "message" ELSE "request"
<1>1. Described(r, kMaximumWaitMilliseconds, kMaximumWaitMilliseconds, TRUE)
  BY ErrorServesSchema
<1>2. r.kind \in Kinds
  BY DEF IsRequest
<1>3. r.text.t = "object" /\ IsObject(r.text.fields, n)
  <2>1. CASE r.kind = "publish"
    <3>1. /\ r.text.t = "object"
          /\ PublishRequest(r.text.fields, kMaximumWaitMilliseconds, TRUE)
      BY <1>1, <2>1 DEF Described
    <3>2. IsObject(r.text.fields, "message")
      BY ZenonT(30), <3>1 DEF PublishRequest
    <3> QED
      BY <2>1, <3>1, <3>2
  <2>2. CASE r.kind = "service"
    <3>1. /\ r.text.t = "object"
          /\ ServiceCallRequest(r.text.fields, kMaximumWaitMilliseconds,
                                kMaximumWaitMilliseconds, TRUE)
      BY <1>1, <2>2 DEF Described
    <3>2. IsObject(r.text.fields, "request")
      BY <3>1 DEF ServiceCallRequest
    <3> QED
      BY <2>2, <3>1, <3>2
  <2> QED
    BY <1>2, <2>1, <2>2 DEF Kinds
<1>4. n \in DOMAIN r.text.fields /\ r.text.fields[n].t = "object"
  BY <1>3 DEF IsObject
<1>5. IsDocument(r.text.fields[n].tree)
  BY <1>3, <1>4 DEF IsRequest
<1> QED
  BY <1>4, <1>5 DEF document

------------------------------------------------------------------------------
(***************************************************************************)
(* The invariant: what a state knows of the checks and conversions before. *)
(***************************************************************************)
Stages == {"received", "accepted", "invalid", "loaded", "unsupported", "decoded",
           "refused", "echoed", "answered", "encoded", "unprojectable"}

ValidatedInv ==
    /\ request \in Requests /\ at \in Stages
    /\ at = "invalid" => answer = Error(request) /\ Error(request) # "none"
    /\ at \notin {"received", "invalid"} => Error(request) = "none"

TypedInv ==
    at \in {"loaded", "decoded", "refused", "echoed", "answered", "encoded"} =>
        request.kind # "configuration" /\ IsType(type)

DecodedInv ==
    /\ at \in {"decoded", "echoed"} =>
         \E undefined \in UndefinedConversions :
           /\ assignErrors(type, document(request), undefined) = {}
           /\ message = messageFromJson(type, document(request), undefined)
    /\ at = "refused" =>
         \E undefined \in UndefinedConversions :
           answer \in assignErrors(type, document(request), undefined)

AnsweredInv == at \in {"answered", "encoded"} => WellTyped(type, message)

ProjectedInv ==
    at \in {"echoed", "encoded"} =>
        /\ projectionErrors(type, message) = {}
        /\ answer = writeJson(messageToJson(type, message))

HandlingInv == ValidatedInv /\ TypedInv /\ DecodedInv /\ AnsweredInv /\ ProjectedInv

LEMMA HandlingInitial == Init => HandlingInv
  BY DEF Init, RequestInit, HandlingInv, ValidatedInv, TypedInv, DecodedInv,
         AnsweredInv, ProjectedInv, Stages

LEMMA HandlingStep == HandlingInv /\ [Next]_handlingVars => HandlingInv'
<1> SUFFICES ASSUME HandlingInv, [Next]_handlingVars PROVE HandlingInv'
  OBVIOUS
<1> USE DEF HandlingInv
<1>1. CASE Receive
  <2>1. /\ at = "received" /\ at' \in {"accepted", "invalid"}
        /\ UNCHANGED request
        /\ at' = "invalid" => answer' = Error(request) /\ Error(request) # "none"
        /\ at' = "accepted" => Error(request) = "none"
    BY <1>1 DEF Receive, Validate
  <2>2. ValidatedInv'
    BY <2>1 DEF ValidatedInv, Stages
  <2> QED
    BY <2>1, <2>2 DEF TypedInv, DecodedInv, AnsweredInv, ProjectedInv
<1>2. CASE LoadType
  <2>1. /\ at = "accepted" /\ at' \in {"loaded", "unsupported"}
        /\ UNCHANGED request /\ request.kind # "configuration"
        /\ at' = "loaded" => type' \in MessageTypes
    BY <1>2 DEF LoadType
  <2>2. ValidatedInv'
    BY <2>1 DEF ValidatedInv, Stages
  <2>3. TypedInv'
    BY <2>1, TypesAssumption DEF TypedInv
  <2> QED
    BY <2>1, <2>2, <2>3 DEF DecodedInv, AnsweredInv, ProjectedInv
<1>3. CASE Decode
  <2>1. PICK undefined \in UndefinedConversions :
          \/ /\ assignErrors(type, document(request), undefined) = {}
             /\ at' = "decoded"
             /\ message' = messageFromJson(type, document(request), undefined)
          \/ /\ at' = "refused"
             /\ answer' \in assignErrors(type, document(request), undefined)
    BY <1>3 DEF Decode
  <2>2. at = "loaded" /\ UNCHANGED <<request, type>>
    BY <1>3 DEF Decode
  <2>3. ValidatedInv' /\ TypedInv'
    BY <2>1, <2>2 DEF ValidatedInv, TypedInv, Stages
  <2>4. DecodedInv'
    <3>1. CASE at' = "decoded"
      BY <2>1, <2>2, <3>1 DEF DecodedInv, document
    <3>2. CASE at' = "refused"
      BY <2>1, <2>2, <3>2 DEF DecodedInv, document
    <3> QED
      BY <2>1, <3>1, <3>2
  <2> QED
    BY <2>1, <2>3, <2>4 DEF AnsweredInv, ProjectedInv
<1>4. CASE Respond
  <2>1. /\ at = "decoded" /\ at' = "answered" /\ UNCHANGED request
        /\ request.kind # "configuration"
    BY <1>4 DEF Respond
  <2>2. PICK r \in Received : type' = r.type /\ message' = r.message
    BY <1>4 DEF Respond
  <2>3. IsType(r.type) /\ WellTyped(r.type, r.message)
    BY TypesAssumption
  <2>4. ValidatedInv' /\ TypedInv'
    BY <2>1, <2>2, <2>3 DEF ValidatedInv, TypedInv, Stages
  <2>5. AnsweredInv'
    BY <2>2, <2>3 DEF AnsweredInv
  <2> QED
    BY <2>1, <2>4, <2>5 DEF DecodedInv, ProjectedInv
<1>5. CASE Encode
  <2>1. at \in {"decoded", "answered"} /\ UNCHANGED <<request, type, message>>
    BY <1>5 DEF Encode
  <2>2. \/ /\ projectionErrors(type, message) = {}
           /\ at' = IF at = "decoded" THEN "echoed" ELSE "encoded"
           /\ answer' = writeJson(messageToJson(type, message))
        \/ at' = "unprojectable"
    BY <1>5 DEF Encode
  <2>3. ValidatedInv' /\ TypedInv'
    BY <2>1, <2>2 DEF ValidatedInv, TypedInv, Stages
  <2>4. DecodedInv'
    BY <2>1, <2>2 DEF DecodedInv, document
  <2>5. AnsweredInv'
    BY <2>1, <2>2 DEF AnsweredInv
  <2>6. ProjectedInv'
    BY <2>1, <2>2 DEF ProjectedInv
  <2> QED
    BY <2>3, <2>4, <2>5, <2>6
<1>6. CASE UNCHANGED handlingVars
  BY <1>6 DEF handlingVars, ValidatedInv, TypedInv, DecodedInv, AnsweredInv,
              ProjectedInv, document
<1> QED
  BY <1>1, <1>2, <1>3, <1>4, <1>5, <1>6 DEF Next

LEMMA HandlingInvariant == Spec => []HandlingInv
  BY HandlingInitial, HandlingStep, PTL DEF Spec

\* What is known when a document has been decoded or refused.
LEMMA DecodedDocument ==
    ASSUME HandlingInv, at \in {"loaded", "decoded", "refused", "echoed"}
    PROVE  /\ IsRequest(request) /\ Error(request) = "none"
           /\ request.kind # "configuration"
           /\ IsType(type) /\ IsDocument(document(request))
<1>1. IsRequest(request) /\ Error(request) = "none"
  BY RequestsAssumption DEF HandlingInv, ValidatedInv
<1>2. request.kind # "configuration" /\ IsType(type)
  BY DEF HandlingInv, TypedInv
<1> QED
  BY <1>1, <1>2, AcceptedCarriesDocument

LEMMA MessageIsTyped ==
    ASSUME HandlingInv, at \in {"decoded", "echoed", "answered", "encoded"}
    PROVE  WellTyped(type, message) /\ IsType(type)
<1>1. CASE at \in {"decoded", "echoed"}
  <2>1. PICK undefined \in UndefinedConversions :
          /\ assignErrors(type, document(request), undefined) = {}
          /\ message = messageFromJson(type, document(request), undefined)
    BY <1>1 DEF HandlingInv, DecodedInv
  <2> QED
    BY <1>1, <2>1, DecodedDocument, TakenIsTyped
<1>2. CASE at \in {"answered", "encoded"}
  BY <1>2 DEF HandlingInv, AnsweredInv, TypedInv
<1> QED
  BY <1>1, <1>2

------------------------------------------------------------------------------
\* Whatever the requests and the width of the integers: what the schemas describe
\* the code accepts, but for a name too long for rmw; and nothing beyond their
\* fields, forms and ranges, but for the longer waits, the names that go on after
\* a NUL and the lax payloads that the property states (tools_adapter.cpp:55-113).
THEOREM RequestsServeSchemas == Spec => []ServesTheSchema
<1>1. HandlingInv => ServesTheSchema
  <2> SUFFICES ASSUME HandlingInv PROVE ServesTheSchema
    OBVIOUS
  <2>1. IsRequest(request)
    BY RequestsAssumption DEF HandlingInv, ValidatedInv
  <2> QED
    BY <2>1, ErrorServesSchema DEF HandlingInv, ValidatedInv, ServesTheSchema
<1> QED
  BY <1>1, HandlingInvariant, PTL

\* Whatever the message types, the documents and the responses, a message that
\* assignMember has written is one of its type at every place: the raw writes of
\* json_codec.cpp:57-247 stay in the widths, sizes and bounds of the members.
THEOREM MessagesAreWellTyped == Spec => []MessageIsWellTyped
<1>1. HandlingInv => MessageIsWellTyped
  BY MessageIsTyped DEF MessageIsWellTyped
<1> QED
  BY <1>1, HandlingInvariant, PTL

\* messageFromJson accepts a document exactly if it fits the members, at every
\* depth, but for the double that is maxInt64 + 1.
THEOREM CodecTakesWhatFits == Spec => []TakesWhatFits
<1>1. HandlingInv => TakesWhatFits
  <2> SUFFICES ASSUME HandlingInv PROVE TakesWhatFits
    OBVIOUS
  <2>1. ASSUME at \in {"decoded", "echoed"}, ~Mentions(document(request), {OnlyLapse})
        PROVE  Fits(type, document(request))
    <3>1. PICK undefined \in UndefinedConversions :
            assignErrors(type, document(request), undefined) = {}
      BY <2>1 DEF HandlingInv, DecodedInv
    <3> QED
      BY <2>1, <3>1, DecodedDocument, TakenFits
  <2>2. ASSUME at = "refused"
        PROVE  ~Fits(type, document(request))
    <3>1. PICK undefined \in UndefinedConversions :
            answer \in assignErrors(type, document(request), undefined)
      BY <2>2 DEF HandlingInv, DecodedInv
    <3>2. IsType(type) /\ IsDocument(document(request))
      BY <2>2, DecodedDocument
    <3> QED
      BY <3>1, <3>2, FittingIsTaken
  <2> QED
    BY <2>1, <2>2 DEF TakesWhatFits
<1> QED
  BY <1>1, HandlingInvariant, PTL

\* A request is answered with the code of a failed call, which invites a retry,
\* only for what jsoncpp itself throws on (json_codec.cpp:57-69).
THEOREM RefusalsHaveTypes == Spec => []RefusalsAreTyped
<1>1. HandlingInv => RefusalsAreTyped
  <2> SUFFICES ASSUME HandlingInv, at \in {"invalid", "refused"},
                      answer = "std::exception"
               PROVE  BreaksAsInt64(request)
    BY DEF RefusalsAreTyped, BreaksAsInt64
  <2>1. IsRequest(request)
    BY RequestsAssumption DEF HandlingInv, ValidatedInv
  <2>2. CASE at = "invalid"
    BY <2>1, <2>2, InvalidThrows DEF HandlingInv, ValidatedInv
  <2>3. CASE at = "refused"
    <3>1. PICK undefined \in UndefinedConversions :
            "std::exception" \in assignErrors(type, document(request), undefined)
      BY <2>3 DEF HandlingInv, DecodedInv
    <3>2. Mentions(document(request), BeyondInt64)
      BY <2>3, <3>1, DecodedDocument, ThrownIsMentioned
    <3> DEFINE n == IF request.kind = "publish" THEN "message" ELSE "request"
    <3>3. /\ n \in DOMAIN request.text.fields
          /\ request.text.fields[n].t = "object"
          /\ document(request) = request.text.fields[n].tree
      BY <2>3, DecodedDocument, AcceptedCarriesDocument
    <3> HIDE DEF n
    <3> QED
      BY <3>2, <3>3 DEF BreaksAsInt64
  <2> QED
    BY <2>2, <2>3
<1> QED
  BY <1>1, HandlingInvariant, PTL

\* Whatever the types, their defaults and the numbers there are: what
\* messageToJson and writeJson make of what messageFromJson has made of a document
\* is the document, at every path of it, its numbers rounded to the member and its
\* texts UTF-8; elsewhere the defaults (json_codec.cpp:57-371).
THEOREM DocumentsRoundTrip == Spec => []RoundTrips
<1>1. HandlingInv => RoundTrips
  <2> SUFFICES ASSUME HandlingInv, at = "echoed",
                      ~Mentions(document(request), {OnlyLapse})
               PROVE  RoundTrips
    BY DEF RoundTrips
  <2>1. PICK undefined \in UndefinedConversions :
          /\ assignErrors(type, document(request), undefined) = {}
          /\ message = messageFromJson(type, document(request), undefined)
    BY DEF HandlingInv, DecodedInv
  <2>2. answer = writeJson(messageToJson(type, message))
    BY DEF HandlingInv, ProjectedInv
  <2>3. IsType(type) /\ IsDocument(document(request))
    BY DecodedDocument
  <2> QED
    BY <2>1, <2>2, <2>3, TakenRoundTrips DEF RoundTrips
<1> QED
  BY <1>1, HandlingInvariant, PTL

\* The JSON of an answer has the places of its message, and is taken at each for
\* the same value, but for what JSON has no word for (json_codec.cpp:284-358).
THEOREM ProjectionsReadBack == Spec => []ProjectionReadsBack
<1>1. HandlingInv => ProjectionReadsBack
  <2> SUFFICES ASSUME HandlingInv, at \in {"echoed", "encoded"}
               PROVE  ProjectionReadsBack
    BY DEF ProjectionReadsBack
  <2>1. /\ projectionErrors(type, message) = {}
        /\ answer = writeJson(messageToJson(type, message))
    BY DEF HandlingInv, ProjectedInv
  <2>2. WellTyped(type, message) /\ IsType(type)
    BY MessageIsTyped
  <2> QED
    BY <2>1, <2>2, ProjectedReadsBack DEF ProjectionReadsBack
<1> QED
  BY <1>1, HandlingInvariant, PTL
==============================================================================
