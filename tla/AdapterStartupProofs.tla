------------------------- MODULE AdapterStartupProofs -------------------------
(***************************************************************************)
(* Proofs about AdapterStartup: whatever specs, subjects, contracts and    *)
(* environments there are, an attribute map passes the adapter's test only *)
(* if it is the map of its context, and so a process serves the subjects   *)
(* of the specs it accepted, in the environment they call for.             *)
(***************************************************************************)
EXTENDS AdapterStartup, FiniteSetTheorems, TLAPS

\* A finite set of one element that holds x is {x}; one of two that holds both
\* x and y is {x, y}.
LEMMA SingletonByCount ==
    ASSUME NEW S, IsFiniteSet(S), NEW x \in S, Cardinality(S) = 1
    PROVE  S = {x}
<1>1. IsFiniteSet({x}) /\ Cardinality({x}) = 1
  BY FS_Singleton
<1> QED
  BY <1>1, FS_Subset

LEMMA PairCount ==
    ASSUME NEW x, NEW y, x # y
    PROVE  IsFiniteSet({x, y}) /\ Cardinality({x, y}) = 2
<1>1. IsFiniteSet({x}) /\ Cardinality({x}) = 1
  BY FS_Singleton
<1>2. /\ IsFiniteSet({x} \cup {y})
      /\ Cardinality({x} \cup {y}) = 2
  BY <1>1, FS_AddElement
<1>3. {x} \cup {y} = {x, y}
  OBVIOUS
<1> QED
  BY <1>2, <1>3

LEMMA PairByCount ==
    ASSUME NEW S, IsFiniteSet(S), NEW x \in S, NEW y \in S, x # y,
           Cardinality(S) = 2
    PROVE  S = {x, y}
<1>1. IsFiniteSet({x, y}) /\ Cardinality({x, y}) = 2
  BY PairCount
<1>2. {x, y} \subseteq S
  OBVIOUS
<1> QED
  BY <1>1, <1>2, FS_Subset

LEMMA SequenceOfTwo ==
    ASSUME NEW S, NEW s \in Seq(S), Len(s) = 2
    PROVE  DOMAIN s = {1, 2} /\ s[1] \in S /\ s[2] \in S
<1>1. DOMAIN s = 1 .. 2
  OBVIOUS
<1>2. 1 .. 2 = {1, 2}
  OBVIOUS
<1>3. \A k \in 1 .. Len(s) : s[k] \in S
  OBVIOUS
<1> QED
  BY <1>1, <1>2, <1>3, Zenon

LEMMA AppendOne ==
    ASSUME NEW S, NEW s \in Seq(S), NEW e \in S
    PROVE  /\ Append(s, e) \in Seq(S)
           /\ Len(Append(s, e)) = Len(s) + 1
           /\ Append(s, e)[Len(s) + 1] = e
           /\ \A k \in 1 .. Len(s) : Append(s, e)[k] = s[k]
           /\ Append(s, e) # <<>>
           /\ \A k \in 1 .. Len(Append(s, e)) :
                k = Len(s) + 1 \/ k \in 1 .. Len(s)
OBVIOUS

\* The test of both functions, two lookups and a size, accepts one map only:
\* the attributes of the context.
LEMMA AttributesAreFixed ==
    ASSUME NEW context, NEW attributes, IsAttributeMap(attributes),
           AttributesMatch(attributes, context)
    PROVE  attributes = AttributesOf(context)
<1> DEFINE rmw == context.rmw_implementation
           D == DOMAIN attributes
<1>1. /\ attributes = [name \in D |-> attributes[name]]
      /\ D \subseteq AttributeNames
  BY DEF IsAttributeMap
<1>2. IsFiniteSet(D)
  BY <1>1, ScopeAssumption, FS_Subset
<1>3. /\ "domain-id" \in D
      /\ attributes["domain-id"] = ToString(context.domain_id)
      /\ (IF "rmw-implementation" \in D
            THEN attributes["rmw-implementation"] ELSE "") = rmw
      /\ Cardinality(D) = IF rmw = "" THEN 1 ELSE 2
  BY DEF AttributesMatch
<1>4. CASE rmw = ""
  <2>1. D = {"domain-id"}
    BY <1>2, <1>3, <1>4, SingletonByCount
  <2> QED
    BY <1>1, <1>3, <1>4, <2>1 DEF AttributesOf
<1>5. CASE rmw # ""
  <2>1. /\ "rmw-implementation" \in D
        /\ attributes["rmw-implementation"] = rmw
    BY <1>3, <1>5
  <2>2. D = {"domain-id", "rmw-implementation"}
    BY <1>2, <1>3, <1>5, <2>1, PairByCount
  <2> QED
    BY <1>1, <1>3, <1>5, <2>1, <2>2 DEF AttributesOf
<1> QED
  BY <1>4, <1>5

\* A scope of the right kind and key that passes the test is the scope of the
\* context: FromInstanceSpec and validateSubject accept nothing else.
LEMMA ScopeIsFixed ==
    ASSUME NEW context, NEW scope, IsScope(scope),
           scope.kind = NativeKind, scope.key = context.scope_key,
           AttributesMatch(scope.attributes, context)
    PROVE  scope = ScopeOf(context)
<1>1. scope.attributes = AttributesOf(context)
  BY AttributesAreFixed DEF IsScope
<1> QED
  BY <1>1 DEF IsScope, ScopeOf

LEMMA AcceptedSpecHasItsScope ==
    ASSUME NEW s, IsScope(s.scope), FromInstanceSpec(s)
    PROVE  s.scope = ScopeOf(NativeContext(s))
<1>1. NativeContext(s).scope_key = s.scope.key
  BY DEF NativeContext
<1> QED
  BY <1>1, ScopeIsFixed DEF FromInstanceSpec

LEMMA AcceptedSubjectHasItsScope ==
    ASSUME NEW context, NEW subject, IsScope(subject), validateSubject(subject, context)
    PROVE  subject = ScopeOf(context)
BY ScopeIsFixed DEF validateSubject

------------------------------------------------------------------------------
(***************************************************************************)
(* The inductive invariant: once past the bootstrap, the spec of the       *)
(* process is one FromInstanceSpec accepts, the environment is the one of  *)
(* that spec, and everything accepted was accepted against it.             *)
(***************************************************************************)
Started == at \in {"bind", "serving"}

StartupInv ==
    /\ IsScope(spec.scope)
    /\ IsEnvironment(environment)
    /\ Started => /\ FromInstanceSpec(spec)
                  /\ environment = Environment(native)
    /\ served # {} => at = "serving"
    /\ applied \subseteq {s \in InstanceSpecs : Accepts(s, native)}
    /\ served \subseteq {s \in Subjects : validateSubject(s, native)}

\* Both variables are set, so nothing of the inherited environment is left.
LEMMA EnvironmentIsSet ==
    ASSUME NEW context, NEW inherited, IsEnvironment(inherited)
    PROVE  ApplyEnvironment(context, inherited) = Environment(context)
<1> DEFINE x == ToString(context.domain_id)
           y == context.rmw_implementation
           once == setEnvironment(inherited, "ROS_DOMAIN_ID", x)
           twice == setEnvironment(once, "RMW_IMPLEMENTATION", y)
<1>1. /\ inherited = [n \in DOMAIN inherited |-> inherited[n]]
      /\ DOMAIN inherited = {"ROS_DOMAIN_ID", "RMW_IMPLEMENTATION"}
  BY DEF IsEnvironment
<1>2. once = [n \in DOMAIN inherited |->
                 IF n = "ROS_DOMAIN_ID" THEN x ELSE inherited[n]]
  BY <1>1 DEF setEnvironment
<1>3. twice = [n \in DOMAIN inherited |->
                  IF n = "RMW_IMPLEMENTATION" THEN y
                  ELSE IF n = "ROS_DOMAIN_ID" THEN x ELSE inherited[n]]
  BY <1>1, <1>2 DEF setEnvironment
<1>4. twice = ApplyEnvironment(context, inherited)
  BY DEF ApplyEnvironment
<1>5. Environment(context) = [ROS_DOMAIN_ID |-> x, RMW_IMPLEMENTATION |-> y]
  BY DEF Environment
<1> HIDE DEF x, y, twice
<1> QED
  BY <1>1, <1>3, <1>4, <1>5

LEMMA StartupInvHolds == Spec => []StartupInv
<1>1. Init => StartupInv
  BY StartupAssumption DEF Init, StartupInv, Started
<1>2. StartupInv /\ [Next]_startupVars => StartupInv'
  <2> SUFFICES ASSUME StartupInv, [Next]_startupVars
               PROVE  StartupInv'
    OBVIOUS
  <2> USE DEF StartupInv, Started
  <2>1. CASE ReadSpec
    <3>1. ApplyEnvironment(native, environment) = Environment(native)
      BY EnvironmentIsSet
    <3>2. /\ spec' = spec /\ applied' = applied /\ served' = served
          /\ native' = native
      BY <2>1 DEF ReadSpec, native
    <3>3. served = {}
      BY <2>1 DEF ReadSpec
    <3>4. applied' \subseteq {t \in InstanceSpecs : Accepts(t, native')}
      BY <3>2
    <3>5. /\ IsEnvironment(environment')
          /\ Started' => FromInstanceSpec(spec)
          /\ Started' => environment' = Environment(native)
      BY <2>1, <3>1 DEF ReadSpec, IsEnvironment, Environment
    <3> QED
      BY <3>2, <3>3, <3>4, <3>5
  <2>2. CASE BindNext
    BY <2>2 DEF BindNext, native
  <2>3. CASE EndBind
    BY <2>3 DEF EndBind, native
  <2>4. ASSUME NEW s \in InstanceSpecs, ApplyInstanceSpec(s)
        PROVE  StartupInv'
    BY <2>4 DEF ApplyInstanceSpec, native
  <2>5. ASSUME NEW subject \in Subjects, Invoke(subject)
        PROVE  StartupInv'
    BY <2>5 DEF Invoke, native
  <2>6. CASE UNCHANGED startupVars
    BY <2>6 DEF startupVars, native
  <2> QED
    BY <2>1, <2>2, <2>3, <2>4, <2>5, <2>6 DEF Next
<1> QED
  BY <1>1, <1>2, PTL DEF Spec

\* Whatever environment it was started in, the process stays in the one every
\* spec it accepts calls for.
THEOREM StartupEnvironment == Spec => []EnvironmentServesAppliedSpecs
<1>1. StartupInv => EnvironmentServesAppliedSpecs
  BY DEF StartupInv, Started, EnvironmentServesAppliedSpecs, Accepts, Environment
<1> QED
  BY <1>1, StartupInvHolds, PTL

\* Every subject served is the scope of every spec accepted, and of the spec
\* the process was started with, attribute for attribute.
THEOREM StartupSubjects == Spec => []SubjectsAreAppliedScopes
<1>1. ASSUME StartupInv
      PROVE  SubjectsAreAppliedScopes
  <2> SUFFICES ASSUME NEW s \in applied \cup {spec}, NEW subject \in served
               PROVE  subject = s.scope
    BY DEF SubjectsAreAppliedScopes
  <2>1. subject = ScopeOf(native)
    BY <1>1, StartupAssumption, AcceptedSubjectHasItsScope DEF StartupInv
  <2>2. CASE s = spec
    BY <1>1, <2>1, <2>2, AcceptedSpecHasItsScope DEF StartupInv, Started, native
  <2>3. CASE s \in applied
    <3>1. /\ IsScope(s.scope)
          /\ FromInstanceSpec(s)
          /\ NativeContext(s) = native
      BY <1>1, <2>3, StartupAssumption DEF StartupInv, Accepts
    <3> QED
      BY <2>1, <3>1, AcceptedSpecHasItsScope
  <2> QED
    BY <2>2, <2>3
<1> QED
  BY <1>1, StartupInvHolds, PTL

------------------------------------------------------------------------------
(***************************************************************************)
(* The contracts: what is bound is compiled, and what is refused is wrong. *)
(***************************************************************************)
Compiled == {CompiledContract(c) : c \in Capabilities}

LEMMA ValidIsCompiled ==
    ASSUME NEW actual \in Contracts, NEW c \in Capabilities,
           actual.capability = c, validateExpectedContract(actual, c)
    PROVE  actual = CompiledContract(c)
<1> DEFINE endpoint == actual.endpoints[1]
<1>1. /\ actual.identity = "compiled"
      /\ actual.endpoints \in Seq(Endpoints) /\ Len(actual.endpoints) = 1
      /\ endpoint = [id |-> EndpointOf[c], deviations |-> {}]
  <2>1. actual.endpoints \in Seq(Endpoints) /\ Len(actual.endpoints) = 1
    BY DEF validateExpectedContract, Contracts
  <2>2. endpoint \in Endpoints
    BY <2>1
  <2>3. endpoint = [id |-> endpoint.id, deviations |-> endpoint.deviations]
    BY <2>2 DEF Endpoints
  <2> QED
    BY <2>1, <2>3 DEF validateExpectedContract
<1>2. actual.endpoints = <<[id |-> EndpointOf[c], deviations |-> {}]>>
  BY <1>1
<1>3. actual = [capability |-> actual.capability, identity |-> actual.identity,
                endpoints |-> actual.endpoints]
  BY DEF Contracts
<1> QED
  BY <1>1, <1>2, <1>3 DEF CompiledContract

LEMMA CompiledIsValid ==
    ASSUME NEW actual \in Compiled
    PROVE  /\ actual.capability \in Capabilities
           /\ actual = CompiledContract(actual.capability)
           /\ validateExpectedContract(actual, actual.capability)
<1>1. PICK c \in Capabilities : actual = CompiledContract(c)
  BY DEF Compiled
<1> QED
  BY <1>1 DEF CompiledContract, validateExpectedContract

\* The attributes of a context match it.
LEMMA AttributesOfMatch ==
    ASSUME NEW context
    PROVE  AttributesMatch(AttributesOf(context), context)
<1>1. Cardinality({"domain-id"}) = 1
  BY FS_Singleton, Zenon
<1>2. Cardinality({"domain-id", "rmw-implementation"}) = 2
  BY PairCount
<1> DEFINE attributes == AttributesOf(context)
<1>3. attributes["domain-id"] = ToString(context.domain_id)
  BY DEF AttributesOf
<1>4. CASE context.rmw_implementation = ""
  <2>1. DOMAIN attributes = {"domain-id"}
    BY <1>4 DEF AttributesOf
  <2> HIDE DEF attributes
  <2>2. AttributesMatch(attributes, context)
    BY <1>1, <1>3, <1>4, <2>1 DEF AttributesMatch
  <2> QED
    BY <2>2 DEF attributes
<1>5. CASE context.rmw_implementation # ""
  <2>1. /\ DOMAIN attributes = {"domain-id", "rmw-implementation"}
        /\ attributes["rmw-implementation"] = context.rmw_implementation
    BY <1>5 DEF AttributesOf
  <2> HIDE DEF attributes
  <2>2. AttributesMatch(attributes, context)
    BY <1>2, <1>3, <1>5, <2>1 DEF AttributesMatch
  <2> QED
    BY <2>2 DEF attributes
<1> QED
  BY <1>4, <1>5

LEMMA ScopeFields ==
    ASSUME NEW context
    PROVE  /\ ScopeOf(context).kind = NativeKind
           /\ ScopeOf(context).attributes = AttributesOf(context)
BY DEF ScopeOf

\* A spec with the scope of its context and values in range is not refused.
LEMMA RightSpecIsAccepted ==
    ASSUME NEW s, s.wellFormed, s.scope = ScopeOf(NativeContext(s)),
           s.domainId \in 0 .. kMaximumDomainID,
           s.rmwImplementation \in RmwImplementations \cup {""},
           s.scope.key \in ScopeKeys
    PROVE  FromInstanceSpec(s)
<1>1. /\ s.scope.kind = NativeKind
      /\ s.scope.attributes = AttributesOf(NativeContext(s))
  BY ScopeFields, Zenon
<1>2. AttributesMatch(s.scope.attributes, NativeContext(s))
  BY <1>1, AttributesOfMatch, Zenon
<1> QED
  BY <1>1, <1>2, Zenon DEF FromInstanceSpec

Callbacks == {CallbacksOf(c) : c \in Capabilities}

BoundInv ==
    /\ contracts \in Seq(Contracts)
    /\ callbacks \in Seq(Callbacks)
    /\ at = "bootstrap" => callbacks = <<>>
    /\ Len(callbacks) <= 2
    /\ callbacks # <<>> => Len(contracts) = 2
    /\ \A i \in 1 .. Len(callbacks) :
         /\ contracts[i] \in Compiled
         /\ callbacks[i] = CallbacksOf(contracts[i].capability)
    /\ at = "serving" => /\ Len(contracts) = 2 /\ Len(callbacks) = 2
                         /\ Capabilities \subseteq Bound
    /\ RefusesOnlyWrongBootstraps

\* Two contracts of which both compiled ones are, are of different capabilities.
LEMMA BothAreAdvertised ==
    ASSUME contracts \in Seq(Contracts), Len(contracts) = 2,
           {contracts[i] : i \in DOMAIN contracts} = Compiled
    PROVE  /\ contracts[1] \in Compiled /\ contracts[2] \in Compiled
           /\ {contracts[1].capability, contracts[2].capability} = Capabilities
           /\ contracts[1].capability # contracts[2].capability
<1>1. DOMAIN contracts = {1, 2}
  BY SMT
<1>2. contracts[1] \in Compiled /\ contracts[2] \in Compiled
  BY <1>1
<1>3. {contracts[1].capability, contracts[2].capability} \subseteq Capabilities
  BY <1>2, CompiledIsValid
<1>4. ASSUME NEW c \in Capabilities
      PROVE  c \in {contracts[1].capability, contracts[2].capability}
  <2>1. CompiledContract(c) \in Compiled /\ CompiledContract(c).capability = c
    BY DEF Compiled, CompiledContract
  <2>2. PICK i \in {1, 2} : contracts[i] = CompiledContract(c)
    BY <1>1, <2>1
  <2> QED
    BY <2>1, <2>2
<1> QED
  BY <1>2, <1>3, <1>4 DEF Capabilities

LEMMA BoundInvHolds == Spec => []BoundInv
<1>1. Init => BoundInv
  <2> SUFFICES ASSUME Init PROVE BoundInv
    OBVIOUS
  <2>1. contracts \in Seq(Contracts) /\ callbacks = <<>> /\ at = "bootstrap"
    BY StartupAssumption DEF Init
  <2> QED
    BY <2>1 DEF BoundInv, RefusesOnlyWrongBootstraps
<1>2. BoundInv /\ [Next]_startupVars => BoundInv'
  <2> SUFFICES ASSUME BoundInv, [Next]_startupVars
               PROVE  BoundInv'
    OBVIOUS
  <2> USE DEF BoundInv, RefusesOnlyWrongBootstraps
  <2>1. CASE ReadSpec
    <3>1. /\ spec' = spec /\ contracts' = contracts /\ callbacks' = callbacks
          /\ callbacks = <<>> /\ native' = native
      BY <2>1 DEF ReadSpec, native
    <3>2. CASE at' = "failed"
      <4>1. ~FromInstanceSpec(spec)
        BY <2>1, <3>2 DEF ReadSpec
      <4>2. \/ spec.scope # ScopeOf(native)
            \/ ~spec.wellFormed
            \/ native.domain_id \notin 0 .. kMaximumDomainID
            \/ native.rmw_implementation \notin RmwImplementations \cup {""}
            \/ native.scope_key \notin ScopeKeys
        BY <4>1, RightSpecIsAccepted DEF native, NativeContext
      <4> QED
        BY <3>1, <3>2, <4>2
    <3>3. CASE at' # "failed"
      BY <2>1, <3>1, <3>3 DEF ReadSpec
    <3> QED
      BY <3>2, <3>3
  <2>2. CASE BindNext
    <3> DEFINE i == Len(callbacks) + 1
               c == contracts[i].capability
    <3>1. /\ spec' = spec /\ contracts' = contracts /\ native' = native
          /\ at = "bind" /\ Len(contracts) = 2 /\ Len(callbacks) < 2
      BY <2>2 DEF BindNext, native
    <3>5. Len(callbacks) \in Nat /\ i \in {1, 2} /\ contracts[i] \in Contracts
      <4>1. Len(callbacks) \in Nat /\ i \in {1, 2}
        BY <3>1
      <4> QED
        BY <3>1, <4>1, SequenceOfTwo
    <3>2. CASE at' = "failed"
      <4>1. /\ callbacks' = callbacks
            /\ \/ c \notin Capabilities \/ c \in Bound
               \/ ~validateExpectedContract(contracts[i], c)
        BY <2>2, <3>1, <3>2 DEF BindNext
      <4>2. ASSUME {contracts[k] : k \in DOMAIN contracts} = Compiled
            PROVE  FALSE
        <5>1. contracts[i] \in Compiled
          BY <3>1, <3>5, <4>2, BothAreAdvertised
        <5>2. c \in Bound
          BY <4>1, <5>1, CompiledIsValid
        <5>3. i = 2 /\ c = contracts[1].capability
          BY <3>1, <3>5, <5>2 DEF Bound
        <5> QED
          BY <3>1, <3>5, <4>2, <5>3, BothAreAdvertised
      <4> QED
        BY <3>1, <3>2, <4>1, <4>2 DEF Compiled
    <3>3. CASE at' = "broken"
      BY <2>2, <3>1, <3>3 DEF BindNext
    <3>4. CASE at' = at
      <4>1. /\ c \in Capabilities /\ validateExpectedContract(contracts[i], c)
            /\ callbacks' = Append(callbacks, CallbacksOf(c))
        BY <2>2, <3>1, <3>4 DEF BindNext
      <4>2. contracts[i] \in Compiled
        BY <3>5, <4>1, ValidIsCompiled DEF Compiled
      <4>3. /\ callbacks' \in Seq(Callbacks) /\ callbacks' # <<>>
            /\ Len(callbacks') = i /\ callbacks'[i] = CallbacksOf(c)
            /\ \A k \in 1 .. Len(callbacks) : callbacks'[k] = callbacks[k]
            /\ \A k \in 1 .. Len(callbacks') : k = i \/ k \in 1 .. Len(callbacks)
        <5> HIDE DEF BoundInv
        <5>1. CallbacksOf(c) \in Callbacks
          BY <4>1 DEF Callbacks
        <5>2. callbacks \in Seq(Callbacks)
          BY DEF BoundInv
        <5> QED
          BY <4>1, <5>1, <5>2, AppendOne
      <4>4. \A k \in 1 .. Len(callbacks') :
               /\ contracts[k] \in Compiled
               /\ callbacks'[k] = CallbacksOf(contracts[k].capability)
        <5> SUFFICES ASSUME NEW k \in 1 .. Len(callbacks')
                     PROVE  /\ contracts[k] \in Compiled
                            /\ callbacks'[k] = CallbacksOf(contracts[k].capability)
          OBVIOUS
        <5>1. k = i \/ k \in 1 .. Len(callbacks)
          BY <4>3
        <5> QED
          BY <4>2, <4>3, <5>1
      <4> QED
        BY <3>1, <3>4, <3>5, <4>3, <4>4
    <3> QED
      BY <2>2, <3>2, <3>3, <3>4 DEF BindNext
  <2>3. CASE EndBind
    <3>1. /\ spec' = spec /\ contracts' = contracts /\ native' = native
          /\ callbacks' = callbacks /\ at = "bind"
      BY <2>3 DEF EndBind, native
    <3>2. CASE Len(contracts) # 2
      <4>1. callbacks = <<>>
        BY <3>2
      <4>2. at' = "failed"
        BY <2>3, <3>2, <4>1, Len(<<>>) = 0 DEF EndBind
      <4> QED
        BY <3>1, <3>2, <4>1, <4>2
    <3>3. CASE Len(contracts) = 2
      <4>1. /\ Len(callbacks) = 2
            /\ at' = IF Bound = Capabilities THEN "serving" ELSE "failed"
        BY <2>3, <3>3 DEF EndBind
      <4>2. Bound = {contracts[1].capability, contracts[2].capability}
        <5>1. DOMAIN callbacks = {1, 2}
          BY <4>1, SequenceOfTwo
        <5> QED
          BY <5>1 DEF Bound
      <4>3. {contracts[k] : k \in DOMAIN contracts} = Compiled => Bound = Capabilities
        BY <3>3, <4>2, BothAreAdvertised
      <4>4. Bound' = Bound
        BY <3>1 DEF Bound
      <4> QED
        BY <3>1, <3>3, <4>1, <4>3, <4>4 DEF Compiled
    <3> QED
      BY <3>2, <3>3
  <2>4. ASSUME NEW s \in InstanceSpecs, ApplyInstanceSpec(s)
        PROVE  BoundInv'
    BY <2>4 DEF ApplyInstanceSpec, native, Bound
  <2>5. ASSUME NEW subject \in Subjects, Invoke(subject)
        PROVE  BoundInv'
    BY <2>5 DEF Invoke, native, Bound
  <2>6. CASE UNCHANGED startupVars
    BY <2>6 DEF startupVars, native, Bound
  <2> QED
    BY <2>1, <2>2, <2>3, <2>4, <2>5, <2>6 DEF Next
<1> QED
  BY <1>1, <1>2, PTL DEF Spec

\* Whatever the bootstrap advertises, the process serves only if that is the
\* compiled contracts, each bound to its own operation (tools_adapter.cpp:333).
THEOREM StartupContracts == Spec => []ServesCompiledContracts
<1>1. ASSUME BoundInv, at = "serving"
      PROVE  /\ {contracts[i] : i \in DOMAIN contracts} = Compiled
             /\ \A i \in DOMAIN contracts :
                  callbacks[i] = CallbacksOf(contracts[i].capability)
  <2>1. DOMAIN contracts = 1 .. Len(callbacks) /\ DOMAIN callbacks = DOMAIN contracts
    BY SMTT(30), <1>1 DEF BoundInv
  <2>2. \A i \in DOMAIN contracts : contracts[i] \in Compiled
    BY <1>1, <2>1 DEF BoundInv
  <2>3. ASSUME NEW d \in Compiled
        PROVE  d \in {contracts[i] : i \in DOMAIN contracts}
    <3>1. d.capability \in Bound /\ d = CompiledContract(d.capability)
      BY <1>1, CompiledIsValid DEF BoundInv
    <3>2. PICK i \in DOMAIN contracts : contracts[i].capability = d.capability
      BY <2>1, <3>1 DEF Bound
    <3> QED
      BY <2>2, <3>1, <3>2, CompiledIsValid
  <2> QED
    BY <1>1, <2>1, <2>2, <2>3 DEF BoundInv
<1>2. BoundInv => ServesCompiledContracts
  BY <1>1 DEF ServesCompiledContracts, Compiled
<1> QED
  BY <1>2, BoundInvHolds, PTL

\* No bootstrap that is right is refused, in whatever order its contracts come.
THEOREM StartupRefusals == Spec => []RefusesOnlyWrongBootstraps
<1>1. BoundInv => RefusesOnlyWrongBootstraps
  BY DEF BoundInv
<1> QED
  BY <1>1, BoundInvHolds, PTL
==============================================================================
