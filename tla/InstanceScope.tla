---------------------------- MODULE InstanceScope ----------------------------
(***************************************************************************)
(* The native ROS 2 context of the process and the two texts that must     *)
(* agree with it: the instance spec it is made from (NativeContext::       *)
(* FromInstanceSpec) and the subject of every invocation                   *)
(* (ToolsAdapter::validateSubject).                                        *)
(*                                                                         *)
(* Both carry a kind, a key and a map of attributes.  The code looks up    *)
(* two of the attributes and compares the size of the map; that this is    *)
(* enough to fix the whole map is proved in AdapterStartupProofs.          *)
(***************************************************************************)
EXTENDS Integers, FiniteSets, TLC

CONSTANTS RmwImplementations,   \* canonical RMW identifiers
          ScopeKeys,            \* canonical scope keys
          AttributeNames        \* the names an attribute map may use

\* A map has finitely many attributes.
ASSUME ScopeAssumption == IsFiniteSet(AttributeNames)

kMaximumDomainID == 232

NativeKind == "ros2-native-context"

\* A map of attributes, and the scope of a spec or the subject of an invocation.
IsAttributeMap(m) == /\ m = [name \in DOMAIN m |-> m[name]]
                     /\ DOMAIN m \subseteq AttributeNames

IsScope(s) == /\ s = [kind |-> s.kind, key |-> s.key, attributes |-> s.attributes]
              /\ IsAttributeMap(s.attributes)

\* The attributes that belong to a context.
AttributesOf(context) ==
    IF context.rmw_implementation = ""
    THEN [name \in {"domain-id"} |-> ToString(context.domain_id)]
    ELSE [name \in {"domain-id", "rmw-implementation"} |->
            IF name = "domain-id" THEN ToString(context.domain_id)
                                  ELSE context.rmw_implementation]

ScopeOf(context) == [kind       |-> NativeKind,
                     key        |-> context.scope_key,
                     attributes |-> AttributesOf(context)]

\* Mutant of AttributesMatch: the size of the map is not compared.
AttributesMatchLoosely(attributes, context) ==
    /\ "domain-id" \in DOMAIN attributes
    /\ attributes["domain-id"] = ToString(context.domain_id)
    /\ IF "rmw-implementation" \in DOMAIN attributes
       THEN attributes["rmw-implementation"] = context.rmw_implementation
       ELSE context.rmw_implementation = ""

\* Mutant of AttributesMatch: the size is that of a context with an RMW.
AttributesMatchTwo(attributes, context) ==
    /\ DOMAIN attributes = {"domain-id", "rmw-implementation"}
    /\ attributes["domain-id"] = ToString(context.domain_id)
    /\ attributes["rmw-implementation"] = context.rmw_implementation

\* The test both functions make of an attribute map.  A map without the RMW
\* attribute reads as one with an empty RMW.
AttributesMatch(attributes, context) ==
    LET rmw == context.rmw_implementation
        scoped_rmw == IF "rmw-implementation" \in DOMAIN attributes
                      THEN attributes["rmw-implementation"] ELSE ""
    IN /\ "domain-id" \in DOMAIN attributes
       /\ attributes["domain-id"] = ToString(context.domain_id)
       /\ scoped_rmw = rmw
       /\ Cardinality(DOMAIN attributes) = IF rmw = "" THEN 1 ELSE 2

\* The context a spec names; the environment it calls for.
NativeContext(spec) == [domain_id          |-> spec.domainId,
                        rmw_implementation |-> spec.rmwImplementation,
                        scope_key          |-> spec.scope.key]

\* The environment a context calls for; an empty value is an unset variable.
Environment(context) == [ROS_DOMAIN_ID      |-> ToString(context.domain_id),
                         RMW_IMPLEMENTATION |-> context.rmw_implementation]

\* The environment ROS reads.
IsEnvironment(e) == e = [ROS_DOMAIN_ID      |-> e.ROS_DOMAIN_ID,
                         RMW_IMPLEMENTATION |-> e.RMW_IMPLEMENTATION]

\* setEnvironment: unsetenv of an empty value, setenv of another.
setEnvironment(environment, name, value) == [environment EXCEPT ![name] = value]

\* NativeContext::ApplyEnvironment.
ApplyEnvironment(context, inherited) ==
    setEnvironment(
        setEnvironment(inherited, "ROS_DOMAIN_ID", ToString(context.domain_id)),
        "RMW_IMPLEMENTATION", context.rmw_implementation)

\* FromInstanceSpec returns a context; otherwise it throws.  wellFormed stands
\* for the checks of the payload itself: compiled schema, size, no secrets,
\* strict JSON, known fields.
FromInstanceSpec(spec) ==
    /\ spec.wellFormed
    /\ spec.domainId \in 0 .. kMaximumDomainID
    /\ spec.rmwImplementation \in RmwImplementations \cup {""}
    /\ spec.scope.kind = NativeKind
    /\ spec.scope.key \in ScopeKeys
    /\ AttributesMatch(spec.scope.attributes, NativeContext(spec))

\* validateSubject returns; otherwise it throws invalid_subject.
validateSubject(subject, context) ==
    /\ subject.kind = NativeKind
    /\ subject.key = context.scope_key
    /\ AttributesMatch(subject.attributes, context)

\* Mutant of Accepts: the spec is read but not compared.
AcceptsAnyContext(spec, native_context) == FromInstanceSpec(spec)

\* A running process accepts the specs of its own context.
Accepts(spec, native_context) ==
    /\ FromInstanceSpec(spec)
    /\ NativeContext(spec) = native_context
==============================================================================
