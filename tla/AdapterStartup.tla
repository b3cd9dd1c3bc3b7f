---------------------------- MODULE AdapterStartup ----------------------------
(***************************************************************************)
(* From the bootstrap file to a process that serves: main reads the        *)
(* initial instance spec, fixes the environment from it, initialises ROS,  *)
(* binds the capabilities the bootstrap advertises (BindCapabilities) and  *)
(* then answers the runtime's specs and invocations.                       *)
(*                                                                         *)
(* Two failures are told apart: "failed", where the adapter itself found   *)
(* the bootstrap wrong, and "broken", where the system under it failed.    *)
(***************************************************************************)
EXTENDS InstanceScope, Sequences

CONSTANTS Bootstraps,      \* the bootstraps the process may be started with:
                           \* an initial spec and a sequence of contracts
          InstanceSpecs,   \* specs the runtime may hand to it later
          Subjects,        \* subjects invocations may carry
          Inherited        \* environments the process may be started in

\* A contract names a capability; its version and digest are the compiled ones
\* or not; of an endpoint, deviations are the fields that differ from the
\* compiled endpoint: schemas, modes, timeouts, limits.
Endpoints == [id : STRING, deviations : SUBSET STRING]
Contracts == [capability : STRING, identity : STRING, endpoints : Seq(Endpoints)]

ASSUME StartupAssumption == /\ \A b \in Bootstraps : /\ IsScope(b.spec.scope)
                                                    /\ b.contracts \in Seq(Contracts)
                            /\ \A s \in InstanceSpecs : IsScope(s.scope)
                            /\ \A s \in Subjects : IsScope(s)
                            /\ \A e \in Inherited : IsEnvironment(e)

VARIABLES at,            \* where main is
          spec,          \* the initial spec of the bootstrap
          environment,   \* ROS_DOMAIN_ID and RMW_IMPLEMENTATION
          contracts,     \* config->capabilities(), their contracts
          callbacks,     \* callbacks[i] : what the i-th capability is bound to
          applied,       \* the instance specs accepted since
          served         \* the subjects of the invocations accepted since

startupVars == <<at, spec, environment, contracts, callbacks, applied, served>>

Capabilities == {"publish", "service"}
EndpointOf == [publish |-> "publish", service |-> "call"]

CompiledContract(c) ==
    [capability |-> c,
     identity   |-> "compiled",
     endpoints  |-> <<[id |-> EndpointOf[c], deviations |-> {}]>>]

\* The callbacks of an adapter for a capability.
CallbacksOf(c) == [start |-> c, stop |-> c, operation |-> c]

native == NativeContext(spec)

Init == /\ at = "bootstrap"
        /\ \E bootstrap \in Bootstraps : /\ spec = bootstrap.spec
                                         /\ contracts = bootstrap.contracts
        /\ environment \in Inherited
        /\ callbacks = <<>>
        /\ applied = {}
        /\ served = {}

------------------------------------------------------------------------------
\* FromInstanceSpec and ApplyEnvironment; rclcpp::init and the node come after.
ReadSpec ==
    /\ at = "bootstrap"
    /\ IF FromInstanceSpec(spec)
       THEN \/ /\ at' = "bind"
               /\ environment' = ApplyEnvironment(native, environment)
            \/ at' = "broken" /\ UNCHANGED environment
       ELSE at' = "failed" /\ UNCHANGED environment
    /\ UNCHANGED <<spec, contracts, callbacks, applied, served>>

\* Mutant of validateExpectedContract: the number of endpoints is not compared.
validateSomeEndpoint(actual, expected) ==
    /\ actual.identity = "compiled"
    /\ \E i \in DOMAIN actual.endpoints :
         /\ actual.endpoints[i].id = EndpointOf[expected]
         /\ actual.endpoints[i].deviations = {}

validateExpectedContract(actual, expected) ==
    /\ actual.identity = "compiled"
    /\ Len(actual.endpoints) = 1
    /\ actual.endpoints[1].id = EndpointOf[expected]
    /\ actual.endpoints[1].deviations = {}

\* The capabilities the loop has bound already: publish_bound, service_bound.
Bound == {contracts[i].capability : i \in DOMAIN callbacks}

\* One round of the loop of BindCapabilities: the capability is known, is not
\* bound yet, and its contract is the compiled one.
BindNext ==
    /\ at = "bind"
    /\ Len(contracts) = 2
    /\ Len(callbacks) < 2
    /\ LET actual == contracts[Len(callbacks) + 1]
           c == actual.capability
       IN IF /\ c \in Capabilities \ Bound
             /\ validateExpectedContract(actual, c)
          THEN \/ /\ callbacks' = Append(callbacks, CallbacksOf(c))
                  /\ UNCHANGED at
               \/ at' = "broken" /\ UNCHANGED callbacks
          ELSE at' = "failed" /\ UNCHANGED callbacks
    /\ UNCHANGED <<spec, environment, contracts, applied, served>>

\* The end of BindCapabilities: both capabilities, or none at all.
EndBind ==
    /\ at = "bind"
    /\ \/ Len(contracts) # 2 /\ at' = "failed"
       \/ Len(callbacks) = 2 /\ at' = IF Bound = Capabilities
                                      THEN "serving" ELSE "failed"
    /\ UNCHANGED <<spec, environment, contracts, callbacks, applied, served>>

\* The runtime hands the running process another spec.
ApplyInstanceSpec(s) ==
    /\ at = "serving"
    /\ Accepts(s, native)
    /\ applied' = applied \cup {s}
    /\ UNCHANGED <<at, spec, environment, contracts, callbacks, served>>

\* An invocation gets past validateSubject.
Invoke(subject) ==
    /\ at = "serving"
    /\ validateSubject(subject, native)
    /\ served' = served \cup {subject}
    /\ UNCHANGED <<at, spec, environment, contracts, callbacks, applied>>

Next == \/ ReadSpec
        \/ BindNext
        \/ EndBind
        \/ \E s \in InstanceSpecs : ApplyInstanceSpec(s)
        \/ \E subject \in Subjects : Invoke(subject)

Spec == Init /\ [][Next]_startupVars

------------------------------------------------------------------------------
(***************************************************************************)
(* Properties.                                                             *)
(***************************************************************************)

\* The environment ROS was initialised in is the one every spec accepted later
\* calls for: accepting a spec never leaves the process on another domain or
\* RMW than the caller asked for, though nothing sets the environment again.
EnvironmentServesAppliedSpecs ==
    at = "serving" =>
        \A s \in applied : environment = Environment(NativeContext(s))

\* Every invocation served carries exactly the scope of every spec accepted,
\* attribute for attribute: validateSubject compares with a context the process
\* was started with and never sees the scope of the spec itself.
SubjectsAreAppliedScopes ==
    \A s \in applied \cup {spec}, subject \in served : subject = s.scope

\* A process serves only if its bootstrap advertises the two compiled contracts
\* and nothing else, and each is bound to the operation of its own name.
ServesCompiledContracts ==
    at = "serving" =>
        /\ {contracts[i] : i \in DOMAIN contracts}
             = {CompiledContract(c) : c \in Capabilities}
        /\ \A i \in DOMAIN contracts :
             callbacks[i] = CallbacksOf(contracts[i].capability)

\* The adapter refuses no bootstrap that is right: one with the compiled
\* contracts in either order, and a spec whose scope is that of its context.
RefusesOnlyWrongBootstraps ==
    at = "failed" =>
        \/ spec.scope # ScopeOf(native)
        \/ ~spec.wellFormed
        \/ native.domain_id \notin 0 .. kMaximumDomainID
        \/ native.rmw_implementation \notin RmwImplementations \cup {""}
        \/ native.scope_key \notin ScopeKeys
        \/ Len(contracts) # 2
        \/ {contracts[i] : i \in DOMAIN contracts}
             # {CompiledContract(c) : c \in Capabilities}
==============================================================================
