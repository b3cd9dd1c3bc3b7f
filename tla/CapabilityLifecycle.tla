------------------------- MODULE CapabilityLifecycle -------------------------
(***************************************************************************)
(* The control calls of ToolsAdapter: ApplyInstanceSpec, ClearInstanceSpec *)
(* and the start and stop of the two capabilities, made by threads of the  *)
(* Adapter Runtime.                                                        *)
(*                                                                         *)
(* The adapter keeps three atomic flags and no lock.  Each access to one   *)
(* of them is a step of its own, so two calls interleave between the       *)
(* accesses: a start loads instance_spec_applied_ and later exchanges the  *)
(* flag of its capability; a clear stores all three, one after the other.  *)
(***************************************************************************)
EXTENDS FiniteSets, Naturals

CONSTANTS Callers,          \* threads of the Adapter Runtime that make calls
          Specs,            \* instance specs: native contexts, malformed ones
          native_context,   \* the context this process was started for
          Serialised        \* does the runtime keep starts and clears apart?

ASSUME LifecycleAssumption == /\ native_context \in Specs
                              /\ Serialised \in BOOLEAN

VARIABLES instance_spec_applied,
          enabled,   \* enabled[c] : publish_enabled_ and service_enabled_
          call,      \* call[t] : the call thread t is in the middle of
          told,      \* what the runtime knows from the answers it was given
          holders    \* holders[c] : the threads told that they started c

lifecycleVars == <<instance_spec_applied, enabled, call, told, holders>>

Capabilities == {"publish", "service"}

\* A grant of a capability names the compiled endpoint or another one.
Grants == {"compiled", "other"}
validateCapabilityGrant(grant) == grant = "compiled"

\* NativeContext::FromInstanceSpec throws on a malformed spec, which the callers
\* below answer as they do a spec of another context: false, nothing changed.
IsNativeContext(spec) == spec = native_context

NoCall == [at |-> "none", capability |-> "none"]
Calls  == [at : {"none", "exchange", "clearService", "clearApplied"},
           capability : Capabilities \cup {"none"}]

LifecycleInit == /\ instance_spec_applied = FALSE
                 /\ enabled = [c \in Capabilities |-> FALSE]
                 /\ call = [t \in Callers |-> NoCall]
                 /\ told = [applied |-> FALSE,
                            active |-> [c \in Capabilities |-> FALSE]]
                 /\ holders = [c \in Capabilities |-> {}]

Idle(t) == call[t] = NoCall

Starting == \E t \in Callers : call[t].at = "exchange"
Clearing == \E t \in Callers : call[t].at \in {"clearService", "clearApplied"}

\* A store of FALSE to a capability revokes whoever had started it.
Disable(c) == /\ enabled' = [enabled EXCEPT ![c] = FALSE]
              /\ holders' = [holders EXCEPT ![c] = {}]

------------------------------------------------------------------------------
\* Mutant of ApplyInstanceSpec: the flag is stored before the spec is compared.
ApplyBeforeComparing(t, spec) ==
    /\ Idle(t)
    /\ instance_spec_applied' = TRUE
    /\ \/ IsNativeContext(spec) /\ told' = [told EXCEPT !.applied = TRUE]
       \/ ~IsNativeContext(spec) /\ UNCHANGED told
    /\ UNCHANGED <<enabled, call, holders>>

\* ApplyInstanceSpec: a running process cannot change its native context, and
\* a spec it refuses leaves the one applied before in force.
ApplyInstanceSpec(t, spec) ==
    /\ Idle(t)
    /\ \/ /\ IsNativeContext(spec)
          /\ instance_spec_applied' = TRUE
          /\ told' = [told EXCEPT !.applied = TRUE]
       \/ /\ ~IsNativeContext(spec)
          /\ UNCHANGED <<instance_spec_applied, told>>
    /\ UNCHANGED <<enabled, call, holders>>

\* Mutant of ClearPublish: the applied flag is cleared before the capabilities.
ClearAppliedFirst(t) ==
    /\ Idle(t)
    /\ Serialised => ~Starting
    /\ Disable("publish")
    /\ instance_spec_applied' = FALSE
    /\ call' = [call EXCEPT ![t].at = "clearService"]
    /\ UNCHANGED told

\* ClearInstanceSpec: stop publish, stop service, then the applied flag.
ClearPublish(t) ==
    /\ Idle(t)
    /\ Serialised => ~Starting
    /\ Disable("publish")
    /\ call' = [call EXCEPT ![t].at = "clearService"]
    /\ UNCHANGED <<instance_spec_applied, told>>

ClearService(t) ==
    /\ call[t].at = "clearService"
    /\ Disable("service")
    /\ call' = [call EXCEPT ![t].at = "clearApplied"]
    /\ UNCHANGED <<instance_spec_applied, told>>

ClearApplied(t) ==
    /\ call[t].at = "clearApplied"
    /\ instance_spec_applied' = FALSE
    /\ told' = [applied |-> FALSE, active |-> [c \in Capabilities |-> FALSE]]
    /\ call' = [call EXCEPT ![t] = NoCall]
    /\ UNCHANGED <<enabled, holders>>

\* Start...Capability, up to its compare-exchange: an instance spec must be
\* applied, the spec given must be its context and the grant the compiled one.
StartCapability(t, c, spec, grant) ==
    /\ Idle(t)
    /\ Serialised => ~Clearing
    /\ instance_spec_applied
    /\ IsNativeContext(spec)
    /\ validateCapabilityGrant(grant)
    /\ call' = [call EXCEPT ![t] = [at |-> "exchange", capability |-> c]]
    /\ UNCHANGED <<instance_spec_applied, enabled, told, holders>>

\* Mutants of ExchangeFlag: a plain store, and a holder that is not a thread.
StoreFlag(t) ==
    /\ call[t].at = "exchange"
    /\ call' = [call EXCEPT ![t] = NoCall]
    /\ LET c == call[t].capability IN
         /\ enabled' = [enabled EXCEPT ![c] = TRUE]
         /\ told' = [told EXCEPT !.active[c] = TRUE]
         /\ holders' = [holders EXCEPT ![c] = @ \cup {t}]
    /\ UNCHANGED instance_spec_applied
ExchangeForCapability(t) ==
    /\ call[t].at = "exchange"
    /\ call' = [call EXCEPT ![t] = NoCall]
    /\ LET c == call[t].capability IN
         /\ enabled' = [enabled EXCEPT ![c] = TRUE]
         /\ told' = [told EXCEPT !.active[c] = TRUE]
         /\ holders' = [holders EXCEPT ![c] = @ \cup {c}]
    /\ UNCHANGED instance_spec_applied

\* compare_exchange_strong(false, true): only one start gets the capability.
ExchangeFlag(t) ==
    /\ call[t].at = "exchange"
    /\ call' = [call EXCEPT ![t] = NoCall]
    /\ LET c == call[t].capability IN
         \/ /\ ~enabled[c]
            /\ enabled' = [enabled EXCEPT ![c] = TRUE]
            /\ told' = [told EXCEPT !.active[c] = TRUE]
            /\ holders' = [holders EXCEPT ![c] = @ \cup {t}]
         \/ /\ enabled[c]
            /\ UNCHANGED <<enabled, told, holders>>
    /\ UNCHANGED instance_spec_applied

\* Stop...Capability.
StopCapability(t, c) ==
    /\ Idle(t)
    /\ Disable(c)
    /\ told' = [told EXCEPT !.active[c] = FALSE]
    /\ UNCHANGED <<instance_spec_applied, call>>

Call(t) == \/ \E spec \in Specs : ApplyInstanceSpec(t, spec)
           \/ ClearPublish(t)
           \/ ClearService(t)
           \/ ClearApplied(t)
           \/ \E c \in Capabilities, spec \in Specs, grant \in Grants :
                StartCapability(t, c, spec, grant)
           \/ ExchangeFlag(t)
           \/ \E c \in Capabilities : StopCapability(t, c)

LifecycleNext == \E t \in Callers : Call(t)

LifecycleSpec == LifecycleInit /\ [][LifecycleNext]_lifecycleVars

------------------------------------------------------------------------------
(***************************************************************************)
(* Properties.                                                             *)
(***************************************************************************)

\* The flags are flags, and a thread is in at most one call.
LifecycleTypeOK ==
    /\ instance_spec_applied \in BOOLEAN
    /\ enabled \in [Capabilities -> BOOLEAN]
    /\ call \in [Callers -> Calls]
    /\ told \in [applied : BOOLEAN, active : [Capabilities -> BOOLEAN]]
    /\ holders \in [Capabilities -> SUBSET Callers]

\* A capability is enabled only while an instance spec is applied, in the middle
\* of any call: this is what lets Publish and CallService read their own flag
\* and no other.  It needs the order of the stores of ClearInstanceSpec, and a
\* runtime that never overlaps a start with a clear.
EnabledOnlyWhileApplied ==
    \A c \in Capabilities : enabled[c] => instance_spec_applied

\* When no call is in progress, the flags are what the answers told the runtime.
RuntimeViewAgrees ==
    (\A t \in Callers : Idle(t)) =>
        /\ told.applied = instance_spec_applied
        /\ told.active = enabled

\* However calls overlap, a capability is never held by two starts at once.
AtMostOneHolder == \A c \in Capabilities : Cardinality(holders[c]) <= 1
==============================================================================
