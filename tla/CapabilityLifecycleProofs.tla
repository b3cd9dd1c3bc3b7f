----------------------- MODULE CapabilityLifecycleProofs -----------------------
(***************************************************************************)
(* Proofs about the control calls.  The invariant of the flags and of what *)
(* the runtime was told holds for any number of calling threads, of a      *)
(* runtime that keeps starts and clears apart; that of the holders does    *)
(* not need it to.                                                         *)
(***************************************************************************)
EXTENDS CapabilityLifecycle, FiniteSetTheorems, TLAPS

LEMMA InitiallyTyped == LifecycleInit => LifecycleTypeOK
<1> SUFFICES ASSUME LifecycleInit PROVE LifecycleTypeOK
  OBVIOUS
<1>1. told \in [applied : BOOLEAN, active : [Capabilities -> BOOLEAN]]
  BY DEF LifecycleInit
<1>2. holders \in [Capabilities -> SUBSET Callers]
  BY DEF LifecycleInit
<1>3. NoCall \in Calls
  BY DEF NoCall, Calls
<1>4. call \in [Callers -> Calls]
  BY <1>3 DEF LifecycleInit
<1> QED
  BY <1>1, <1>2, <1>4 DEF LifecycleInit, LifecycleTypeOK

LEMMA StaysTyped ==
    LifecycleTypeOK /\ [LifecycleNext]_lifecycleVars => LifecycleTypeOK'
<1> SUFFICES ASSUME LifecycleTypeOK, [LifecycleNext]_lifecycleVars
             PROVE  LifecycleTypeOK'
  OBVIOUS
<1> USE DEF LifecycleTypeOK, Calls, NoCall
<1>1. ASSUME NEW t \in Callers, NEW spec \in Specs, ApplyInstanceSpec(t, spec)
      PROVE  LifecycleTypeOK'
  BY <1>1 DEF ApplyInstanceSpec
<1>2. ASSUME NEW t \in Callers, ClearPublish(t) PROVE LifecycleTypeOK'
  BY <1>2 DEF ClearPublish, Disable, Capabilities, Idle
<1>3. ASSUME NEW t \in Callers, ClearService(t) PROVE LifecycleTypeOK'
  BY <1>3 DEF ClearService, Disable, Capabilities
<1>4. ASSUME NEW t \in Callers, ClearApplied(t) PROVE LifecycleTypeOK'
  BY <1>4 DEF ClearApplied
<1>5. ASSUME NEW t \in Callers, NEW c \in Capabilities, NEW spec \in Specs,
             NEW grant \in Grants, StartCapability(t, c, spec, grant)
      PROVE  LifecycleTypeOK'
  BY <1>5 DEF StartCapability
<1>6. ASSUME NEW t \in Callers, ExchangeFlag(t) PROVE LifecycleTypeOK'
  <2> DEFINE c == call[t].capability
  <2>1. call' \in [Callers -> Calls] /\ UNCHANGED instance_spec_applied
    BY <1>6 DEF ExchangeFlag
  <2>2. CASE enabled[c]
    BY <1>6, <2>1, <2>2 DEF ExchangeFlag
  <2>3. CASE ~enabled[c]
    <3>1. /\ enabled' = [enabled EXCEPT ![c] = TRUE]
          /\ told' = [told EXCEPT !.active[c] = TRUE]
          /\ holders' = [holders EXCEPT ![c] = @ \cup {t}]
      BY <1>6, <2>3 DEF ExchangeFlag
    <3> HIDE DEF c
    <3>2. enabled' \in [Capabilities -> BOOLEAN]
      BY <3>1
    <3>3. holders' \in [Capabilities -> SUBSET Callers]
      BY <3>1
    <3>4. told' \in [applied : BOOLEAN, active : [Capabilities -> BOOLEAN]]
      BY <3>1
    <3> QED BY <2>1, <3>2, <3>3, <3>4
  <2> QED BY <2>2, <2>3
<1>7. ASSUME NEW t \in Callers, NEW c \in Capabilities, StopCapability(t, c)
      PROVE  LifecycleTypeOK'
  BY <1>7 DEF StopCapability, Disable
<1>8. CASE UNCHANGED lifecycleVars
  BY <1>8 DEF lifecycleVars
<1> QED
  BY <1>1, <1>2, <1>3, <1>4, <1>5, <1>6, <1>7, <1>8 DEF LifecycleNext, Call

\* The flags are flags, and a thread is in at most one call, under any calls.
THEOREM LifecycleTypes == LifecycleSpec => []LifecycleTypeOK
BY InitiallyTyped, StaysTyped, PTL DEF LifecycleSpec

------------------------------------------------------------------------------
(***************************************************************************)
(* The flags, when the runtime keeps starts and clears apart.              *)
(***************************************************************************)

\* No start runs beside a clear, a start that passed its checks still finds the
\* spec applied, and a clear leaves behind it what it has stopped.
StartsApartFromClears ==
    \A t, u \in Callers : ~ /\ call[t].at = "exchange"
                            /\ call[u].at \in {"clearService", "clearApplied"}
StartsHaveSpec ==
    \A t \in Callers : call[t].at = "exchange"
        => instance_spec_applied /\ call[t].capability \in Capabilities
ClearsLeaveStopped ==
    \A t \in Callers :
        /\ call[t].at \in {"clearService", "clearApplied"} => ~enabled["publish"]
        /\ call[t].at = "clearApplied" => ~enabled["service"]

\* Between clears the runtime knows both flags of the capabilities, and the flag
\* of the instance spec always.
RuntimeKnows ==
    /\ told.applied = instance_spec_applied
    /\ (\A t \in Callers : call[t].at \notin {"clearService", "clearApplied"})
         => told.active = enabled

FlagsInv == /\ LifecycleTypeOK
            /\ StartsApartFromClears
            /\ StartsHaveSpec
            /\ ClearsLeaveStopped
            /\ EnabledOnlyWhileApplied
            /\ RuntimeKnows

LEMMA FlagsInitially == LifecycleInit => FlagsInv
<1> SUFFICES ASSUME LifecycleInit PROVE FlagsInv
  OBVIOUS
<1>1. LifecycleTypeOK
  BY InitiallyTyped
<1>2. \A t \in Callers : call[t].at = "none"
  BY DEF LifecycleInit, NoCall
<1>3. told.applied = FALSE /\ told.active = [c \in Capabilities |-> FALSE]
  BY DEF LifecycleInit
<1> QED
  BY <1>1, <1>2, <1>3
     DEF LifecycleInit, FlagsInv, StartsApartFromClears, StartsHaveSpec,
         ClearsLeaveStopped, EnabledOnlyWhileApplied, RuntimeKnows

LEMMA FlagsStep ==
    ASSUME Serialised, FlagsInv, [LifecycleNext]_lifecycleVars
    PROVE  FlagsInv'
<1>0. LifecycleTypeOK' /\ LifecycleTypeOK
  BY StaysTyped DEF FlagsInv
<1> USE DEF FlagsInv, StartsApartFromClears, StartsHaveSpec, ClearsLeaveStopped,
            EnabledOnlyWhileApplied, RuntimeKnows
<1>1. ASSUME NEW t \in Callers, NEW spec \in Specs, ApplyInstanceSpec(t, spec)
      PROVE  FlagsInv'
  <2>1. UNCHANGED <<enabled, call>>
    BY <1>1 DEF ApplyInstanceSpec
  <2>2. instance_spec_applied => instance_spec_applied'
    BY <1>1, <1>0 DEF ApplyInstanceSpec, LifecycleTypeOK
  <2>3. told'.applied = instance_spec_applied' /\ told'.active = told.active
    BY <1>1, <1>0 DEF ApplyInstanceSpec, LifecycleTypeOK
  <2> QED
    BY <1>0, <2>1, <2>2, <2>3
<1>2. ASSUME NEW t \in Callers, ClearPublish(t) PROVE FlagsInv'
  <2>1. /\ \A u \in Callers : call[u].at # "exchange"
        /\ UNCHANGED <<instance_spec_applied, told>>
    BY <1>2 DEF ClearPublish, Starting
  <2>2. /\ call'[t].at = "clearService"
        /\ \A u \in Callers \ {t} : call'[u] = call[u]
        /\ Idle(t)
    BY <1>2, <1>0 DEF ClearPublish, LifecycleTypeOK, Calls
  <2>3. enabled' = [enabled EXCEPT !["publish"] = FALSE]
    BY <1>2 DEF ClearPublish, Disable
  <2> QED
    BY <1>0, <2>1, <2>2, <2>3 DEF LifecycleTypeOK, Capabilities
<1>3. ASSUME NEW t \in Callers, ClearService(t) PROVE FlagsInv'
  <2>1. UNCHANGED <<instance_spec_applied, told>> /\ call[t].at = "clearService"
    BY <1>3 DEF ClearService
  <2>2. /\ call'[t].at = "clearApplied"
        /\ \A u \in Callers \ {t} : call'[u] = call[u]
    BY <1>3, <1>0 DEF ClearService, LifecycleTypeOK, Calls
  <2>3. enabled' = [enabled EXCEPT !["service"] = FALSE]
    BY <1>3 DEF ClearService, Disable
  <2> QED
    BY <1>0, <2>1, <2>2, <2>3 DEF LifecycleTypeOK, Capabilities
<1>4. ASSUME NEW t \in Callers, ClearApplied(t) PROVE FlagsInv'
  <2>1. /\ UNCHANGED enabled
        /\ instance_spec_applied' = FALSE
        /\ call[t].at = "clearApplied"
    BY <1>4 DEF ClearApplied
  <2>2. /\ call'[t].at = "none"
        /\ \A u \in Callers \ {t} : call'[u] = call[u]
    BY <1>4, <1>0 DEF ClearApplied, LifecycleTypeOK, Calls, NoCall
  <2>3. \A c \in Capabilities : enabled[c] = FALSE
    BY <2>1, <1>0 DEF LifecycleTypeOK, Capabilities
  <2>4. told'.applied = FALSE /\ told'.active = [c \in Capabilities |-> FALSE]
    BY <1>4 DEF ClearApplied
  <2>5. told'.active = enabled'
    BY <1>0, <2>1, <2>3, <2>4 DEF LifecycleTypeOK
  <2>6. \A u \in Callers : call[u].at # "exchange"
    BY <2>1
  <2> QED
    BY <1>0, <2>1, <2>2, <2>3, <2>4, <2>5, <2>6
<1>5. ASSUME NEW t \in Callers, NEW c \in Capabilities, NEW spec \in Specs,
             NEW grant \in Grants, StartCapability(t, c, spec, grant)
      PROVE  FlagsInv'
  <2>1. /\ UNCHANGED <<instance_spec_applied, enabled, told>>
        /\ instance_spec_applied
        /\ Idle(t)
        /\ \A u \in Callers : call[u].at \notin {"clearService", "clearApplied"}
    BY <1>5 DEF StartCapability, Clearing
  <2>2. /\ call'[t] = [at |-> "exchange", capability |-> c]
        /\ \A u \in Callers \ {t} : call'[u] = call[u]
    BY <1>5, <1>0 DEF StartCapability, LifecycleTypeOK
  <2>3. \A u \in Callers : call'[u].at \notin {"clearService", "clearApplied"}
    BY <2>1, <2>2
  <2>4. StartsHaveSpec'
    <3> SUFFICES ASSUME NEW u \in Callers, call'[u].at = "exchange"
                 PROVE  instance_spec_applied' /\ call'[u].capability \in Capabilities
      OBVIOUS
    <3>1. CASE u = t
      BY <2>1, <2>2, <3>1
    <3>2. CASE u # t
      BY <2>1, <2>2, <3>2
    <3> QED
      BY <3>1, <3>2
  <2>5. RuntimeKnows' /\ EnabledOnlyWhileApplied'
    BY <2>1, <2>3
  <2> QED
    BY <1>0, <2>3, <2>4, <2>5
<1>6. ASSUME NEW t \in Callers, ExchangeFlag(t) PROVE FlagsInv'
  <2>1. /\ call[t].at = "exchange"
        /\ UNCHANGED instance_spec_applied
        /\ instance_spec_applied
        /\ call[t].capability \in Capabilities
        /\ \A u \in Callers : call[u].at \notin {"clearService", "clearApplied"}
    BY <1>6 DEF ExchangeFlag
  <2>2. /\ call'[t].at = "none"
        /\ \A u \in Callers \ {t} : call'[u] = call[u]
    BY <1>6, <1>0 DEF ExchangeFlag, LifecycleTypeOK, NoCall
  <2>3. \A u \in Callers : call'[u].at \notin {"clearService", "clearApplied"}
    BY <2>1, <2>2
  <2>4. told'.applied = told.applied /\ told'.active = enabled'
    <3> DEFINE c == call[t].capability
    <3>1. CASE enabled[c]
      BY <1>6, <3>1, <2>1 DEF ExchangeFlag
    <3>2. CASE ~enabled[c]
      <4>1. /\ enabled' = [enabled EXCEPT ![c] = TRUE]
            /\ told' = [told EXCEPT !.active[c] = TRUE]
        BY <1>6, <3>2 DEF ExchangeFlag
      <4>2. told.active = enabled
        BY <2>1
      <4> HIDE DEF c
      <4> QED
        BY <4>1, <4>2, <1>0 DEF LifecycleTypeOK
    <3> QED
      BY <3>1, <3>2
  <2> QED
    BY <1>0, <2>1, <2>2, <2>3, <2>4
<1>7. ASSUME NEW t \in Callers, NEW c \in Capabilities, StopCapability(t, c)
      PROVE  FlagsInv'
  <2>1. UNCHANGED <<instance_spec_applied, call>>
    BY <1>7 DEF StopCapability
  <2>2. enabled' = [enabled EXCEPT ![c] = FALSE]
    BY <1>7 DEF StopCapability, Disable
  <2>3. /\ told'.applied = told.applied
        /\ told'.active = [told.active EXCEPT ![c] = FALSE]
    BY <1>7, <1>0 DEF StopCapability, LifecycleTypeOK
  <2> QED
    BY <1>0, <2>1, <2>2, <2>3 DEF LifecycleTypeOK, Capabilities
<1>8. CASE UNCHANGED lifecycleVars
  BY <1>0, <1>8 DEF lifecycleVars
<1> QED
  BY <1>1, <1>2, <1>3, <1>4, <1>5, <1>6, <1>7, <1>8 DEF LifecycleNext, Call

\* Of a runtime that keeps starts and clears apart: no capability is on without
\* an instance spec, in the middle of any control call.
THEOREM EnabledImpliesApplied ==
    ASSUME Serialised
    PROVE  LifecycleSpec => []EnabledOnlyWhileApplied
<1>1. FlagsInv => EnabledOnlyWhileApplied
  BY DEF FlagsInv
<1>2. FlagsInv /\ [LifecycleNext]_lifecycleVars => FlagsInv'
  BY FlagsStep
<1> QED
  BY <1>1, <1>2, FlagsInitially, PTL DEF LifecycleSpec

\* Of the same runtime: between its calls, it is right about the three flags.
THEOREM RuntimeIsRight ==
    ASSUME Serialised
    PROVE  LifecycleSpec => []RuntimeViewAgrees
<1>1. FlagsInv => RuntimeViewAgrees
  BY DEF FlagsInv, RuntimeKnows, RuntimeViewAgrees, Idle, NoCall
<1>2. FlagsInv /\ [LifecycleNext]_lifecycleVars => FlagsInv'
  BY FlagsStep
<1> QED
  BY <1>1, <1>2, FlagsInitially, PTL DEF LifecycleSpec

------------------------------------------------------------------------------
(***************************************************************************)
(* The holders, of any runtime.                                            *)
(***************************************************************************)

\* A capability that is off has no holder; one that is on has the thread whose
\* exchange found it off.
HoldersInv == /\ LifecycleTypeOK
              /\ \A c \in Capabilities :
                    \/ holders[c] = {}
                    \/ enabled[c] /\ \E t \in Callers : holders[c] = {t}

\* However starts, stops and clears overlap, no two starts hold a capability.
THEOREM OneHolder == LifecycleSpec => []AtMostOneHolder
<1>1. LifecycleInit => HoldersInv
  BY InitiallyTyped DEF LifecycleInit, HoldersInv
<1>2. HoldersInv /\ [LifecycleNext]_lifecycleVars => HoldersInv'
  <2> SUFFICES ASSUME HoldersInv, [LifecycleNext]_lifecycleVars
               PROVE  HoldersInv'
    OBVIOUS
  <2>0. LifecycleTypeOK /\ LifecycleTypeOK'
    BY StaysTyped DEF HoldersInv
  <2>1. CASE UNCHANGED <<enabled, holders>>
    BY <2>0, <2>1 DEF HoldersInv
  <2>2. ASSUME NEW c \in Capabilities, Disable(c) PROVE HoldersInv'
    BY <2>0, <2>2 DEF HoldersInv, Disable, LifecycleTypeOK
  <2>3. ASSUME NEW t \in Callers, ExchangeFlag(t) PROVE HoldersInv'
    <3> DEFINE c == call[t].capability
    <3>1. CASE enabled[c]
      BY <2>0, <2>1, <2>3, <3>1 DEF ExchangeFlag
    <3>2. CASE ~enabled[c]
      <4>1. /\ enabled' = [enabled EXCEPT ![c] = TRUE]
            /\ holders' = [holders EXCEPT ![c] = @ \cup {t}]
        BY <2>3, <3>2 DEF ExchangeFlag
      <4> HIDE DEF c
      <4>2. ASSUME NEW d \in Capabilities
            PROVE  \/ holders'[d] = {}
                   \/ enabled'[d] /\ \E u \in Callers : holders'[d] = {u}
        <5>1. CASE d = c
          <6>1. holders[c] = {}
            BY <3>2, <5>1 DEF HoldersInv
          <6>2. holders'[c] = {t} /\ enabled'[c]
            BY <4>1, <5>1, <6>1, <2>0 DEF LifecycleTypeOK
          <6> QED
            BY <5>1, <6>2
        <5>2. CASE d # c
          BY <4>1, <5>2, <2>0 DEF HoldersInv, LifecycleTypeOK
        <5> QED
          BY <5>1, <5>2
      <4> QED
        BY <4>2, <2>0 DEF HoldersInv
    <3> QED
      BY <3>1, <3>2
  <2> QED
    <3>1. ASSUME NEW t \in Callers, Call(t) PROVE HoldersInv'
      <4>1. \/ UNCHANGED <<enabled, holders>>
            \/ \E c \in Capabilities : Disable(c)
            \/ ExchangeFlag(t)
        BY <3>1 DEF Call, ApplyInstanceSpec, ClearPublish, ClearService,
                    ClearApplied, StartCapability, StopCapability, Capabilities
      <4> QED
        BY <4>1, <2>1, <2>2, <2>3
    <3> QED
      BY <2>1, <3>1 DEF LifecycleNext, lifecycleVars
<1>3. HoldersInv => AtMostOneHolder
  <2> SUFFICES ASSUME HoldersInv, NEW c \in Capabilities
               PROVE  Cardinality(holders[c]) <= 1
    BY DEF AtMostOneHolder
  <2>1. CASE holders[c] = {}
    BY <2>1, FS_EmptySet
  <2>2. ASSUME NEW t \in Callers, holders[c] = {t}
        PROVE  Cardinality(holders[c]) <= 1
    <3>1. Cardinality({t}) = 1
      BY FS_Singleton, Zenon
    <3> QED
      BY <2>2, <3>1
  <2> QED
    BY <2>1, <2>2 DEF HoldersInv
<1> QED
  BY <1>1, <1>2, <1>3, PTL DEF LifecycleSpec
===============================================================================
