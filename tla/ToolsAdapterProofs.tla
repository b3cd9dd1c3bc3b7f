-------------------------- MODULE ToolsAdapterProofs ---------------------------
(***************************************************************************)
(* Proofs about the whole adapter, for any number of control threads,      *)
(* requests and workers: what is shown of the two operations alone, with a *)
(* flag that anyone may toggle, holds in the adapter, where the control    *)
(* calls write that flag and a pool of workers runs the requests.          *)
(***************************************************************************)
EXTENDS ToolsAdapter, CapabilityLifecycleProofs

\* Every step of the adapter is one of the control calls or leaves them alone.
LEMMA StepIsLifecycleStep == [Next]_vars => [LifecycleNext]_lifecycleVars
BY DEF Next, vars, Control, Publish, CallService, DispatchPublish,
       DispatchService, PublishWorker, ServiceWorker, PublishTimer,
       ServiceTimer, PublishWorld, ServiceWorld

\* The control calls are those of CapabilityLifecycle, whatever the requests do.
LEMMA AdapterImplementsLifecycle == Spec => LifecycleSpec
<1>1. Init => LifecycleInit
  BY DEF Init
<1> QED
  BY <1>1, StepIsLifecycleStep, PTL DEF Spec, LifecycleSpec

\* A step of a publish request is one of PublishOperation.
LEMMA PublishSteps ==
    ASSUME NEW r \in PublishRequests, Publish(r)
    PROVE  P!Request(r) /\ UNCHANGED <<lifecycleVars, service>>
BY DEF Publish, DispatchPublish, PublishWorker, PublishTimer, PublishWorld,
       P!Request

LEMMA ServiceSteps ==
    ASSUME NEW r \in ServiceRequests, CallService(r)
    PROVE  S!Request(r) /\ UNCHANGED <<lifecycleVars, publish>>
BY DEF CallService, DispatchService, ServiceWorker, ServiceTimer, ServiceWorld,
       S!Request

\* What the adapter does to the publish requests is what PublishOperation does:
\* a control call toggles their flag or leaves it, a call is not seen at all.
LEMMA StepMapsToPublish ==
    ASSUME LifecycleTypeOK, LifecycleTypeOK', [Next]_vars
    PROVE  [P!Next]_(P!opVars)
<1>1. ASSUME Control PROVE [P!Next]_(P!opVars)
  <2>1. enabled["publish"] \in BOOLEAN /\ enabled'["publish"] \in BOOLEAN
    BY DEF LifecycleTypeOK, Capabilities
  <2>2. enabled'["publish"] = enabled["publish"] \/ enabled'["publish"] = ~enabled["publish"]
    BY <2>1
  <2>3. UNCHANGED publish
    BY <1>1 DEF Control
  <2> QED
    BY <2>2, <2>3 DEF P!opVars, P!Next, P!ToggleCapability
<1>2. ASSUME NEW r \in PublishRequests, Publish(r) PROVE [P!Next]_(P!opVars)
  BY <1>2, PublishSteps DEF P!Next
<1>3. ASSUME NEW r \in ServiceRequests, CallService(r)
      PROVE  [P!Next]_(P!opVars)
  BY <1>3, ServiceSteps DEF P!opVars, lifecycleVars
<1>4. CASE UNCHANGED vars
  BY <1>4 DEF vars, lifecycleVars, P!opVars
<1> QED
  BY <1>1, <1>2, <1>3, <1>4 DEF Next

LEMMA StepMapsToService ==
    ASSUME LifecycleTypeOK, LifecycleTypeOK', [Next]_vars
    PROVE  [S!Next]_(S!opVars)
<1>1. ASSUME Control PROVE [S!Next]_(S!opVars)
  <2>1. enabled["service"] \in BOOLEAN /\ enabled'["service"] \in BOOLEAN
    BY DEF LifecycleTypeOK, Capabilities
  <2>2. enabled'["service"] = enabled["service"] \/ enabled'["service"] = ~enabled["service"]
    BY <2>1
  <2>3. UNCHANGED service
    BY <1>1 DEF Control
  <2> QED
    BY <2>2, <2>3 DEF S!opVars, S!Next, S!ToggleCapability
<1>2. ASSUME NEW r \in ServiceRequests, CallService(r)
      PROVE  [S!Next]_(S!opVars)
  BY <1>2, ServiceSteps DEF S!Next
<1>3. ASSUME NEW r \in PublishRequests, Publish(r) PROVE [S!Next]_(S!opVars)
  BY <1>3, PublishSteps DEF S!opVars, lifecycleVars
<1>4. CASE UNCHANGED vars
  BY <1>4 DEF vars, lifecycleVars, S!opVars
<1> QED
  BY <1>1, <1>2, <1>3, <1>4 DEF Next

\* The adapter implements the specifications of its two operations, whatever its
\* control threads do and however many workers it has.
THEOREM AdapterImplementsOperations == Spec => ImplementsOperations
<1>1. Init => P!Init /\ S!Init
  BY DEF Init
<1>2. LifecycleTypeOK /\ LifecycleTypeOK' /\ [Next]_vars
        => [P!Next]_(P!opVars) /\ [S!Next]_(S!opVars)
  BY StepMapsToPublish, StepMapsToService
<1> QED
  BY <1>1, <1>2, AdapterImplementsLifecycle, LifecycleTypes, PTL
     DEF Spec, ImplementsOperations, P!Spec, S!Spec

------------------------------------------------------------------------------
(***************************************************************************)
(* The theorems about the two operations, carried over to the adapter.     *)
(***************************************************************************)
PP == INSTANCE PublishOperationProofs
        WITH Requests <- PublishRequests, op <- publish,
             enabled <- enabled["publish"]

SP == INSTANCE ServiceOperationProofs
        WITH Requests <- ServiceRequests, op <- service,
             enabled <- enabled["service"]

\* The instance of PublishOperation in ToolsAdapter and the one its proof module
\* brings along are one specification: expanded, their formulas are the same.
LEMMA PublishStepsAgree ==
    (P!Init <=> PP!Init) /\ \A r : P!Request(r) <=> PP!Request(r)
BY DEF P!ErrorClasses, P!permanentError, P!transientError, P!uncertainError,
       P!cancelledError, P!deadlineError, P!rejectedError,
       P!resourceExhaustedError, P!UntypedException, P!failure, P!Success,
       P!NoAnswer, P!Undispatched, P!At, P!Goto, P!Ended, P!Return, P!Throw,
       P!CheckCancellation, P!requireBeforeDeadline, P!Cancel,
       P!DeadlinePasses, P!ClockIsSetBack, P!PeerComesOrGoes,
       P!SteadyClockPassesWait, P!Surroundings, P!NewPublish, P!Init, P!Admit,
       P!Validate, P!CancelBeforeLoad, P!DeadlineBeforeLoad, P!LoadMessage,
       P!CountSubscribers, P!WaitClock, P!WaitCancel, P!WaitDeadline,
       P!RecountSubscribers, P!FinalCancel, P!FinalDeadline, P!Lost,
       P!PublishMessage, P!Reply, P!Worker, P!PublisherExists, P!Discovery,
       P!WaitElapses, P!Request, PP!ErrorClasses, PP!permanentError,
       PP!transientError, PP!uncertainError, PP!cancelledError,
       PP!deadlineError, PP!rejectedError, PP!resourceExhaustedError,
       PP!UntypedException, PP!failure, PP!Success, PP!NoAnswer,
       PP!Undispatched, PP!At, PP!Goto, PP!Ended, PP!Return, PP!Throw,
       PP!CheckCancellation, PP!requireBeforeDeadline, PP!Cancel,
       PP!DeadlinePasses, PP!ClockIsSetBack, PP!PeerComesOrGoes,
       PP!SteadyClockPassesWait, PP!Surroundings, PP!NewPublish, PP!Init,
       PP!Admit, PP!Validate, PP!CancelBeforeLoad, PP!DeadlineBeforeLoad,
       PP!LoadMessage, PP!CountSubscribers, PP!WaitClock, PP!WaitCancel,
       PP!WaitDeadline, PP!RecountSubscribers, PP!FinalCancel,
       PP!FinalDeadline, PP!Lost, PP!PublishMessage, PP!Reply, PP!Worker,
       PP!PublisherExists, PP!Discovery, PP!WaitElapses, PP!Request

LEMMA PublishSpecsAgree == P!Spec <=> PP!Spec
<1>1. [P!Next]_(P!opVars) <=> [PP!Next]_(PP!opVars)
  BY PublishStepsAgree
     DEF P!Next, PP!Next, P!ToggleCapability, PP!ToggleCapability,
         P!opVars, PP!opVars
<1> QED
  BY <1>1, PublishStepsAgree, PTL DEF P!Spec, PP!Spec

LEMMA PublishTypesAgree == P!TypeOK <=> PP!TypeOK
BY DEF P!ErrorClasses, P!Answers, P!PublishLabels, P!PublishCodes,
       P!PublishRecord, P!TypeOK, PP!ErrorClasses, PP!Answers,
       PP!PublishLabels, PP!PublishCodes, PP!PublishRecord, PP!TypeOK

LEMMA PublishContractsAgree == P!ContractHolds <=> PP!ContractHolds
<1>1. /\ P!Contract!ContractInit <=> PP!Contract!ContractInit
      /\ [P!Contract!ContractNext]_(P!Contract!contractVars)
           <=> [PP!Contract!ContractNext]_(PP!Contract!contractVars)
  BY DEF P!Contract!ContractInit, P!Contract!Reach, P!Contract!End,
         P!Contract!ReachAndLose, P!Contract!ContractNext,
         P!Contract!contractVars, P!Reached, P!Verdicts, P!Verdict,
         P!Succeeded, P!DeniesEffect, P!ErrorClasses, PP!Contract!ContractInit,
         PP!Contract!Reach, PP!Contract!End, PP!Contract!ReachAndLose,
         PP!Contract!ContractNext, PP!Contract!contractVars, PP!Reached,
         PP!Verdicts, PP!Verdict, PP!Succeeded, PP!DeniesEffect,
         PP!ErrorClasses
<1> QED
  BY <1>1, PTL DEF P!ContractHolds, PP!ContractHolds,
     P!Contract!ContractSpec, PP!Contract!ContractSpec

\* The instance of ServiceOperation in ToolsAdapter and the one its proof module
\* brings along are one specification: expanded, their formulas are the same.
LEMMA ServiceStepsAgree ==
    (S!Init <=> SP!Init) /\ \A r : S!Request(r) <=> SP!Request(r)
BY DEF S!ErrorClasses, S!permanentError, S!transientError, S!uncertainError,
       S!cancelledError, S!deadlineError, S!rejectedError,
       S!resourceExhaustedError, S!UntypedException, S!failure, S!Success,
       S!NoAnswer, S!Undispatched, S!At, S!Goto, S!Ended, S!Return, S!Throw,
       S!CheckCancellation, S!requireBeforeDeadline, S!Cancel,
       S!DeadlinePasses, S!ClockIsSetBack, S!PeerComesOrGoes,
       S!SteadyClockPassesWait, S!Surroundings, S!Arrivals,
       S!ProjectionErrors, SP!ProjectionErrors, S!NewCall, S!Init,
       S!Admit, S!Validate, S!LoadRequest, S!CheckReady, S!WaitCancel,
       S!WaitDeadline, S!WaitClock, S!FinalCancel, S!FinalDeadline, S!SendLost,
       S!SendRequest, S!PollResponse, S!GivenUp, S!GiveUp, S!PollCancel,
       S!PollClock, S!PollDeadline, S!GetResponse, S!ProjectResponse, S!Reply,
       S!Worker, S!Waiting, S!Polling, S!Discovery, S!Fulfilled,
       S!ResponseArrives, S!WaitElapses, S!Request, SP!ErrorClasses,
       SP!permanentError, SP!transientError, SP!uncertainError,
       SP!cancelledError, SP!deadlineError, SP!rejectedError,
       SP!resourceExhaustedError, SP!UntypedException, SP!failure, SP!Success,
       SP!NoAnswer, SP!Undispatched, SP!At, SP!Goto, SP!Ended, SP!Return,
       SP!Throw, SP!CheckCancellation, SP!requireBeforeDeadline, SP!Cancel,
       SP!DeadlinePasses, SP!ClockIsSetBack, SP!PeerComesOrGoes,
       SP!SteadyClockPassesWait, SP!Surroundings, SP!Arrivals, SP!NewCall,
       SP!Init, SP!Admit, SP!Validate, SP!LoadRequest, SP!CheckReady,
       SP!WaitCancel, SP!WaitDeadline, SP!WaitClock, SP!FinalCancel,
       SP!FinalDeadline, SP!SendLost, SP!SendRequest, SP!PollResponse,
       SP!GivenUp, SP!GiveUp, SP!PollCancel, SP!PollClock, SP!PollDeadline,
       SP!GetResponse, SP!ProjectResponse, SP!Reply, SP!Worker, SP!Waiting,
       SP!Polling, SP!Discovery, SP!Fulfilled, SP!ResponseArrives,
       SP!WaitElapses, SP!Request

LEMMA ServiceSpecsAgree == S!Spec <=> SP!Spec
<1>1. [S!Next]_(S!opVars) <=> [SP!Next]_(SP!opVars)
  BY ServiceStepsAgree
     DEF S!Next, SP!Next, S!ToggleCapability, SP!ToggleCapability,
         S!opVars, SP!opVars
<1> QED
  BY <1>1, ServiceStepsAgree, PTL DEF S!Spec, SP!Spec

LEMMA ServiceTypesAgree == S!TypeOK <=> SP!TypeOK
BY DEF S!ErrorClasses, S!Answers, S!ServiceLabels, S!Arrivals, S!ServiceCodes,
       S!ProjectionErrors, SP!ProjectionErrors, S!ServiceRecord, S!TypeOK, SP!ErrorClasses, SP!Answers,
       SP!ServiceLabels, SP!Arrivals, SP!ServiceCodes, SP!ServiceRecord,
       SP!TypeOK

LEMMA ServiceContractsAgree == S!ContractHolds <=> SP!ContractHolds
<1>1. /\ S!Contract!ContractInit <=> SP!Contract!ContractInit
      /\ [S!Contract!ContractNext]_(S!Contract!contractVars)
           <=> [SP!Contract!ContractNext]_(SP!Contract!contractVars)
  BY DEF S!Contract!ContractInit, S!Contract!Reach, S!Contract!End,
         S!Contract!ReachAndLose, S!Contract!ContractNext,
         S!Contract!contractVars, S!Reached, S!Verdicts, S!Verdict,
         S!Succeeded, S!DeniesEffect, S!ErrorClasses, SP!Contract!ContractInit,
         SP!Contract!Reach, SP!Contract!End, SP!Contract!ReachAndLose,
         SP!Contract!ContractNext, SP!Contract!contractVars, SP!Reached,
         SP!Verdicts, SP!Verdict, SP!Succeeded, SP!DeniesEffect,
         SP!ErrorClasses
<1> QED
  BY <1>1, PTL DEF S!ContractHolds, SP!ContractHolds,
     S!Contract!ContractSpec, SP!Contract!ContractSpec

\* The records of requests and control calls keep their types in the adapter.
THEOREM AdapterTypeCorrect == Spec => []TypeOK
<1>1. Spec => []LifecycleTypeOK
  BY AdapterImplementsLifecycle, LifecycleTypes, PTL
<1>2. Spec => []P!TypeOK
  <2>1. PP!Spec => []PP!TypeOK
    BY PP!PublishTypeCorrect, WorldAssumption DEF PP!OperationAssumption
  <2>2. Spec => P!Spec
    BY AdapterImplementsOperations DEF ImplementsOperations
  <2> QED
    BY <2>1, <2>2, PublishSpecsAgree, PublishTypesAgree, PTL
<1>3. Spec => []S!TypeOK
  <2>1. SP!Spec => []SP!TypeOK
    BY SP!ServiceTypeCorrect, WorldAssumption
       DEF SP!OperationAssumption, SP!RosFaultsAssumption
  <2>2. Spec => S!Spec
    BY AdapterImplementsOperations DEF ImplementsOperations
  <2> QED
    BY <2>1, <2>2, ServiceSpecsAgree, ServiceTypesAgree, PTL
<1> QED
  BY <1>1, <1>2, <1>3, PTL DEF TypeOK

\* Without the two faults of the ROS side, both operations keep their contract
\* in the adapter, whatever the control calls do and however the pool is shared.
THEOREM AdapterKeepsContracts ==
    ASSUME RosFaults = {} PROVE Spec => KeepsContracts
<1>1. Spec => P!ContractHolds
  <2>1. PP!Spec => PP!ContractHolds
    BY PP!PublishImplementsContract, WorldAssumption DEF PP!OperationAssumption
  <2>2. Spec => P!Spec
    BY AdapterImplementsOperations DEF ImplementsOperations
  <2> QED
    BY <2>1, <2>2, PublishSpecsAgree, PublishContractsAgree, PTL
<1>2. Spec => S!ContractHolds
  <2>1. SP!Spec => SP!ContractHolds
    BY SP!ServiceImplementsContract, WorldAssumption
       DEF SP!OperationAssumption, SP!RosFaultsAssumption
  <2>2. Spec => S!Spec
    BY AdapterImplementsOperations DEF ImplementsOperations
  <2> QED
    BY <2>1, <2>2, ServiceSpecsAgree, ServiceContractsAgree, PTL
<1> QED
  BY <1>1, <1>2 DEF KeepsContracts

------------------------------------------------------------------------------
(***************************************************************************)
(* Admission: the flag of a capability stands for that of the spec.        *)
(***************************************************************************)

\* A worker admits a request only while an instance spec is applied, if the
\* runtime keeps starts and clears apart: the flag of its capability, which is
\* all a worker reads, is never set without that of the spec.
THEOREM AdmitsOnlyWhileApplied ==
    ASSUME Serialised PROVE Spec => AdmittedOnlyWhileApplied
<1>1. ASSUME EnabledOnlyWhileApplied, PP!TypeOK, PP!RecordsAgree, [Next]_vars,
             NEW r \in PublishRequests, P!At(r, "idle"),
             publish'[r].at = "validate"
      PROVE  instance_spec_applied
  <2>1. publish' # publish
    BY <1>1 DEF P!At
  <2>2. PICK q \in PublishRequests : Publish(q)
    BY <1>1, <2>1, ServiceSteps DEF Next, vars, Control
  <2>3. PP!Request(q)
    BY <2>2, PublishSteps, PublishStepsAgree
  <2>4. PP!At(r, "idle")
    BY <1>1 DEF P!At, PP!At
  <2>5. enabled["publish"]
    BY <1>1, <2>3, <2>4, PP!AdmissionReadsFlag, WorldAssumption
       DEF PP!OperationAssumption
  <2> QED
    BY <1>1, <2>5 DEF EnabledOnlyWhileApplied, Capabilities
<1>2. ASSUME EnabledOnlyWhileApplied, SP!TypeOK, [Next]_vars,
             NEW r \in ServiceRequests, S!At(r, "idle"),
             service'[r].at = "validate"
      PROVE  instance_spec_applied
  <2>1. service' # service
    BY <1>2 DEF S!At
  <2>2. PICK q \in ServiceRequests : CallService(q)
    BY <1>2, <2>1, PublishSteps DEF Next, vars, Control
  <2>3. SP!Request(q)
    BY <2>2, ServiceSteps, ServiceStepsAgree
  <2>4. SP!At(r, "idle")
    BY <1>2 DEF S!At, SP!At
  <2>5. enabled["service"]
    BY <1>2, <2>3, <2>4, SP!AdmissionReadsFlag, WorldAssumption
       DEF SP!OperationAssumption, SP!RosFaultsAssumption
  <2> QED
    BY <1>2, <2>5 DEF EnabledOnlyWhileApplied, Capabilities
<1> DEFINE Admitted ==
        /\ \A r \in PublishRequests :
              P!At(r, "idle") /\ publish'[r].at = "validate"
                => instance_spec_applied
        /\ \A r \in ServiceRequests :
              S!At(r, "idle") /\ service'[r].at = "validate"
                => instance_spec_applied
<1>3. /\ EnabledOnlyWhileApplied /\ PP!TypeOK /\ PP!RecordsAgree /\ SP!TypeOK
      /\ [Next]_vars
      => [Admitted]_vars
  BY <1>1, <1>2
<1>4. Spec => []EnabledOnlyWhileApplied
  BY AdapterImplementsLifecycle, EnabledImpliesApplied, PTL
<1>5. Spec => [](PP!TypeOK /\ PP!RecordsAgree)
  <2>1. PP!Spec => []PP!TypeOK /\ []PP!RecordsAgree
    BY PP!PublishTypeCorrect, PP!PublishRecordsAgree, WorldAssumption
       DEF PP!OperationAssumption
  <2>2. Spec => P!Spec
    BY AdapterImplementsOperations DEF ImplementsOperations
  <2> QED
    BY <2>1, <2>2, PublishSpecsAgree, PTL
<1>6. Spec => []SP!TypeOK
  <2>1. SP!Spec => []SP!TypeOK
    BY SP!ServiceTypeCorrect, WorldAssumption
       DEF SP!OperationAssumption, SP!RosFaultsAssumption
  <2>2. Spec => S!Spec
    BY AdapterImplementsOperations DEF ImplementsOperations
  <2> QED
    BY <2>1, <2>2, ServiceSpecsAgree, PTL
<1>7. Spec => [][Next]_vars
  BY DEF Spec
<1> QED
  BY <1>3, <1>4, <1>5, <1>6, <1>7, PTL DEF AdmittedOnlyWhileApplied
===============================================================================
