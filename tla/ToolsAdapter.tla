---------------------------- MODULE ToolsAdapter -----------------------------
(***************************************************************************)
(* The adapter as the Adapter Runtime runs it: the control calls of        *)
(* CapabilityLifecycle, and publish and service requests dispatched to a   *)
(* pool of workers while those calls are made.                             *)
(*                                                                         *)
(* The two operations read the flags the control calls write; nothing else *)
(* couples them but the pool, whose workers they occupy while they wait.   *)
(***************************************************************************)
EXTENDS CapabilityLifecycle

CONSTANTS PublishRequests, ServiceRequests,
          dispatch_workers,        \* size of the pool
          ClockStepsBack, RosFaults

ASSUME PoolAssumption == dispatch_workers \in Nat \ {0}

\* What PublishOperation and ServiceOperation assume of their constants.
ASSUME WorldAssumption ==
    /\ ClockStepsBack \in BOOLEAN
    /\ RosFaults \subseteq {"sendThrows", "unprojectableResponse"}

VARIABLES publish,   \* publish[r] : the record of publish request r
          service    \* service[r] : the record of service request r

vars == <<lifecycleVars, publish, service>>

P == INSTANCE PublishOperation
        WITH Requests <- PublishRequests, op <- publish,
             enabled <- enabled["publish"]

S == INSTANCE ServiceOperation
        WITH Requests <- ServiceRequests, op <- service,
             enabled <- enabled["service"]

Init == LifecycleInit /\ P!Init /\ S!Init

------------------------------------------------------------------------------
\* Mutant of Busy: a worker is not given back when its request is answered.
BusyForever == Cardinality({r \in PublishRequests : ~P!At(r, "idle")})
                 + Cardinality({r \in ServiceRequests : ~S!At(r, "idle")})

\* The workers of the pool that run a request.
Busy == Cardinality({r \in PublishRequests : P!Running(r)})
          + Cardinality({r \in ServiceRequests : S!Running(r)})

\* The runtime hands a request to a free worker, which calls the operation.
DispatchPublish(r) == /\ UNCHANGED <<lifecycleVars, service>>
                      /\ Busy < dispatch_workers
                      /\ P!Admit(r)

DispatchService(r) == /\ UNCHANGED <<lifecycleVars, publish>>
                      /\ Busy < dispatch_workers
                      /\ S!Admit(r)

\* A worker takes its next step.
PublishWorker(r) == UNCHANGED <<lifecycleVars, service>> /\ P!Worker(r)
ServiceWorker(r) == UNCHANGED <<lifecycleVars, publish>> /\ S!Worker(r)

\* The steady clock passes the end of a wait.
PublishTimer(r) == UNCHANGED <<lifecycleVars, service>> /\ P!WaitElapses(r)
ServiceTimer(r) == /\ UNCHANGED <<lifecycleVars, publish>>
                   /\ S!WaitElapses(r)

\* The ROS graph, the executor, the wall clock and the cancellations.
PublishWorld(r) == /\ UNCHANGED <<lifecycleVars, service>>
                   /\ P!Discovery(r) \/ P!Surroundings(r)
ServiceWorld(r) == /\ UNCHANGED <<lifecycleVars, publish>>
                   /\ \/ S!Discovery(r)
                      \/ S!ResponseArrives(r)
                      \/ S!Surroundings(r)

\* A thread of the runtime makes a control call.
Control == /\ LifecycleNext
           /\ UNCHANGED <<publish, service>>

Publish(r)     == \/ DispatchPublish(r)
                  \/ PublishWorker(r)
                  \/ PublishTimer(r)
                  \/ PublishWorld(r)
CallService(r) == \/ DispatchService(r)
                  \/ ServiceWorker(r)
                  \/ ServiceTimer(r)
                  \/ ServiceWorld(r)

Next == \/ Control
        \/ \E r \in PublishRequests : Publish(r)
        \/ \E r \in ServiceRequests : CallService(r)

Spec == Init /\ [][Next]_vars

\* Workers run, the steady clock advances, and the runtime hands a waiting
\* request to a worker that stays free.  Nothing is assumed of the control
\* calls, the ROS graph or the wall clock.
FairSpec ==
    /\ Spec
    /\ \A r \in PublishRequests : /\ WF_vars(DispatchPublish(r))
                                  /\ WF_vars(PublishWorker(r))
                                  /\ WF_vars(PublishTimer(r))
    /\ \A r \in ServiceRequests : /\ WF_vars(DispatchService(r))
                                  /\ WF_vars(ServiceWorker(r))
                                  /\ WF_vars(ServiceTimer(r))

------------------------------------------------------------------------------
(***************************************************************************)
(* Properties.                                                             *)
(***************************************************************************)

\* The types of the three parts.
TypeOK == LifecycleTypeOK /\ P!TypeOK /\ S!TypeOK

\* A request gets past its first check only while an instance spec is applied,
\* although Publish and CallService read the flag of their capability and never
\* instance_spec_applied_ itself, and a clear runs between their reads.
AdmittedOnlyWhileApplied ==
    [][/\ \A r \in PublishRequests :
             P!At(r, "idle") /\ publish'[r].at = "validate"
               => instance_spec_applied
       /\ \A r \in ServiceRequests :
             S!At(r, "idle") /\ service'[r].at = "validate"
               => instance_spec_applied]_vars

\* The adapter implements the specifications of its two operations, so what is
\* shown of them alone holds of them here, under the real control calls.
ImplementsOperations == P!Spec /\ S!Spec

\* Both operations keep the contract of OperationContract under the real control
\* calls: one effect at most, and no answer that denies an effect that happened.
KeepsContracts == P!ContractHolds /\ S!ContractHolds

\* Every request is answered, also the one that finds every worker of the pool
\* waiting for a subscriber or a service that never comes.
EveryRequestAnswered ==
    /\ \A r \in PublishRequests : <>P!At(r, "done")
    /\ \A r \in ServiceRequests : <>S!At(r, "done")
==============================================================================
