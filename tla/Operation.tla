------------------------------ MODULE Operation ------------------------------
(***************************************************************************)
(* What the two operations of the adapter, Publish and CallService, have   *)
(* in common: the record of a running request, the ways a step of it ends  *)
(* and the things outside the worker thread that it watches.               *)
(*                                                                         *)
(* A request runs on one dispatch worker of the Adapter Runtime.  op[r].at *)
(* is the point the worker has reached; every atomic read of something     *)
(* another thread or the ROS graph writes is a point of its own.  Each     *)
(* operation adds fields of its own to the record.                         *)
(***************************************************************************)
EXTENDS Outcome

CONSTANTS Requests,        \* the requests the Adapter Runtime dispatches
          ClockStepsBack   \* may the system clock be set back?

ASSUME OperationAssumption == ClockStepsBack \in BOOLEAN

VARIABLES op,        \* op[r] : the record of request r
          enabled    \* publish_enabled_ or service_enabled_

opVars == <<op, enabled>>

\* The fields every operation has, before the request is dispatched.
Undispatched == [at        |-> "idle",
                 cancelled |-> FALSE,    \* the cancellation token
                 expired   |-> FALSE,    \* system_clock::now() >= deadline
                 setBack   |-> FALSE,    \* ... and was set back over it since
                 waitOver  |-> FALSE,    \* steady_clock::now() >= wait_until
                 peer      |-> FALSE,    \* a subscriber or service is there now
                 reached   |-> FALSE,    \* the request is on the ROS graph
                 answer    |-> NoAnswer]

At(r, label) == op[r].at = label

Running(r) == op[r].at \notin {"idle", "done"}

\* The three ways a step of the worker ends.
Goto(r, label) == op' = [op EXCEPT ![r].at = label]

\* The answer of a call outlives it; its token, its deadline and its publisher
\* or client do not.
Ended(record, answer) == [record EXCEPT !.at = "done", !.answer = answer,
                                        !.cancelled = FALSE, !.expired = FALSE,
                                        !.peer = FALSE]

Return(r, answer) == op' = [op EXCEPT ![r] = Ended(@, answer)]

Throw(r, exception) == Return(r, failure(exception))

------------------------------------------------------------------------------
\* if (cancellation.IsCancellationRequested()) cancelledError(code)
CheckCancellation(r, from, to, code) ==
    /\ At(r, from)
    /\ \/ op[r].cancelled /\ Throw(r, cancelledError(code))
       \/ ~op[r].cancelled /\ Goto(r, to)
    /\ UNCHANGED enabled

\* requireBeforeDeadline(context, code): the wall clock against the deadline.
requireBeforeDeadline(r, from, to, code) ==
    /\ At(r, from)
    /\ \/ op[r].expired /\ Throw(r, deadlineError(code))
       \/ ~op[r].expired /\ Goto(r, to)
    /\ UNCHANGED enabled

------------------------------------------------------------------------------
(***************************************************************************)
(* The threads and clocks around the worker.                               *)
(***************************************************************************)

\* The Adapter Runtime cancels the request; a token is never reset.
Cancel(r) == /\ ~At(r, "done")
             /\ ~op[r].cancelled
             /\ op' = [op EXCEPT ![r].cancelled = TRUE]
             /\ UNCHANGED enabled

\* The system clock reaches the absolute deadline of the request.
DeadlinePasses(r) == /\ ~At(r, "done")
                     /\ ~op[r].expired
                     /\ op' = [op EXCEPT ![r].expired = TRUE]
                     /\ UNCHANGED enabled

\* The system clock is set back over the deadline.
ClockIsSetBack(r) == /\ ClockStepsBack
                     /\ ~At(r, "done")
                     /\ op[r].expired
                     /\ op' = [op EXCEPT ![r].expired = FALSE,
                                         ![r].setBack = TRUE]
                     /\ UNCHANGED enabled

\* ROS discovery: while the publisher or client exists, a subscriber matches it
\* and leaves, a service appears and goes away.
PeerComesOrGoes(r, exists) == /\ exists
                              /\ op' = [op EXCEPT ![r].peer = ~op[r].peer]
                              /\ UNCHANGED enabled

\* The steady clock reaches wait_until, which is set when the ROS publisher or
\* client exists.
SteadyClockPassesWait(r, waiting) == /\ waiting
                                     /\ ~op[r].waitOver
                                     /\ op' = [op EXCEPT ![r].waitOver = TRUE]
                                     /\ UNCHANGED enabled

\* The Adapter Runtime starts and stops the capability while requests run.
\* ToolsAdapter replaces this step by those of CapabilityLifecycle.
ToggleCapability == /\ enabled' = ~enabled
                    /\ UNCHANGED op

\* What may happen to any request from outside its worker.
Surroundings(r) == \/ Cancel(r)
                   \/ DeadlinePasses(r)
                   \/ ClockIsSetBack(r)

------------------------------------------------------------------------------
(***************************************************************************)
(* What the answers of an operation mean, for its properties and for the   *)
(* refinement of OperationContract.                                        *)
(***************************************************************************)
Reached  == [r \in Requests |-> op[r].reached]
Verdicts == [r \in Requests |-> Verdict(op[r].answer)]

Contract == INSTANCE OperationContract
                WITH reached <- Reached, verdict <- Verdicts
==============================================================================
