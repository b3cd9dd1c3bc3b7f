-------------------------- MODULE OperationContract --------------------------
(***************************************************************************)
(* What a NON_IDEMPOTENT operation of the adapter promises to its caller,  *)
(* whatever the operation does inside: it has its effect on the ROS graph  *)
(* at most once, and the verdict it ends with never lies about it.         *)
(*   "done"       the effect happened;                                     *)
(*   "denied"     the effect did not happen, so a retry is safe;           *)
(*   "uncertain"  it may have happened, so nothing may be retried.         *)
(* PublishOperation and ServiceOperation are shown to implement it.        *)
(***************************************************************************)
CONSTANT Requests

VARIABLES reached,   \* the request had its effect on the ROS graph
          verdict    \* "none" until the operation has answered

contractVars == <<reached, verdict>>

ContractInit == /\ reached = [r \in Requests |-> FALSE]
                /\ verdict = [r \in Requests |-> "none"]

\* The effect happens, once, while the operation runs.
Reach(r) == /\ verdict[r] = "none"
            /\ ~reached[r]
            /\ reached' = [reached EXCEPT ![r] = TRUE]
            /\ UNCHANGED verdict

\* The operation ends with a verdict the effect agrees with.
End(r, v) == /\ verdict[r] = "none"
             /\ v = "done" => reached[r]
             /\ v = "denied" => ~reached[r]
             /\ verdict' = [verdict EXCEPT ![r] = v]
             /\ UNCHANGED reached

\* The effect and the failure to learn of it are one event: the middleware
\* accepts the message and throws.
ReachAndLose(r) == /\ verdict[r] = "none"
                   /\ ~reached[r]
                   /\ reached' = [reached EXCEPT ![r] = TRUE]
                   /\ verdict' = [verdict EXCEPT ![r] = "uncertain"]

ContractNext == \E r \in Requests :
                    \/ Reach(r)
                    \/ ReachAndLose(r)
                    \/ \E v \in {"done", "denied", "uncertain"} : End(r, v)

ContractSpec == ContractInit /\ [][ContractNext]_contractVars
==============================================================================
