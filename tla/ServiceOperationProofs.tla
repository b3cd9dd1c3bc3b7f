----------------------- MODULE ServiceOperationProofs ------------------------
(***************************************************************************)
(* Proofs about ServiceOperation, for every set of requests, every choice  *)
(* of faults of the ROS side, and whether or not the system clock steps    *)
(* back.                                                                   *)
(***************************************************************************)
EXTENDS ServiceOperation, TLAPS

\* A ToolsError of one of the seven classes is answered as it is.
LEMMA TypedFailure ==
    ASSUME NEW c \in ErrorClasses, NEW codes, NEW k \in codes
    PROVE  /\ failure([class |-> c, code |-> k]) = [class |-> c, code |-> k]
           /\ failure([class |-> c, code |-> k]) \in Answers(codes)
BY DEF failure, Answers

\* An exception without a type is answered as a transient failure.
LEMMA UntypedFailure ==
    ASSUME NEW codes
    PROVE  /\ failure(UntypedException)
                = [class |-> "transient", code |-> "internal_error"]
           /\ failure(UntypedException) \in Answers(codes)
BY DEF failure, UntypedException, Answers, ErrorClasses

\* The answer of every failure CallService can throw before it sends, class and
\* type; none of them is an unknown outcome.
LEMMA EarlyFailures ==
    /\ failure(rejectedError("service_capability_disabled")).class = "rejected"
    /\ failure(rejectedError("service_capability_disabled")).code = "service_capability_disabled"
    /\ failure(rejectedError("service_capability_disabled")) \in Answers(ServiceCodes)
    /\ failure(permanentError("invalid_request")).class = "permanent"
    /\ failure(permanentError("invalid_request")).code = "invalid_request"
    /\ failure(permanentError("invalid_request")) \in Answers(ServiceCodes)
    /\ failure(permanentError("invalid_message")).class = "permanent"
    /\ failure(permanentError("invalid_message")).code = "invalid_message"
    /\ failure(permanentError("invalid_message")) \in Answers(ServiceCodes)
    /\ failure(resourceExhaustedError("request_too_large")).class = "resource-exhausted"
    /\ failure(resourceExhaustedError("request_too_large")).code = "request_too_large"
    /\ failure(resourceExhaustedError("request_too_large")) \in Answers(ServiceCodes)
    /\ failure(cancelledError("service_call_cancelled")).class = "cancelled"
    /\ failure(cancelledError("service_call_cancelled")).code = "service_call_cancelled"
    /\ failure(cancelledError("service_call_cancelled")) \in Answers(ServiceCodes)
    /\ failure(deadlineError("service_wait_deadline_elapsed")).class = "deadline"
    /\ failure(deadlineError("service_wait_deadline_elapsed")).code = "service_wait_deadline_elapsed"
    /\ failure(deadlineError("service_wait_deadline_elapsed")) \in Answers(ServiceCodes)
    /\ failure(deadlineError("service_call_deadline_elapsed")).class = "deadline"
    /\ failure(deadlineError("service_call_deadline_elapsed")).code = "service_call_deadline_elapsed"
    /\ failure(deadlineError("service_call_deadline_elapsed")) \in Answers(ServiceCodes)
    /\ failure(transientError("service_unavailable")).class = "transient"
    /\ failure(transientError("service_unavailable")).code = "service_unavailable"
    /\ failure(transientError("service_unavailable")) \in Answers(ServiceCodes)
    /\ failure(UntypedException).class = "transient"
    /\ failure(UntypedException).code = "internal_error"
    /\ failure(UntypedException) \in Answers(ServiceCodes)
BY TypedFailure, UntypedFailure
   DEF rejectedError, permanentError, resourceExhaustedError, cancelledError,
       deadlineError, transientError, ErrorClasses, ServiceCodes

\* The answers of an unknown outcome.
LEMMA UncertainFailures ==
    ASSUME NEW k \in {"service_outcome_unknown_after_cancel",
                      "service_outcome_unknown_after_timeout",
                      "service_response_missing", "operation_result_too_large"}
    PROVE  /\ failure(uncertainError(k)).class = "uncertain"
           /\ failure(uncertainError(k)).code = k
           /\ failure(uncertainError(k)) \in Answers(ServiceCodes)
<1>1. k \in ServiceCodes /\ "uncertain" \in ErrorClasses
  BY DEF ServiceCodes, ErrorClasses
<1> QED
  BY <1>1, TypedFailure DEF uncertainError

\* The answers to a response that cannot be projected.
LEMMA ProjectionFailures ==
    ASSUME NEW code \in ProjectionErrors
    PROVE  /\ failure(permanentError(code)).class = "permanent"
           /\ failure(permanentError(code)).code = code
           /\ failure(permanentError(code)) \in Answers(ServiceCodes)
<1>1. code \in ServiceCodes /\ "permanent" \in ErrorClasses
  BY DEF ServiceCodes, ErrorClasses
<1> QED
  BY <1>1, TypedFailure DEF permanentError

LEMMA SuccessAnswer ==
    /\ Success \in Answers(ServiceCodes)
    /\ Success.class = "success"
    /\ Success.code = "completed"
BY DEF Success, Answers

LEMMA NewCallTyped == NewCall \in ServiceRecord
<1>1. NoAnswer \in Answers(ServiceCodes)
  BY DEF NoAnswer, Answers
<1> QED
  BY <1>1 DEF NewCall, Undispatched, ServiceRecord, ServiceLabels

\* A call that ends with an answer of CallService leaves a record of its type,
\* with that answer and the effect it had.
LEMMA EndedTyped ==
    ASSUME NEW rec \in ServiceRecord, NEW a \in Answers(ServiceCodes)
    PROVE  /\ Ended(rec, a) \in ServiceRecord
           /\ Ended(rec, a).at = "done"
           /\ Ended(rec, a).answer = a
           /\ Ended(rec, a).reached = rec.reached
           /\ Ended(rec, a).pending = rec.pending
           /\ Ended(rec, a).response = rec.response
           /\ Ended(rec, a).setBack = rec.setBack
BY DEF Ended, ServiceRecord, ServiceLabels

\* The record a send that threw leaves behind.
LEMMA SendLostTyped ==
    ASSUME NEW rec \in ServiceRecord, NEW out \in BOOLEAN
    PROVE  /\ SendLost(rec, out) \in ServiceRecord
           /\ SendLost(rec, out).at = "done"
           /\ SendLost(rec, out).answer = failure(UntypedException)
           /\ SendLost(rec, out).reached = out
           /\ SendLost(rec, out).pending = rec.pending
           /\ SendLost(rec, out).response = rec.response
           /\ SendLost(rec, out).setBack = rec.setBack
<1> DEFINE over == [rec EXCEPT !.reached = out]
           thrown == failure(UntypedException)
<1>1. /\ over \in ServiceRecord
      /\ over.reached = out
      /\ over.pending = rec.pending
      /\ over.response = rec.response
      /\ over.setBack = rec.setBack
  BY DEF ServiceRecord
<1>2. SendLost(rec, out) = Ended(over, thrown)
  BY DEF SendLost
<1>3. thrown \in Answers(ServiceCodes)
  BY EarlyFailures
<1> HIDE DEF over, thrown
<1>4. /\ Ended(over, thrown) \in ServiceRecord
      /\ Ended(over, thrown).at = "done"
      /\ Ended(over, thrown).answer = thrown
      /\ Ended(over, thrown).reached = over.reached
      /\ Ended(over, thrown).pending = over.pending
      /\ Ended(over, thrown).response = over.response
      /\ Ended(over, thrown).setBack = over.setBack
  BY <1>1, <1>3, EndedTyped
<1>5. /\ SendLost(rec, out) \in ServiceRecord
      /\ SendLost(rec, out).at = "done"
      /\ SendLost(rec, out).answer = thrown
      /\ SendLost(rec, out).reached = out
      /\ SendLost(rec, out).pending = rec.pending
      /\ SendLost(rec, out).response = rec.response
      /\ SendLost(rec, out).setBack = rec.setBack
  BY <1>1, <1>2, <1>4
<1> QED
  BY <1>5 DEF thrown

\* The record of a call the worker has given up.
LEMMA GivenUpTyped ==
    ASSUME NEW rec \in ServiceRecord,
           NEW k \in {"service_outcome_unknown_after_cancel",
                      "service_outcome_unknown_after_timeout"}
    PROVE  /\ GivenUp(rec, k) \in ServiceRecord
           /\ GivenUp(rec, k).at = "done"
           /\ GivenUp(rec, k).answer.class = "uncertain"
           /\ GivenUp(rec, k).answer.code = k
           /\ GivenUp(rec, k).reached = rec.reached
           /\ GivenUp(rec, k).pending = FALSE
           /\ GivenUp(rec, k).response = rec.response
           /\ GivenUp(rec, k).setBack = rec.setBack
<1> DEFINE over == [rec EXCEPT !.pending = FALSE]
           unknown == failure(uncertainError(k))
<1>1. /\ over \in ServiceRecord
      /\ over.pending = FALSE
      /\ over.reached = rec.reached
      /\ over.response = rec.response
      /\ over.setBack = rec.setBack
  BY DEF ServiceRecord
<1>2. GivenUp(rec, k) = Ended(over, unknown)
  BY DEF GivenUp
<1>3. /\ unknown \in Answers(ServiceCodes)
      /\ unknown.class = "uncertain"
      /\ unknown.code = k
  BY UncertainFailures
<1> HIDE DEF over, unknown
<1>4. /\ Ended(over, unknown) \in ServiceRecord
      /\ Ended(over, unknown).at = "done"
      /\ Ended(over, unknown).answer = unknown
      /\ Ended(over, unknown).reached = over.reached
      /\ Ended(over, unknown).pending = over.pending
      /\ Ended(over, unknown).response = over.response
      /\ Ended(over, unknown).setBack = over.setBack
  BY <1>1, <1>3, EndedTyped
<1> QED
  BY <1>1, <1>2, <1>3, <1>4

LEMMA CancelledCallTyped ==
    ASSUME NEW rec \in ServiceRecord
    PROVE  LET gone == GivenUp(rec, "service_outcome_unknown_after_cancel") IN
             /\ gone \in ServiceRecord
             /\ gone.at = "done"
             /\ gone.answer.class = "uncertain"
             /\ gone.answer.code \in Unknown
             /\ gone.reached = rec.reached
             /\ gone.pending = FALSE
             /\ gone.response = rec.response
             /\ gone.setBack = rec.setBack
BY GivenUpTyped DEF Unknown

LEMMA OverdueCallTyped ==
    ASSUME NEW rec \in ServiceRecord
    PROVE  LET gone == GivenUp(rec, "service_outcome_unknown_after_timeout") IN
             /\ gone \in ServiceRecord
             /\ gone.at = "done"
             /\ gone.answer.class = "uncertain"
             /\ gone.answer.code \in Unknown
             /\ gone.reached = rec.reached
             /\ gone.pending = FALSE
             /\ gone.response = rec.response
             /\ gone.setBack = rec.setBack
BY GivenUpTyped DEF Unknown

\* The record of a call whose response has arrived.
LEMMA FulfilledTyped ==
    ASSUME NEW rec \in ServiceRecord, NEW response \in Arrivals
    PROVE  /\ Fulfilled(rec, response) \in ServiceRecord
           /\ Fulfilled(rec, response).at = rec.at
           /\ Fulfilled(rec, response).cancelled = rec.cancelled
           /\ Fulfilled(rec, response).expired = rec.expired
           /\ Fulfilled(rec, response).setBack = rec.setBack
           /\ Fulfilled(rec, response).answer = rec.answer
           /\ Fulfilled(rec, response).reached = rec.reached
           /\ Fulfilled(rec, response).pending = FALSE
           /\ Fulfilled(rec, response).response = response
BY DEF Fulfilled, ServiceRecord

------------------------------------------------------------------------------
(***************************************************************************)
(* Type correctness.                                                       *)
(***************************************************************************)

\* Every step of a request leaves its record of the type of a service record.
LEMMA RequestKeepsType ==
    ASSUME TypeOK, NEW r \in Requests, Request(r)
    PROVE  TypeOK'
<1> USE DEF TypeOK, Goto, Throw, Return
<1>0. op[r] \in ServiceRecord
  OBVIOUS
<1>1. CASE Admit(r)
  BY <1>0, <1>1, EarlyFailures, EndedTyped
     DEF Admit, ServiceRecord, ServiceLabels, At
<1>2. CASE Validate(r)
  BY <1>0, <1>2, EarlyFailures, EndedTyped
     DEF Validate, ServiceRecord, ServiceLabels, At
<1>3. CASE LoadRequest(r)
  BY <1>0, <1>3, EarlyFailures, EndedTyped
     DEF LoadRequest, ServiceRecord, ServiceLabels, At
<1>4. CASE CheckReady(r)
  BY <1>0, <1>4, EarlyFailures, EndedTyped
     DEF CheckReady, ServiceRecord, ServiceLabels, At
<1>5. CASE WaitCancel(r)
  BY <1>0, <1>5, EarlyFailures, EndedTyped
     DEF WaitCancel, CheckCancellation, ServiceRecord, ServiceLabels, At
<1>6. CASE WaitDeadline(r)
  BY <1>0, <1>6, EarlyFailures, EndedTyped
     DEF WaitDeadline, requireBeforeDeadline, ServiceRecord, ServiceLabels, At
<1>7. CASE WaitClock(r)
  BY <1>0, <1>7, EarlyFailures, EndedTyped
     DEF WaitClock, ServiceRecord, ServiceLabels, At
<1>8. CASE FinalCancel(r)
  BY <1>0, <1>8, EarlyFailures, EndedTyped
     DEF FinalCancel, CheckCancellation, ServiceRecord, ServiceLabels, At
<1>9. CASE FinalDeadline(r)
  BY <1>0, <1>9, EarlyFailures, EndedTyped
     DEF FinalDeadline, requireBeforeDeadline, ServiceRecord, ServiceLabels, At
<1>10. CASE SendRequest(r)
  BY <1>0, <1>10, SendLostTyped, EarlyFailures
     DEF SendRequest, ServiceRecord, ServiceLabels, At
<1>11. CASE PollResponse(r)
  BY <1>0, <1>11
     DEF PollResponse, ServiceRecord, ServiceLabels, At
<1>12. CASE PollCancel(r)
  <2>1. GivenUp(op[r], "service_outcome_unknown_after_cancel") \in ServiceRecord
    BY <1>0, CancelledCallTyped
  <2>2. [op[r] EXCEPT !.at = "pollClock"] \in ServiceRecord
    BY <1>0 DEF ServiceRecord, ServiceLabels
  <2> QED
    BY <1>12, <2>1, <2>2 DEF PollCancel, GiveUp
<1>13. CASE PollClock(r)
  <2>1. GivenUp(op[r], "service_outcome_unknown_after_timeout") \in ServiceRecord
    BY <1>0, OverdueCallTyped
  <2>2. [op[r] EXCEPT !.at = "pollDeadline"] \in ServiceRecord
    BY <1>0 DEF ServiceRecord, ServiceLabels
  <2> QED
    BY <1>13, <2>1, <2>2 DEF PollClock, GiveUp
<1>14. CASE PollDeadline(r)
  <2>1. GivenUp(op[r], "service_outcome_unknown_after_timeout") \in ServiceRecord
    BY <1>0, OverdueCallTyped
  <2>2. [op[r] EXCEPT !.at = "poll"] \in ServiceRecord
    BY <1>0 DEF ServiceRecord, ServiceLabels
  <2> QED
    BY <1>14, <2>1, <2>2 DEF PollDeadline, GiveUp
<1>15. CASE GetResponse(r)
  BY <1>0, <1>15, UncertainFailures, EndedTyped
     DEF GetResponse, ServiceRecord, ServiceLabels, At
<1>16. CASE ProjectResponse(r)
  BY <1>0, <1>16, ProjectionFailures, EndedTyped
     DEF ProjectResponse, ServiceRecord, ServiceLabels, At
<1>17. CASE Reply(r)
  BY <1>0, <1>17, UncertainFailures, EndedTyped, SuccessAnswer
     DEF Reply, ServiceRecord, ServiceLabels, At
<1>18. CASE Discovery(r)
  BY <1>0, <1>18
     DEF Discovery, Waiting, PeerComesOrGoes, ServiceRecord, ServiceLabels, At
<1>19. CASE ResponseArrives(r)
  BY <1>0, <1>19, FulfilledTyped DEF ResponseArrives
<1>20. CASE WaitElapses(r)
  BY <1>0, <1>20
     DEF WaitElapses, Waiting, Polling, SteadyClockPassesWait, ServiceRecord,
         ServiceLabels, At
<1>21. CASE Cancel(r)
  BY <1>0, <1>21
     DEF Cancel, ServiceRecord, ServiceLabels, At
<1>22. CASE DeadlinePasses(r)
  BY <1>0, <1>22
     DEF DeadlinePasses, ServiceRecord, ServiceLabels, At
<1>23. CASE ClockIsSetBack(r)
  BY <1>0, <1>23
     DEF ClockIsSetBack, ServiceRecord, ServiceLabels, At
<1> QED
  BY <1>1, <1>2, <1>3, <1>4, <1>5, <1>6, <1>7, <1>8, <1>9, <1>10, <1>11, <1>12,
     <1>13, <1>14, <1>15, <1>16, <1>17, <1>18, <1>19, <1>20, <1>21, <1>22, <1>23
     DEF Request, Worker, Surroundings

\* The type invariant holds in every state, whatever step threw.
THEOREM ServiceTypeCorrect == Spec => []TypeOK
<1>1. Init => TypeOK
  BY NewCallTyped DEF Init, TypeOK
<1>2. TypeOK /\ [Next]_opVars => TypeOK'
  <2> SUFFICES ASSUME TypeOK, [Next]_opVars PROVE TypeOK'
    OBVIOUS
  <2>1. CASE UNCHANGED opVars
    BY <2>1 DEF TypeOK, opVars
  <2>2. CASE ToggleCapability
    BY <2>2 DEF TypeOK, ToggleCapability
  <2>3. ASSUME NEW r \in Requests, Request(r) PROVE TypeOK'
    BY <2>3, RequestKeepsType
  <2> QED
    BY <2>1, <2>2, <2>3 DEF Next
<1> QED
  BY <1>1, <1>2, PTL DEF Spec

------------------------------------------------------------------------------
(***************************************************************************)
(* The inductive invariant.  A record agrees with its effect: a request is *)
(* on the ROS graph from its send on, a response is awaited only while the *)
(* worker polls, an answer comes with the end of the call, and only the    *)
(* known lapses deny a call that was sent.                                 *)
(***************************************************************************)
Received == {"get", "project", "reply"}

Agrees(rec) ==
    /\ rec.reached => rec.at \in Polling \cup Received \cup {"done"}
    /\ rec.at \in Polling \cup Received => rec.reached
    /\ rec.pending => rec.at \in Polling /\ rec.response = "none"
    /\ ~rec.reached => rec.response = "none"
    /\ rec.at # "done" => rec.answer.class = "none" /\ rec.answer.code = "none"
    /\ rec.at = "done" => rec.answer.class # "none"
    /\ Succeeded(rec.answer) => rec.reached
    /\ rec.reached /\ DeniesEffect(rec.answer)
         => KnownLapse(rec) /\ RosFaults # {}

RecordsAgree == \A r \in Requests : Agrees(op[r])

\* A failure before the send leaves a request in order.
LEMMA DeniedAgrees ==
    ASSUME NEW rec \in ServiceRecord, Agrees(rec), ~rec.reached,
           NEW a \in Answers(ServiceCodes), a.class \in ErrorClasses
    PROVE  Agrees(Ended(rec, a))
BY EndedTyped
   DEF Agrees, Succeeded, DeniesEffect, ErrorClasses, Polling, Received

LEMMA RequestKeepsAgreement ==
    ASSUME TypeOK, RecordsAgree, NEW r \in Requests, Request(r)
    PROVE  RecordsAgree'
<1>0. /\ op[r] \in ServiceRecord
      /\ Agrees(op[r])
  BY DEF TypeOK, RecordsAgree
<1> SUFFICES Agrees(op[r])' /\ \A s \in Requests \ {r} : op'[s] = op[s]
  BY DEF RecordsAgree
<1> USE DEF TypeOK, Goto, Throw, Return
<1>1. CASE Admit(r)
  BY <1>0, <1>1, EarlyFailures, DeniedAgrees
     DEF Admit, At, ServiceRecord, ServiceLabels, Agrees, Polling,
         Received, Succeeded, DeniesEffect, ErrorClasses, Arrivals
<1>2. CASE Validate(r)
  BY <1>0, <1>2, EarlyFailures, DeniedAgrees
     DEF Validate, At, ServiceRecord, ServiceLabels, Agrees, Polling,
         Received, Succeeded, DeniesEffect, ErrorClasses, Arrivals
<1>3. CASE LoadRequest(r)
  BY <1>0, <1>3, EarlyFailures, DeniedAgrees
     DEF LoadRequest, At, ServiceRecord, ServiceLabels, Agrees, Polling,
         Received, Succeeded, DeniesEffect, ErrorClasses, Arrivals
<1>4. CASE CheckReady(r)
  BY <1>0, <1>4, EarlyFailures, DeniedAgrees
     DEF CheckReady, At, ServiceRecord, ServiceLabels, Agrees, Polling,
         Received, Succeeded, DeniesEffect, ErrorClasses, Arrivals
<1>5. CASE WaitCancel(r)
  BY <1>0, <1>5, EarlyFailures, DeniedAgrees
     DEF WaitCancel, CheckCancellation, At, ServiceRecord, ServiceLabels,
         Agrees, Polling,
         Received, Succeeded, DeniesEffect, ErrorClasses, Arrivals
<1>6. CASE WaitDeadline(r)
  BY <1>0, <1>6, EarlyFailures, DeniedAgrees
     DEF WaitDeadline, requireBeforeDeadline, At, ServiceRecord, ServiceLabels,
         Agrees, Polling,
         Received, Succeeded, DeniesEffect, ErrorClasses, Arrivals
<1>7. CASE WaitClock(r)
  BY <1>0, <1>7, EarlyFailures, DeniedAgrees
     DEF WaitClock, At, ServiceRecord, ServiceLabels, Agrees, Polling,
         Received, Succeeded, DeniesEffect, ErrorClasses, Arrivals
<1>8. CASE FinalCancel(r)
  BY <1>0, <1>8, EarlyFailures, DeniedAgrees
     DEF FinalCancel, CheckCancellation, At, ServiceRecord, ServiceLabels,
         Agrees, Polling,
         Received, Succeeded, DeniesEffect, ErrorClasses, Arrivals
<1>9. CASE FinalDeadline(r)
  BY <1>0, <1>9, EarlyFailures, DeniedAgrees
     DEF FinalDeadline, requireBeforeDeadline, At, ServiceRecord, ServiceLabels,
         Agrees, Polling,
         Received, Succeeded, DeniesEffect, ErrorClasses, Arrivals
<1>10. CASE SendRequest(r)
  BY <1>0, <1>10, SendLostTyped, EarlyFailures
     DEF SendRequest, At, ServiceRecord, ServiceLabels, Agrees, KnownLapse, Polling,
         Received, Succeeded, DeniesEffect, ErrorClasses, Arrivals
<1>11. CASE PollResponse(r)
  BY <1>0, <1>11
     DEF PollResponse, At, ServiceRecord, ServiceLabels, Agrees, Polling,
         Received, Succeeded, DeniesEffect, ErrorClasses, Arrivals
<1>12. CASE PollCancel(r)
  <2> DEFINE gone == GivenUp(op[r], "service_outcome_unknown_after_cancel")
  <2>1. /\ gone.at = "done"
        /\ gone.answer.class = "uncertain"
        /\ gone.reached = op[r].reached
        /\ gone.pending = FALSE
        /\ gone.response = op[r].response
    BY <1>0, CancelledCallTyped
  <2>2. op[r].at \in Polling
    BY <1>12 DEF PollCancel, At, Polling
  <2>3. Agrees(gone)
    BY <1>0, <2>1, <2>2
       DEF Agrees, Polling, Received, Succeeded, DeniesEffect, ErrorClasses
  <2>4. Agrees([op[r] EXCEPT !.at = "pollClock"])
    BY <1>0, <2>2
       DEF Agrees, KnownLapse, Polling, Received, ServiceRecord
  <2> QED
    BY <1>12, <2>3, <2>4 DEF PollCancel, GiveUp
<1>13. CASE PollClock(r)
  <2> DEFINE gone == GivenUp(op[r], "service_outcome_unknown_after_timeout")
  <2>1. /\ gone.at = "done"
        /\ gone.answer.class = "uncertain"
        /\ gone.reached = op[r].reached
        /\ gone.pending = FALSE
        /\ gone.response = op[r].response
    BY <1>0, OverdueCallTyped
  <2>2. op[r].at \in Polling
    BY <1>13 DEF PollClock, At, Polling
  <2>3. Agrees(gone)
    BY <1>0, <2>1, <2>2
       DEF Agrees, Polling, Received, Succeeded, DeniesEffect, ErrorClasses
  <2>4. Agrees([op[r] EXCEPT !.at = "pollDeadline"])
    BY <1>0, <2>2
       DEF Agrees, KnownLapse, Polling, Received, ServiceRecord
  <2> QED
    BY <1>13, <2>3, <2>4 DEF PollClock, GiveUp
<1>14. CASE PollDeadline(r)
  <2> DEFINE gone == GivenUp(op[r], "service_outcome_unknown_after_timeout")
  <2>1. /\ gone.at = "done"
        /\ gone.answer.class = "uncertain"
        /\ gone.reached = op[r].reached
        /\ gone.pending = FALSE
        /\ gone.response = op[r].response
    BY <1>0, OverdueCallTyped
  <2>2. op[r].at \in Polling
    BY <1>14 DEF PollDeadline, At, Polling
  <2>3. Agrees(gone)
    BY <1>0, <2>1, <2>2
       DEF Agrees, Polling, Received, Succeeded, DeniesEffect, ErrorClasses
  <2>4. Agrees([op[r] EXCEPT !.at = "poll"])
    BY <1>0, <2>2
       DEF Agrees, KnownLapse, Polling, Received, ServiceRecord
  <2> QED
    BY <1>14, <2>3, <2>4 DEF PollDeadline, GiveUp
<1>15. CASE GetResponse(r)
  BY <1>0, <1>15, UncertainFailures, EndedTyped
     DEF GetResponse, At, ServiceRecord, ServiceLabels, Agrees, Polling,
         Received, Succeeded, DeniesEffect, ErrorClasses, Arrivals
<1>16. CASE ProjectResponse(r)
  <2>1. CASE op[r].response = "unprojectable"
    <3>1. PICK code \in ProjectionErrors : Throw(r, permanentError(code))
      BY <1>16, <2>1 DEF ProjectResponse
    <3> DEFINE refused == failure(permanentError(code))
    <3>2. refused \in Answers(ServiceCodes) /\ refused.class = "permanent"
      BY ProjectionFailures
    <3>3. KnownLapse(Ended(op[r], refused)) /\ RosFaults # {}
      <4>1. /\ Ended(op[r], refused).answer = refused
            /\ Ended(op[r], refused).response = "unprojectable"
        BY <1>0, <2>1, <3>2, EndedTyped
      <4>2. "unprojectable" \in Arrivals
        BY <1>0, <2>1 DEF ServiceRecord
      <4>3. RosFaults # {}
        BY <4>2 DEF Arrivals
      <4> QED
        BY <4>1, <4>3 DEF KnownLapse
    <3>4. Agrees(Ended(op[r], refused))
      BY <1>0, <1>16, <3>2, <3>3, EndedTyped
         DEF ProjectResponse, At, Agrees, Polling, Received, Succeeded
    <3> QED
      BY <1>0, <3>1, <3>4
  <2>2. CASE op[r].response # "unprojectable"
    BY <1>0, <1>16, <2>2
       DEF ProjectResponse, At, ServiceRecord, ServiceLabels, Agrees, KnownLapse,
           Polling, Received, Succeeded, DeniesEffect, ErrorClasses
  <2> QED
    BY <2>1, <2>2
<1>17. CASE Reply(r)
  BY <1>0, <1>17, UncertainFailures, EndedTyped, SuccessAnswer
     DEF Reply, At, ServiceRecord, ServiceLabels, Agrees, Polling,
         Received, Succeeded, DeniesEffect, ErrorClasses, Arrivals
<1>18. CASE Discovery(r)
  BY <1>0, <1>18
     DEF Discovery, Waiting, PeerComesOrGoes, At, ServiceRecord, ServiceLabels,
         Agrees, Polling,
         Received, Succeeded, DeniesEffect, ErrorClasses, Arrivals
<1>19. CASE ResponseArrives(r)
  <2>1. PICK response \in Arrivals :
            op' = [op EXCEPT ![r] = Fulfilled(op[r], response)]
    BY <1>19 DEF ResponseArrives
  <2>2. op[r].at \in Polling /\ op[r].reached
    BY <1>0, <1>19 DEF ResponseArrives, Agrees
  <2>3. Agrees(Fulfilled(op[r], response))
    BY <1>0, <2>2, FulfilledTyped
       DEF Agrees, Polling, Succeeded, DeniesEffect, ErrorClasses
  <2> QED
    BY <2>1, <2>3
<1>20. CASE WaitElapses(r)
  BY <1>0, <1>20
     DEF WaitElapses, Waiting, Polling, SteadyClockPassesWait, At,
         ServiceRecord, ServiceLabels, Agrees, Polling,
         Received, Succeeded, DeniesEffect, ErrorClasses, Arrivals
<1>21. CASE Cancel(r)
  BY <1>0, <1>21
     DEF Cancel, At, ServiceRecord, ServiceLabels, Agrees, Polling,
         Received, Succeeded, DeniesEffect, ErrorClasses, Arrivals
<1>22. CASE DeadlinePasses(r)
  BY <1>0, <1>22
     DEF DeadlinePasses, At, ServiceRecord, ServiceLabels, Agrees, Polling,
         Received, Succeeded, DeniesEffect, ErrorClasses, Arrivals
<1>23. CASE ClockIsSetBack(r)
  BY <1>0, <1>23
     DEF ClockIsSetBack, At, ServiceRecord, ServiceLabels, Agrees, Polling,
         Received, Succeeded, DeniesEffect, ErrorClasses, Arrivals
<1> QED
  BY <1>1, <1>2, <1>3, <1>4, <1>5, <1>6, <1>7, <1>8, <1>9, <1>10, <1>11, <1>12,
     <1>13, <1>14, <1>15, <1>16, <1>17, <1>18, <1>19, <1>20, <1>21, <1>22, <1>23
     DEF Request, Worker, Surroundings

\* The records agree with their effects in every state.
THEOREM ServiceRecordsAgree == Spec => []RecordsAgree
<1>1. Init => RecordsAgree
  BY DEF Init, RecordsAgree, Agrees, NewCall, Undispatched, NoAnswer,
         Succeeded, DeniesEffect, ErrorClasses, Polling, Received
<1>2. TypeOK /\ RecordsAgree /\ [Next]_opVars => RecordsAgree'
  <2> SUFFICES ASSUME TypeOK, RecordsAgree, [Next]_opVars
               PROVE  RecordsAgree'
    OBVIOUS
  <2>1. CASE UNCHANGED opVars
    BY <2>1 DEF RecordsAgree, opVars
  <2>2. CASE ToggleCapability
    BY <2>2 DEF RecordsAgree, ToggleCapability
  <2>3. ASSUME NEW r \in Requests, Request(r) PROVE RecordsAgree'
    BY <2>3, RequestKeepsAgreement
  <2> QED
    BY <2>1, <2>2, <2>3 DEF Next
<1> QED
  BY <1>1, <1>2, ServiceTypeCorrect, PTL DEF Spec

\* A call that was sent is denied only by one of the two known lapses.
THEOREM ServiceLapsesAreKnown == Spec => []OnlyKnownLapses
<1>1. RecordsAgree => OnlyKnownLapses
  BY DEF RecordsAgree, Agrees, OnlyKnownLapses
<1> QED
  BY <1>1, ServiceRecordsAgree, PTL

------------------------------------------------------------------------------
(***************************************************************************)
(* Cancelled in time, or expired in time: a call that has not passed the   *)
(* check yet can only end, and unsent.                                     *)
(***************************************************************************)
CancelStopped(r) ==
    /\ ~op[r].reached
    /\ \/ At(r, "done")
       \/ op[r].cancelled /\ op[r].at \in BeforeFinalCancel

LEMMA RequestKeepsCancelStopped ==
    ASSUME TypeOK, NEW r \in Requests, CancelStopped(r),
           NEW s \in Requests, Request(s)
    PROVE  CancelStopped(r)'
<1>0. op[s] \in ServiceRecord /\ op[r] \in ServiceRecord
  BY DEF TypeOK
<1> USE DEF TypeOK, Goto, Throw, Return
<1>1. CASE Admit(s)
  BY <1>0, <1>1, EarlyFailures, EndedTyped
     DEF Admit, At, ServiceRecord, BeforeFinalCancel, ServiceLabels,
         CancelStopped
<1>2. CASE Validate(s)
  BY <1>0, <1>2, EarlyFailures, EndedTyped
     DEF Validate, At, ServiceRecord, BeforeFinalCancel, ServiceLabels,
         CancelStopped
<1>3. CASE LoadRequest(s)
  BY <1>0, <1>3, EarlyFailures, EndedTyped
     DEF LoadRequest, At, ServiceRecord, BeforeFinalCancel, ServiceLabels,
         CancelStopped
<1>4. CASE CheckReady(s)
  BY <1>0, <1>4, EarlyFailures, EndedTyped
     DEF CheckReady, At, ServiceRecord, BeforeFinalCancel, ServiceLabels,
         CancelStopped
<1>5. CASE WaitCancel(s)
  BY <1>0, <1>5, EarlyFailures, EndedTyped
     DEF WaitCancel, CheckCancellation, At, ServiceRecord, BeforeFinalCancel,
         ServiceLabels,
         CancelStopped
<1>6. CASE WaitDeadline(s)
  BY <1>0, <1>6, EarlyFailures, EndedTyped
     DEF WaitDeadline, requireBeforeDeadline, At, ServiceRecord,
         BeforeFinalCancel, ServiceLabels,
         CancelStopped
<1>7. CASE WaitClock(s)
  BY <1>0, <1>7, EarlyFailures, EndedTyped
     DEF WaitClock, At, ServiceRecord, BeforeFinalCancel, ServiceLabels,
         CancelStopped
<1>8. CASE FinalCancel(s)
  BY <1>0, <1>8, EarlyFailures, EndedTyped
     DEF FinalCancel, CheckCancellation, At, ServiceRecord, BeforeFinalCancel,
         ServiceLabels,
         CancelStopped
<1>9. CASE FinalDeadline(s)
  BY <1>0, <1>9, EarlyFailures, EndedTyped
     DEF FinalDeadline, requireBeforeDeadline, At, ServiceRecord,
         BeforeFinalCancel, ServiceLabels,
         CancelStopped
<1>10. CASE SendRequest(s)
  BY <1>0, <1>10
     DEF SendRequest, At, ServiceRecord, BeforeFinalCancel, ServiceLabels,
         CancelStopped
<1>11. CASE PollResponse(s)
  BY <1>0, <1>11
     DEF PollResponse, At, ServiceRecord, BeforeFinalCancel, ServiceLabels,
         CancelStopped
<1>12. CASE PollCancel(s)
  BY <1>0, <1>12
     DEF PollCancel, GiveUp, At, ServiceRecord, BeforeFinalCancel,
         ServiceLabels,
         CancelStopped
<1>13. CASE PollClock(s)
  BY <1>0, <1>13
     DEF PollClock, GiveUp, At, ServiceRecord, BeforeFinalCancel, ServiceLabels,
         CancelStopped
<1>14. CASE PollDeadline(s)
  BY <1>0, <1>14
     DEF PollDeadline, GiveUp, At, ServiceRecord, BeforeFinalCancel,
         ServiceLabels,
         CancelStopped
<1>15. CASE GetResponse(s)
  BY <1>0, <1>15
     DEF GetResponse, At, ServiceRecord, BeforeFinalCancel, ServiceLabels,
         CancelStopped
<1>16. CASE ProjectResponse(s)
  BY <1>0, <1>16
     DEF ProjectResponse, At, ServiceRecord, BeforeFinalCancel, ServiceLabels,
         CancelStopped
<1>17. CASE Reply(s)
  BY <1>0, <1>17
     DEF Reply, At, ServiceRecord, BeforeFinalCancel, ServiceLabels,
         CancelStopped
<1>18. CASE Discovery(s)
  BY <1>0, <1>18
     DEF Discovery, Waiting, PeerComesOrGoes, At, ServiceRecord,
         BeforeFinalCancel, ServiceLabels,
         CancelStopped
<1>19. CASE ResponseArrives(s)
  <2>1. PICK response \in Arrivals :
            op' = [op EXCEPT ![s] = Fulfilled(op[s], response)]
    BY <1>19 DEF ResponseArrives
  <2>2. CASE r = s
    <3>1. op'[r] = Fulfilled(op[r], response)
      BY <2>1, <2>2
    <3>2. \A rec \in ServiceRecord :
              /\ Fulfilled(rec, response).at = rec.at
              /\ Fulfilled(rec, response).cancelled = rec.cancelled
              /\ Fulfilled(rec, response).expired = rec.expired
              /\ Fulfilled(rec, response).setBack = rec.setBack
              /\ Fulfilled(rec, response).reached = rec.reached
      BY FulfilledTyped
    <3> QED
      BY <1>0, <3>1, <3>2 DEF CancelStopped, At
  <2>3. CASE r # s
    <3>1. op'[r] = op[r]
      BY <2>1, <2>3
    <3> QED
      BY <3>1 DEF CancelStopped, At
  <2> QED
    BY <2>2, <2>3
<1>20. CASE WaitElapses(s)
  BY <1>0, <1>20
     DEF WaitElapses, Waiting, Polling, SteadyClockPassesWait, At,
         ServiceRecord, BeforeFinalCancel, ServiceLabels,
         CancelStopped
<1>21. CASE Cancel(s)
  BY <1>0, <1>21
     DEF Cancel, At, ServiceRecord, BeforeFinalCancel, ServiceLabels,
         CancelStopped
<1>22. CASE DeadlinePasses(s)
  BY <1>0, <1>22
     DEF DeadlinePasses, At, ServiceRecord, BeforeFinalCancel, ServiceLabels,
         CancelStopped
<1>23. CASE ClockIsSetBack(s)
  BY <1>0, <1>23
     DEF ClockIsSetBack, At, ServiceRecord, BeforeFinalCancel, ServiceLabels,
         CancelStopped
<1> QED
  BY <1>1, <1>2, <1>3, <1>4, <1>5, <1>6, <1>7, <1>8, <1>9, <1>10, <1>11, <1>12,
     <1>13, <1>14, <1>15, <1>16, <1>17, <1>18, <1>19, <1>20, <1>21, <1>22, <1>23
     DEF Request, Worker, Surroundings

\* A call cancelled before the last cancellation check is never sent.
THEOREM ServiceHonoursCancellation == Spec => CancelledInTimeIsNotSent
<1>1. ASSUME NEW r \in Requests
      PROVE  Spec => [](op[r].cancelled /\ op[r].at \in BeforeFinalCancel => [](~op[r].reached))
  <2>1. RecordsAgree /\ op[r].cancelled /\ op[r].at \in BeforeFinalCancel => CancelStopped(r)
    BY DEF RecordsAgree, Agrees, CancelStopped, BeforeFinalCancel, Polling,
       Received
  <2>2. TypeOK /\ CancelStopped(r) /\ [Next]_opVars => CancelStopped(r)'
    <3> SUFFICES ASSUME TypeOK, CancelStopped(r), [Next]_opVars
                 PROVE  CancelStopped(r)'
      OBVIOUS
    <3>1. CASE UNCHANGED opVars
      BY <3>1 DEF CancelStopped, At, opVars
    <3>2. CASE ToggleCapability
      BY <3>2 DEF CancelStopped, At, ToggleCapability
    <3>3. ASSUME NEW s \in Requests, Request(s) PROVE CancelStopped(r)'
      BY <3>3, RequestKeepsCancelStopped
    <3> QED
      BY <3>1, <3>2, <3>3 DEF Next
  <2>3. CancelStopped(r) => ~op[r].reached
    BY DEF CancelStopped
  <2> QED
    BY <2>1, <2>2, <2>3, ServiceTypeCorrect, ServiceRecordsAgree, PTL DEF Spec
<1> QED
  BY <1>1 DEF CancelledInTimeIsNotSent

DeadlineStopped(r) ==
    \/ op[r].setBack
    \/ /\ ~op[r].reached
       /\ \/ At(r, "done")
          \/ /\ op[r].expired
             /\ op[r].at \in BeforeFinalCancel \cup {"finalDeadline"}

LEMMA RequestKeepsDeadlineStopped ==
    ASSUME TypeOK, NEW r \in Requests, DeadlineStopped(r),
           NEW s \in Requests, Request(s)
    PROVE  DeadlineStopped(r)'
<1>0. op[s] \in ServiceRecord /\ op[r] \in ServiceRecord
  BY DEF TypeOK
<1> USE DEF TypeOK, Goto, Throw, Return
<1>1. CASE Admit(s)
  BY <1>0, <1>1, EarlyFailures, EndedTyped
     DEF Admit, At, ServiceRecord, BeforeFinalCancel, ServiceLabels,
         DeadlineStopped
<1>2. CASE Validate(s)
  BY <1>0, <1>2, EarlyFailures, EndedTyped
     DEF Validate, At, ServiceRecord, BeforeFinalCancel, ServiceLabels,
         DeadlineStopped
<1>3. CASE LoadRequest(s)
  BY <1>0, <1>3, EarlyFailures, EndedTyped
     DEF LoadRequest, At, ServiceRecord, BeforeFinalCancel, ServiceLabels,
         DeadlineStopped
<1>4. CASE CheckReady(s)
  BY <1>0, <1>4, EarlyFailures, EndedTyped
     DEF CheckReady, At, ServiceRecord, BeforeFinalCancel, ServiceLabels,
         DeadlineStopped
<1>5. CASE WaitCancel(s)
  BY <1>0, <1>5, EarlyFailures, EndedTyped
     DEF WaitCancel, CheckCancellation, At, ServiceRecord, BeforeFinalCancel,
         ServiceLabels,
         DeadlineStopped
<1>6. CASE WaitDeadline(s)
  BY <1>0, <1>6, EarlyFailures, EndedTyped
     DEF WaitDeadline, requireBeforeDeadline, At, ServiceRecord,
         BeforeFinalCancel, ServiceLabels,
         DeadlineStopped
<1>7. CASE WaitClock(s)
  BY <1>0, <1>7, EarlyFailures, EndedTyped
     DEF WaitClock, At, ServiceRecord, BeforeFinalCancel, ServiceLabels,
         DeadlineStopped
<1>8. CASE FinalCancel(s)
  BY <1>0, <1>8, EarlyFailures, EndedTyped
     DEF FinalCancel, CheckCancellation, At, ServiceRecord, BeforeFinalCancel,
         ServiceLabels,
         DeadlineStopped
<1>9. CASE FinalDeadline(s)
  BY <1>0, <1>9, EarlyFailures, EndedTyped
     DEF FinalDeadline, requireBeforeDeadline, At, ServiceRecord,
         BeforeFinalCancel, ServiceLabels,
         DeadlineStopped
<1>10. CASE SendRequest(s)
  BY <1>0, <1>10, SendLostTyped, EarlyFailures
     DEF SendRequest, At, ServiceRecord, BeforeFinalCancel, ServiceLabels,
         DeadlineStopped
<1>11. CASE PollResponse(s)
  BY <1>0, <1>11
     DEF PollResponse, At, ServiceRecord, BeforeFinalCancel, ServiceLabels,
         DeadlineStopped
<1>12. CASE PollCancel(s)
  <2>1. GivenUp(op[s], "service_outcome_unknown_after_cancel").setBack = op[s].setBack
    BY <1>0, CancelledCallTyped
  <2> QED
    BY <1>0, <1>12, <2>1
       DEF PollCancel, GiveUp, At, ServiceRecord, BeforeFinalCancel,
           DeadlineStopped
<1>13. CASE PollClock(s)
  <2>1. GivenUp(op[s], "service_outcome_unknown_after_timeout").setBack = op[s].setBack
    BY <1>0, OverdueCallTyped
  <2> QED
    BY <1>0, <1>13, <2>1
       DEF PollClock, GiveUp, At, ServiceRecord, BeforeFinalCancel,
           DeadlineStopped
<1>14. CASE PollDeadline(s)
  <2>1. GivenUp(op[s], "service_outcome_unknown_after_timeout").setBack = op[s].setBack
    BY <1>0, OverdueCallTyped
  <2> QED
    BY <1>0, <1>14, <2>1
       DEF PollDeadline, GiveUp, At, ServiceRecord, BeforeFinalCancel,
           DeadlineStopped
<1>15. CASE GetResponse(s)
  BY <1>0, <1>15, UncertainFailures, EndedTyped
     DEF GetResponse, At, ServiceRecord, BeforeFinalCancel, ServiceLabels,
         DeadlineStopped
<1>16. CASE ProjectResponse(s)
  BY <1>0, <1>16, ProjectionFailures, EndedTyped
     DEF ProjectResponse, At, ServiceRecord, BeforeFinalCancel, ServiceLabels,
         DeadlineStopped
<1>17. CASE Reply(s)
  BY <1>0, <1>17, UncertainFailures, EndedTyped, SuccessAnswer
     DEF Reply, At, ServiceRecord, BeforeFinalCancel, ServiceLabels,
         DeadlineStopped
<1>18. CASE Discovery(s)
  BY <1>0, <1>18
     DEF Discovery, Waiting, PeerComesOrGoes, At, ServiceRecord,
         BeforeFinalCancel, ServiceLabels,
         DeadlineStopped
<1>19. CASE ResponseArrives(s)
  <2>1. PICK response \in Arrivals :
            op' = [op EXCEPT ![s] = Fulfilled(op[s], response)]
    BY <1>19 DEF ResponseArrives
  <2>2. CASE r = s
    <3>1. op'[r] = Fulfilled(op[r], response)
      BY <2>1, <2>2
    <3>2. \A rec \in ServiceRecord :
              /\ Fulfilled(rec, response).at = rec.at
              /\ Fulfilled(rec, response).cancelled = rec.cancelled
              /\ Fulfilled(rec, response).expired = rec.expired
              /\ Fulfilled(rec, response).setBack = rec.setBack
              /\ Fulfilled(rec, response).reached = rec.reached
      BY FulfilledTyped
    <3> QED
      BY <1>0, <3>1, <3>2 DEF DeadlineStopped, At
  <2>3. CASE r # s
    <3>1. op'[r] = op[r]
      BY <2>1, <2>3
    <3> QED
      BY <3>1 DEF DeadlineStopped, At
  <2> QED
    BY <2>2, <2>3
<1>20. CASE WaitElapses(s)
  BY <1>0, <1>20
     DEF WaitElapses, Waiting, Polling, SteadyClockPassesWait, At,
         ServiceRecord, BeforeFinalCancel, ServiceLabels,
         DeadlineStopped
<1>21. CASE Cancel(s)
  BY <1>0, <1>21
     DEF Cancel, At, ServiceRecord, BeforeFinalCancel, ServiceLabels,
         DeadlineStopped
<1>22. CASE DeadlinePasses(s)
  BY <1>0, <1>22
     DEF DeadlinePasses, At, ServiceRecord, BeforeFinalCancel, ServiceLabels,
         DeadlineStopped
<1>23. CASE ClockIsSetBack(s)
  BY <1>0, <1>23
     DEF ClockIsSetBack, At, ServiceRecord, BeforeFinalCancel, ServiceLabels,
         DeadlineStopped
<1> QED
  BY <1>1, <1>2, <1>3, <1>4, <1>5, <1>6, <1>7, <1>8, <1>9, <1>10, <1>11, <1>12,
     <1>13, <1>14, <1>15, <1>16, <1>17, <1>18, <1>19, <1>20, <1>21, <1>22, <1>23
     DEF Request, Worker, Surroundings

\* A call whose deadline passes before the last deadline check is not sent, unless
\* the system clock is set back over that deadline.
THEOREM ServiceHonoursDeadline == Spec => ExpiredInTimeIsNotSent
<1>1. ASSUME NEW r \in Requests
      PROVE  Spec => [](op[r].expired /\ op[r].at \in BeforeFinalCancel \cup {"finalDeadline"} => [](op[r].reached => op[r].setBack))
  <2>1. RecordsAgree /\ op[r].expired /\ op[r].at \in BeforeFinalCancel \cup {"finalDeadline"} => DeadlineStopped(r)
    BY DEF RecordsAgree, Agrees, DeadlineStopped, BeforeFinalCancel, Polling,
       Received
  <2>2. TypeOK /\ DeadlineStopped(r) /\ [Next]_opVars => DeadlineStopped(r)'
    <3> SUFFICES ASSUME TypeOK, DeadlineStopped(r), [Next]_opVars
                 PROVE  DeadlineStopped(r)'
      OBVIOUS
    <3>1. CASE UNCHANGED opVars
      BY <3>1 DEF DeadlineStopped, At, opVars
    <3>2. CASE ToggleCapability
      BY <3>2 DEF DeadlineStopped, At, ToggleCapability
    <3>3. ASSUME NEW s \in Requests, Request(s) PROVE DeadlineStopped(r)'
      BY <3>3, RequestKeepsDeadlineStopped
    <3> QED
      BY <3>1, <3>2, <3>3 DEF Next
  <2>3. DeadlineStopped(r) => (op[r].reached => op[r].setBack)
    BY DEF DeadlineStopped
  <2> QED
    BY <2>1, <2>2, <2>3, ServiceTypeCorrect, ServiceRecordsAgree, PTL DEF Spec
<1> QED
  BY <1>1 DEF ExpiredInTimeIsNotSent

------------------------------------------------------------------------------
(***************************************************************************)
(* Responses: one that is in when the worker polls is used, and one that   *)
(* comes too late is not.                                                  *)
(***************************************************************************)
Winning(r) ==
    \/ op[r].at \in {"poll"} \cup Received /\ op[r].response # "none"
    \/ At(r, "done") /\ op[r].answer.code \notin Unknown

LEMMA RequestKeepsWinning ==
    ASSUME TypeOK, NEW r \in Requests, Winning(r),
           NEW s \in Requests, Request(s)
    PROVE  Winning(r)'
<1>0. op[s] \in ServiceRecord /\ op[r] \in ServiceRecord
  BY DEF TypeOK
<1> USE DEF TypeOK, Goto, Throw, Return
<1>1. CASE Admit(s)
  BY <1>0, <1>1, EarlyFailures, EndedTyped
     DEF Admit, At, ServiceRecord, ServiceLabels, Winning, Received,
         Unknown, Waiting, Polling
<1>2. CASE Validate(s)
  BY <1>0, <1>2, EarlyFailures, EndedTyped
     DEF Validate, At, ServiceRecord, ServiceLabels, Winning, Received,
         Unknown, Waiting, Polling
<1>3. CASE LoadRequest(s)
  BY <1>0, <1>3, EarlyFailures, EndedTyped
     DEF LoadRequest, At, ServiceRecord, ServiceLabels, Winning, Received,
         Unknown, Waiting, Polling
<1>4. CASE CheckReady(s)
  BY <1>0, <1>4, EarlyFailures, EndedTyped
     DEF CheckReady, At, ServiceRecord, ServiceLabels, Winning, Received,
         Unknown, Waiting, Polling
<1>5. CASE WaitCancel(s)
  BY <1>0, <1>5, EarlyFailures, EndedTyped
     DEF WaitCancel, CheckCancellation, At, ServiceRecord, ServiceLabels,
         Winning, Received,
         Unknown, Waiting, Polling
<1>6. CASE WaitDeadline(s)
  BY <1>0, <1>6, EarlyFailures, EndedTyped
     DEF WaitDeadline, requireBeforeDeadline, At, ServiceRecord, ServiceLabels,
         Winning, Received,
         Unknown, Waiting, Polling
<1>7. CASE WaitClock(s)
  BY <1>0, <1>7, EarlyFailures, EndedTyped
     DEF WaitClock, At, ServiceRecord, ServiceLabels, Winning, Received,
         Unknown, Waiting, Polling
<1>8. CASE FinalCancel(s)
  BY <1>0, <1>8, EarlyFailures, EndedTyped
     DEF FinalCancel, CheckCancellation, At, ServiceRecord, ServiceLabels,
         Winning, Received,
         Unknown, Waiting, Polling
<1>9. CASE FinalDeadline(s)
  BY <1>0, <1>9, EarlyFailures, EndedTyped
     DEF FinalDeadline, requireBeforeDeadline, At, ServiceRecord, ServiceLabels,
         Winning, Received,
         Unknown, Waiting, Polling
<1>10. CASE SendRequest(s)
  BY <1>0, <1>10
     DEF SendRequest, At, ServiceRecord, ServiceLabels, Winning, Received,
         Unknown, Waiting, Polling
<1>11. CASE PollResponse(s)
  BY <1>0, <1>11
     DEF PollResponse, At, ServiceRecord, ServiceLabels, Winning, Received,
         Unknown, Waiting, Polling
<1>12. CASE PollCancel(s)
  BY <1>0, <1>12
     DEF PollCancel, GiveUp, At, ServiceRecord, ServiceLabels, Winning,
         Received,
         Unknown, Waiting, Polling
<1>13. CASE PollClock(s)
  BY <1>0, <1>13
     DEF PollClock, GiveUp, At, ServiceRecord, ServiceLabels, Winning, Received,
         Unknown, Waiting, Polling
<1>14. CASE PollDeadline(s)
  BY <1>0, <1>14
     DEF PollDeadline, GiveUp, At, ServiceRecord, ServiceLabels, Winning,
         Received,
         Unknown, Waiting, Polling
<1>15. CASE GetResponse(s)
  BY <1>0, <1>15, UncertainFailures, EndedTyped
     DEF GetResponse, At, ServiceRecord, ServiceLabels, Winning, Received,
         Unknown, Waiting, Polling
<1>16. CASE ProjectResponse(s)
  <2>1. ProjectionErrors \cap Unknown = {}
    BY DEF ProjectionErrors, Unknown
  <2> QED
    BY <1>0, <1>16, <2>1, ProjectionFailures, EndedTyped
       DEF ProjectResponse, At, ServiceRecord, ServiceLabels, Winning, Received,
           Unknown, Waiting, Polling
<1>17. CASE Reply(s)
  BY <1>0, <1>17, UncertainFailures, SuccessAnswer, EndedTyped
     DEF Reply, At, ServiceRecord, ServiceLabels, Winning, Received,
         Unknown, Waiting, Polling
<1>18. CASE Discovery(s)
  BY <1>0, <1>18
     DEF Discovery, Waiting, PeerComesOrGoes, At, ServiceRecord, ServiceLabels,
         Winning, Received,
         Unknown, Waiting, Polling
<1>19. CASE ResponseArrives(s)
  <2>1. PICK response \in Arrivals :
            op' = [op EXCEPT ![s] = Fulfilled(op[s], response)]
    BY <1>19 DEF ResponseArrives
  <2>2. response # "none"
    BY DEF Arrivals
  <2>3. CASE r = s
    <3>1. op'[r] = Fulfilled(op[r], response)
      BY <2>1, <2>3
    <3>2. \A rec \in ServiceRecord :
              /\ Fulfilled(rec, response).at = rec.at
              /\ Fulfilled(rec, response).response = response
              /\ Fulfilled(rec, response).answer = rec.answer
      BY FulfilledTyped
    <3> QED
      BY <1>0, <2>2, <3>1, <3>2 DEF Winning, At
  <2>4. CASE r # s
    <3>1. op'[r] = op[r]
      BY <2>1, <2>4
    <3> QED
      BY <3>1 DEF Winning, At
  <2> QED
    BY <2>3, <2>4
<1>20. CASE WaitElapses(s)
  BY <1>0, <1>20
     DEF WaitElapses, Waiting, Polling, SteadyClockPassesWait, At,
         ServiceRecord, ServiceLabels, Winning, Received,
         Unknown, Waiting, Polling
<1>21. CASE Cancel(s)
  BY <1>0, <1>21
     DEF Cancel, At, ServiceRecord, ServiceLabels, Winning, Received,
         Unknown, Waiting, Polling
<1>22. CASE DeadlinePasses(s)
  BY <1>0, <1>22
     DEF DeadlinePasses, At, ServiceRecord, ServiceLabels, Winning, Received,
         Unknown, Waiting, Polling
<1>23. CASE ClockIsSetBack(s)
  BY <1>0, <1>23
     DEF ClockIsSetBack, At, ServiceRecord, ServiceLabels, Winning, Received,
         Unknown, Waiting, Polling
<1> QED
  BY <1>1, <1>2, <1>3, <1>4, <1>5, <1>6, <1>7, <1>8, <1>9, <1>10, <1>11, <1>12,
     <1>13, <1>14, <1>15, <1>16, <1>17, <1>18, <1>19, <1>20, <1>21, <1>22, <1>23
     DEF Request, Worker, Surroundings

\* A response that is in when the worker polls ends the call with an outcome
\* that is known, whatever token or clock it races with.
THEOREM ServiceUsesArrivedResponse == Spec => ArrivedResponseWins
<1>1. ASSUME NEW r \in Requests
      PROVE  Spec => [](At(r, "poll") /\ op[r].response # "none"
                          => [](op[r].answer.code \notin Unknown))
  <2>1. At(r, "poll") /\ op[r].response # "none" => Winning(r)
    BY DEF Winning, At
  <2>2. TypeOK /\ Winning(r) /\ [Next]_opVars => Winning(r)'
    <3> SUFFICES ASSUME TypeOK, Winning(r), [Next]_opVars
                 PROVE  Winning(r)'
      OBVIOUS
    <3>1. CASE UNCHANGED opVars
      BY <3>1 DEF Winning, At, opVars
    <3>2. CASE ToggleCapability
      BY <3>2 DEF Winning, At, ToggleCapability
    <3>3. ASSUME NEW s \in Requests, Request(s) PROVE Winning(r)'
      BY <3>3, RequestKeepsWinning
    <3> QED
      BY <3>1, <3>2, <3>3 DEF Next
  <2>3. RecordsAgree /\ Winning(r) => op[r].answer.code \notin Unknown
    BY DEF RecordsAgree, Agrees, Winning, Received, Unknown, At
  <2> QED
    BY <2>1, <2>2, <2>3, ServiceTypeCorrect, ServiceRecordsAgree, PTL DEF Spec
<1> QED
  BY <1>1 DEF ArrivedResponseWins

LEMMA AnsweredRequestKeepsResponse ==
    ASSUME TypeOK, RecordsAgree, NEW r \in Requests, At(r, "done"),
           NEW s \in Requests, Request(s)
    PROVE  op'[r].response = op[r].response
<1>0. /\ op[s] \in ServiceRecord /\ op[r] \in ServiceRecord
      /\ ~op[r].pending
  BY DEF TypeOK, RecordsAgree, Agrees, Polling, At
<1> USE DEF TypeOK, Goto, Throw, Return
<1>1. CASE Admit(s)
  BY <1>0, <1>1, EarlyFailures, EndedTyped
     DEF Admit, At, ServiceRecord
<1>2. CASE Validate(s)
  BY <1>0, <1>2, EarlyFailures, EndedTyped
     DEF Validate, At, ServiceRecord
<1>3. CASE LoadRequest(s)
  BY <1>0, <1>3, EarlyFailures, EndedTyped
     DEF LoadRequest, At, ServiceRecord
<1>4. CASE CheckReady(s)
  BY <1>0, <1>4, EarlyFailures, EndedTyped
     DEF CheckReady, At, ServiceRecord
<1>5. CASE WaitCancel(s)
  BY <1>0, <1>5, EarlyFailures, EndedTyped
     DEF WaitCancel, CheckCancellation, At, ServiceRecord
<1>6. CASE WaitDeadline(s)
  BY <1>0, <1>6, EarlyFailures, EndedTyped
     DEF WaitDeadline, requireBeforeDeadline, At, ServiceRecord
<1>7. CASE WaitClock(s)
  BY <1>0, <1>7, EarlyFailures, EndedTyped
     DEF WaitClock, At, ServiceRecord
<1>8. CASE FinalCancel(s)
  BY <1>0, <1>8, EarlyFailures, EndedTyped
     DEF FinalCancel, CheckCancellation, At, ServiceRecord
<1>9. CASE FinalDeadline(s)
  BY <1>0, <1>9, EarlyFailures, EndedTyped
     DEF FinalDeadline, requireBeforeDeadline, At, ServiceRecord
<1>10. CASE SendRequest(s)
  BY <1>0, <1>10
     DEF SendRequest, At, ServiceRecord
<1>11. CASE PollResponse(s)
  BY <1>0, <1>11
     DEF PollResponse, At, ServiceRecord
<1>12. CASE PollCancel(s)
  BY <1>0, <1>12
     DEF PollCancel, GiveUp, At, ServiceRecord
<1>13. CASE PollClock(s)
  BY <1>0, <1>13
     DEF PollClock, GiveUp, At, ServiceRecord
<1>14. CASE PollDeadline(s)
  BY <1>0, <1>14
     DEF PollDeadline, GiveUp, At, ServiceRecord
<1>15. CASE GetResponse(s)
  BY <1>0, <1>15
     DEF GetResponse, At, ServiceRecord
<1>16. CASE ProjectResponse(s)
  BY <1>0, <1>16
     DEF ProjectResponse, At, ServiceRecord
<1>17. CASE Reply(s)
  BY <1>0, <1>17
     DEF Reply, At, ServiceRecord
<1>18. CASE Discovery(s)
  BY <1>0, <1>18
     DEF Discovery, Waiting, PeerComesOrGoes, At, ServiceRecord
<1>19. CASE ResponseArrives(s)
  BY <1>0, <1>19 DEF ResponseArrives
<1>20. CASE WaitElapses(s)
  BY <1>0, <1>20
     DEF WaitElapses, Waiting, Polling, SteadyClockPassesWait, At, ServiceRecord
<1>21. CASE Cancel(s)
  BY <1>0, <1>21
     DEF Cancel, At, ServiceRecord
<1>22. CASE DeadlinePasses(s)
  BY <1>0, <1>22
     DEF DeadlinePasses, At, ServiceRecord
<1>23. CASE ClockIsSetBack(s)
  BY <1>0, <1>23
     DEF ClockIsSetBack, At, ServiceRecord
<1> QED
  BY <1>1, <1>2, <1>3, <1>4, <1>5, <1>6, <1>7, <1>8, <1>9, <1>10, <1>11, <1>12,
     <1>13, <1>14, <1>15, <1>16, <1>17, <1>18, <1>19, <1>20, <1>21, <1>22, <1>23
     DEF Request, Worker, Surroundings

\* An answered call is never matched with a later response.
THEOREM ServiceDropsLateResponse == Spec => LateResponseIsDropped
<1>1. TypeOK /\ RecordsAgree /\ [Next]_opVars
        => [\A r \in Requests :
               At(r, "done") => op'[r].response = op[r].response]_opVars
  BY AnsweredRequestKeepsResponse DEF Next, ToggleCapability, opVars
<1> QED
  BY <1>1, ServiceTypeCorrect, ServiceRecordsAgree, PTL
     DEF Spec, LateResponseIsDropped

------------------------------------------------------------------------------
(***************************************************************************)
(* Refinement: without the two faults of the ROS side, every step of       *)
(* CallService is a step of OperationContract or leaves its variables      *)
(* alone.                                                                  *)
(***************************************************************************)

\* What a step of request r does to what the contract sees of it: the effect
\* is never undone, the answer is given once, and it comes after the effect.
LEMMA RequestStep ==
    ASSUME RosFaults = {}, TypeOK, RecordsAgree, NEW r \in Requests, Request(r)
    PROVE  /\ \A s \in Requests \ {r} : op'[s] = op[s]
           /\ op[r].reached => op'[r].reached
           /\ \/ op'[r].answer.class = op[r].answer.class
              \/ op[r].answer.class = "none"
           /\ op'[r].reached /\ ~op[r].reached
                => /\ op[r].answer.class = "none"
                   /\ op'[r].answer.class \in {"none", "uncertain"}
<1>0. /\ op[r] \in ServiceRecord
      /\ Agrees(op[r])
  BY DEF TypeOK, RecordsAgree
<1> USE DEF TypeOK, Goto, Throw, Return
<1>1. CASE Admit(r)
  BY <1>0, <1>1, EarlyFailures, EndedTyped
     DEF Admit, At, ServiceRecord, Agrees, Polling, Received
<1>2. CASE Validate(r)
  BY <1>0, <1>2, EarlyFailures, EndedTyped
     DEF Validate, At, ServiceRecord, Agrees, Polling, Received
<1>3. CASE LoadRequest(r)
  BY <1>0, <1>3, EarlyFailures, EndedTyped
     DEF LoadRequest, At, ServiceRecord, Agrees, Polling, Received
<1>4. CASE CheckReady(r)
  BY <1>0, <1>4, EarlyFailures, EndedTyped
     DEF CheckReady, At, ServiceRecord, Agrees, Polling, Received
<1>5. CASE WaitCancel(r)
  BY <1>0, <1>5, EarlyFailures, EndedTyped
     DEF WaitCancel, CheckCancellation, At, ServiceRecord, Agrees, Polling,
         Received
<1>6. CASE WaitDeadline(r)
  BY <1>0, <1>6, EarlyFailures, EndedTyped
     DEF WaitDeadline, requireBeforeDeadline, At, ServiceRecord, Agrees,
         Polling, Received
<1>7. CASE WaitClock(r)
  BY <1>0, <1>7, EarlyFailures, EndedTyped
     DEF WaitClock, At, ServiceRecord, Agrees, Polling, Received
<1>8. CASE FinalCancel(r)
  BY <1>0, <1>8, EarlyFailures, EndedTyped
     DEF FinalCancel, CheckCancellation, At, ServiceRecord, Agrees, Polling,
         Received
<1>9. CASE FinalDeadline(r)
  BY <1>0, <1>9, EarlyFailures, EndedTyped
     DEF FinalDeadline, requireBeforeDeadline, At, ServiceRecord, Agrees,
         Polling, Received
<1>10. CASE SendRequest(r)
  BY <1>0, <1>10
     DEF SendRequest, At, ServiceRecord, Agrees, Polling, Received
<1>11. CASE PollResponse(r)
  BY <1>0, <1>11
     DEF PollResponse, At, ServiceRecord, Agrees, Polling, Received
<1>12. CASE PollCancel(r)
  <2> DEFINE gone == GivenUp(op[r], "service_outcome_unknown_after_cancel")
  <2>1. gone.reached = op[r].reached
    BY <1>0, CancelledCallTyped
  <2>2. op[r].answer.class = "none"
    BY <1>0, <1>12 DEF PollCancel, At, Agrees
  <2>3. [op[r] EXCEPT !.at = "pollClock"].reached = op[r].reached
    BY <1>0 DEF ServiceRecord
  <2>4. [op[r] EXCEPT !.at = "pollClock"].answer = op[r].answer
    BY <1>0 DEF ServiceRecord
  <2>5. \/ op' = [op EXCEPT ![r] = gone]
        \/ op' = [op EXCEPT ![r] = [op[r] EXCEPT !.at = "pollClock"]]
    BY <1>12 DEF PollCancel, GiveUp
  <2>6. \A s \in Requests \ {r} : op'[s] = op[s]
    BY <2>5
  <2>7. op'[r] = gone \/ op'[r] = [op[r] EXCEPT !.at = "pollClock"]
    BY <2>5
  <2> HIDE DEF gone
  <2> QED
    BY <2>1, <2>2, <2>3, <2>4, <2>6, <2>7
<1>13. CASE PollClock(r)
  <2> DEFINE gone == GivenUp(op[r], "service_outcome_unknown_after_timeout")
  <2>1. gone.reached = op[r].reached
    BY <1>0, OverdueCallTyped
  <2>2. op[r].answer.class = "none"
    BY <1>0, <1>13 DEF PollClock, At, Agrees
  <2>3. [op[r] EXCEPT !.at = "pollDeadline"].reached = op[r].reached
    BY <1>0 DEF ServiceRecord
  <2>4. [op[r] EXCEPT !.at = "pollDeadline"].answer = op[r].answer
    BY <1>0 DEF ServiceRecord
  <2>5. \/ op' = [op EXCEPT ![r] = gone]
        \/ op' = [op EXCEPT ![r] = [op[r] EXCEPT !.at = "pollDeadline"]]
    BY <1>13 DEF PollClock, GiveUp
  <2>6. \A s \in Requests \ {r} : op'[s] = op[s]
    BY <2>5
  <2>7. op'[r] = gone \/ op'[r] = [op[r] EXCEPT !.at = "pollDeadline"]
    BY <2>5
  <2> HIDE DEF gone
  <2> QED
    BY <2>1, <2>2, <2>3, <2>4, <2>6, <2>7
<1>14. CASE PollDeadline(r)
  <2> DEFINE gone == GivenUp(op[r], "service_outcome_unknown_after_timeout")
  <2>1. gone.reached = op[r].reached
    BY <1>0, OverdueCallTyped
  <2>2. op[r].answer.class = "none"
    BY <1>0, <1>14 DEF PollDeadline, At, Agrees
  <2>3. [op[r] EXCEPT !.at = "poll"].reached = op[r].reached
    BY <1>0 DEF ServiceRecord
  <2>4. [op[r] EXCEPT !.at = "poll"].answer = op[r].answer
    BY <1>0 DEF ServiceRecord
  <2>5. \/ op' = [op EXCEPT ![r] = gone]
        \/ op' = [op EXCEPT ![r] = [op[r] EXCEPT !.at = "poll"]]
    BY <1>14 DEF PollDeadline, GiveUp
  <2>6. \A s \in Requests \ {r} : op'[s] = op[s]
    BY <2>5
  <2>7. op'[r] = gone \/ op'[r] = [op[r] EXCEPT !.at = "poll"]
    BY <2>5
  <2> HIDE DEF gone
  <2> QED
    BY <2>1, <2>2, <2>3, <2>4, <2>6, <2>7
<1>15. CASE GetResponse(r)
  BY <1>0, <1>15, UncertainFailures, EndedTyped
     DEF GetResponse, At, ServiceRecord, Agrees, Polling, Received
<1>16. CASE ProjectResponse(r)
  BY <1>0, <1>16, ProjectionFailures, EndedTyped
     DEF ProjectResponse, At, ServiceRecord, Agrees, Polling, Received
<1>17. CASE Reply(r)
  BY <1>0, <1>17, UncertainFailures, EndedTyped, SuccessAnswer
     DEF Reply, At, ServiceRecord, Agrees, Polling, Received
<1>18. CASE Discovery(r)
  BY <1>0, <1>18
     DEF Discovery, Waiting, PeerComesOrGoes, At, ServiceRecord, Agrees,
         Polling, Received
<1>19. CASE ResponseArrives(r)
  <2>1. PICK response \in Arrivals :
            op' = [op EXCEPT ![r] = Fulfilled(op[r], response)]
    BY <1>19 DEF ResponseArrives
  <2>2. /\ op'[r].reached = op[r].reached
        /\ op'[r].answer = op[r].answer
    BY <1>0, <2>1, FulfilledTyped
  <2> QED
    BY <2>1, <2>2
<1>20. CASE WaitElapses(r)
  BY <1>0, <1>20
     DEF WaitElapses, Waiting, Polling, SteadyClockPassesWait, At,
         ServiceRecord, Agrees, Polling, Received
<1>21. CASE Cancel(r)
  BY <1>0, <1>21
     DEF Cancel, At, ServiceRecord, Agrees, Polling, Received
<1>22. CASE DeadlinePasses(r)
  BY <1>0, <1>22
     DEF DeadlinePasses, At, ServiceRecord, Agrees, Polling, Received
<1>23. CASE ClockIsSetBack(r)
  BY <1>0, <1>23
     DEF ClockIsSetBack, At, ServiceRecord, Agrees, Polling, Received
<1> QED
  BY <1>1, <1>2, <1>3, <1>4, <1>5, <1>6, <1>7, <1>8, <1>9, <1>10, <1>11, <1>12,
     <1>13, <1>14, <1>15, <1>16, <1>17, <1>18, <1>19, <1>20, <1>21, <1>22, <1>23
     DEF Request, Worker, Surroundings

\* Where the request has an answer, its verdict is one of three.
LEMMA VerdictOfAnswer ==
    ASSUME NEW a \in Answers(ServiceCodes)
    PROVE  /\ a.class = "none" => Verdict(a) = "none"
           /\ a.class = "uncertain" => Verdict(a) = "uncertain"
           /\ a.class = "success" => Verdict(a) = "done"
           /\ Verdict(a) = "done" => Succeeded(a)
           /\ Verdict(a) = "denied" => DeniesEffect(a)
           /\ a.class # "none" => Verdict(a) \in {"done", "denied", "uncertain"}
BY DEF Answers, Verdict, Succeeded, DeniesEffect, ErrorClasses

LEMMA RequestRefinesContract ==
    ASSUME RosFaults = {}, TypeOK, RecordsAgree, TypeOK', RecordsAgree',
           NEW r \in Requests, Request(r)
    PROVE  [Contract!ContractNext]_(Contract!contractVars)
<1>1. /\ \A s \in Requests \ {r} : op'[s] = op[s]
      /\ op[r].reached => op'[r].reached
      /\ \/ op'[r].answer.class = op[r].answer.class
         \/ op[r].answer.class = "none"
      /\ op'[r].reached /\ ~op[r].reached
           => /\ op[r].answer.class = "none"
              /\ op'[r].answer.class \in {"none", "uncertain"}
  BY RequestStep
<1>2. /\ op[r] \in ServiceRecord /\ op'[r] \in ServiceRecord
      /\ op[r].answer \in Answers(ServiceCodes)
      /\ op'[r].answer \in Answers(ServiceCodes)
      /\ op[r].reached \in BOOLEAN /\ op'[r].reached \in BOOLEAN
  BY DEF TypeOK, ServiceRecord
<1>3. Agrees(op'[r])
  BY DEF RecordsAgree, Agrees
<1> DEFINE verdict == Verdict(op[r].answer)
           newVerdict == Verdict(op'[r].answer)
<1>4. /\ Reached[r] = op[r].reached
      /\ Verdicts[r] = verdict
      /\ Reached' = [Reached EXCEPT ![r] = op'[r].reached]
      /\ Verdicts' = [Verdicts EXCEPT ![r] = newVerdict]
      /\ Reached = [Reached EXCEPT ![r] = op[r].reached]
      /\ Verdicts = [Verdicts EXCEPT ![r] = verdict]
  BY <1>1 DEF Reached, Verdicts
<1>5. CASE op'[r].answer.class = op[r].answer.class /\ op'[r].reached = op[r].reached
  <2>1. newVerdict = verdict
    BY <1>5 DEF Verdict, Succeeded, DeniesEffect
  <2>2. Reached' = Reached /\ Verdicts' = Verdicts
    BY <1>4, <1>5, <2>1
  <2> QED
    BY <2>2 DEF Contract!contractVars
<1>6. CASE op'[r].answer.class # op[r].answer.class /\ op'[r].reached = op[r].reached
  <2>1. op[r].answer.class = "none" /\ op'[r].answer.class # "none"
    BY <1>1, <1>6
  <2>2. verdict = "none" /\ newVerdict \in {"done", "denied", "uncertain"}
    BY <1>2, <2>1, VerdictOfAnswer
  <2>3. /\ newVerdict = "done" => op'[r].reached
        /\ newVerdict = "denied" => ~op'[r].reached
    BY <1>2, <1>3, VerdictOfAnswer DEF Agrees
  <2> HIDE DEF verdict, newVerdict
  <2>4. Contract!End(r, newVerdict)
    BY <1>4, <1>6, <2>2, <2>3 DEF Contract!End
  <2> QED
    BY <2>2, <2>4 DEF Contract!ContractNext
<1>7. CASE op'[r].reached # op[r].reached
  <2>1. op'[r].reached /\ ~op[r].reached
    BY <1>1, <1>2, <1>7
  <2>2. verdict = "none"
    BY <1>1, <1>2, <2>1, VerdictOfAnswer
  <2>3. CASE op'[r].answer.class = "none"
    <3>1. newVerdict = "none"
      BY <1>2, <2>3, VerdictOfAnswer
    <3> HIDE DEF verdict, newVerdict
    <3>2. Verdicts' = Verdicts
      BY <1>4, <2>2, <3>1
    <3>3. Contract!Reach(r)
      BY <1>2, <1>4, <2>1, <2>2, <3>2 DEF Contract!Reach
    <3> QED
      BY <3>3 DEF Contract!ContractNext
  <2>4. CASE op'[r].answer.class = "uncertain"
    <3>1. newVerdict = "uncertain"
      BY <1>2, <2>4, VerdictOfAnswer
    <3> HIDE DEF verdict, newVerdict
    <3>2. Contract!ReachAndLose(r)
      BY <1>2, <1>4, <2>1, <2>2, <3>1 DEF Contract!ReachAndLose
    <3> QED
      BY <3>2 DEF Contract!ContractNext
  <2> QED
    BY <1>1, <2>1, <2>3, <2>4
<1> QED
  BY <1>5, <1>6, <1>7

\* A call implements the contract as long as neither the send nor the projection
\* of the response fails: it is sent at most once, an answer that
\* denies the effect is true, and every other failure is uncertain.
THEOREM ServiceImplementsContract ==
    ASSUME RosFaults = {} PROVE Spec => ContractHolds
<1>1. Init => Contract!ContractInit
  BY DEF Init, NewCall, Undispatched, NoAnswer, Contract!ContractInit,
         Reached, Verdicts, Verdict, Succeeded, DeniesEffect, ErrorClasses
<1>2. TypeOK /\ RecordsAgree /\ TypeOK' /\ RecordsAgree' /\ [Next]_opVars
        => [Contract!ContractNext]_(Contract!contractVars)
  <2> SUFFICES ASSUME TypeOK, RecordsAgree, TypeOK', RecordsAgree', [Next]_opVars
               PROVE  [Contract!ContractNext]_(Contract!contractVars)
    OBVIOUS
  <2>1. CASE UNCHANGED op
    BY <2>1 DEF Contract!contractVars, Reached, Verdicts
  <2>2. ASSUME NEW r \in Requests, Request(r)
        PROVE  [Contract!ContractNext]_(Contract!contractVars)
    BY <2>2, RequestRefinesContract
  <2> QED
    BY <2>1, <2>2 DEF Next, ToggleCapability, opVars
<1> QED
  BY <1>1, <1>2, ServiceTypeCorrect, ServiceRecordsAgree, PTL
     DEF Spec, ContractHolds, Contract!ContractSpec

------------------------------------------------------------------------------
\* A step of one request leaves the records of the others alone.
LEMMA OthersUntouched ==
    ASSUME TypeOK, NEW r \in Requests, Request(r), NEW s \in Requests \ {r}
    PROVE  op'[s] = op[s]
<1> USE DEF TypeOK, Goto, Throw, Return
<1>1. CASE Admit(r)
  BY <1>1 DEF Admit
<1>2. CASE Worker(r)
  <2>1. CASE Validate(r) \/ LoadRequest(r) \/ CheckReady(r) \/ WaitCancel(r)
    BY <2>1 DEF Validate, LoadRequest, CheckReady, WaitCancel, CheckCancellation
  <2>2. CASE WaitDeadline(r) \/ WaitClock(r) \/ FinalCancel(r) \/ FinalDeadline(r)
    BY <2>2 DEF WaitDeadline, WaitClock, FinalCancel, FinalDeadline,
                CheckCancellation, requireBeforeDeadline
  <2>3. CASE SendRequest(r) \/ PollResponse(r) \/ PollCancel(r) \/ PollClock(r)
    BY <2>3 DEF SendRequest, PollResponse, PollCancel, PollClock, GiveUp
  <2>4. CASE PollDeadline(r) \/ GetResponse(r) \/ ProjectResponse(r) \/ Reply(r)
    BY <2>4 DEF PollDeadline, GetResponse, ProjectResponse, Reply, GiveUp
  <2> QED
    BY <1>2, <2>1, <2>2, <2>3, <2>4 DEF Worker
<1>3. CASE Discovery(r) \/ WaitElapses(r) \/ ResponseArrives(r)
  BY <1>3 DEF Discovery, WaitElapses, ResponseArrives, PeerComesOrGoes,
              SteadyClockPassesWait
<1>4. CASE Surroundings(r)
  BY <1>4 DEF Surroundings, Cancel, DeadlinePasses, ClockIsSetBack
<1> QED
  BY <1>1, <1>2, <1>3, <1>4 DEF Request

\* A request leaves "idle" for its first check only in a step of its own, and
\* only when the worker finds the flag set.  ToolsAdapterProofs uses it.
LEMMA AdmissionReadsFlag ==
    ASSUME TypeOK, NEW r \in Requests, NEW s \in Requests,
           Request(s), At(r, "idle"), op'[r].at = "validate"
    PROVE  enabled
<1>1. s = r
  BY OthersUntouched DEF At
<1>2. op[r] \in ServiceRecord
  BY DEF TypeOK
<1>3. ~Worker(r)
  BY DEF At, Worker, CheckCancellation, requireBeforeDeadline, Validate,
     LoadRequest,
         CheckReady, WaitCancel, WaitDeadline, WaitClock, FinalCancel,
         FinalDeadline, SendRequest, PollResponse, PollCancel, PollClock,
         PollDeadline, GetResponse, ProjectResponse, Reply
<1>4. ~Discovery(r) /\ ~WaitElapses(r)
  <2>1. ~Waiting(r) /\ op[r].at \notin Polling
    BY DEF At, Waiting, Polling
  <2> QED
    BY <2>1, Zenon
       DEF Discovery, WaitElapses, PeerComesOrGoes, SteadyClockPassesWait
<1>5. ~Surroundings(r)
  BY <1>2 DEF TypeOK, At, Surroundings, Cancel, DeadlinePasses, ClockIsSetBack,
              ServiceRecord
<1>6. ~ResponseArrives(r)
  <2> SUFFICES ASSUME NEW response \in Arrivals,
                      op'[r] = Fulfilled(op[r], response)
               PROVE  FALSE
    BY DEF TypeOK, ResponseArrives
  <2>1. Fulfilled(op[r], response).at = op[r].at
    BY <1>2, FulfilledTyped
  <2> QED
    BY <2>1 DEF At
<1>7. Admit(r)
  BY <1>1, <1>3, <1>4, <1>5, <1>6 DEF Request
<1>8. ASSUME ~enabled PROVE FALSE
  <2> DEFINE answer == failure(rejectedError("service_capability_disabled"))
  <2>1. op'[r] = Ended(op[r], answer)
    BY <1>7, <1>8 DEF Admit, Throw, Return, TypeOK
  <2>2. answer \in Answers(ServiceCodes)
    BY EarlyFailures
  <2> HIDE DEF answer
  <2>3. op'[r].at = "done"
    BY <1>2, <2>1, <2>2, EndedTyped
  <2> QED
    BY <2>3
<1> QED
  BY <1>8
==============================================================================
