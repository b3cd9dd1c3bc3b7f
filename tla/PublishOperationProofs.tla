----------------------- MODULE PublishOperationProofs ------------------------
(***************************************************************************)
(* Proofs about PublishOperation, for every set of requests and whether or *)
(* not the system clock steps back.                                        *)
(***************************************************************************)
EXTENDS PublishOperation, TLAPS

\* A ToolsError of one of the seven classes is answered as it is.
LEMMA TypedFailure ==
    ASSUME NEW c \in ErrorClasses, NEW codes, NEW k \in codes
    PROVE  /\ failure([class |-> c, code |-> k]) = [class |-> c, code |-> k]
           /\ failure([class |-> c, code |-> k]) \in Answers(codes)
BY DEF failure, Answers

\* An exception without a type is answered as a transient failure.
LEMMA UntypedFailure ==
    ASSUME NEW codes
    PROVE  /\ failure(UntypedException)
                = [class |-> "transient", code |-> "internal_error"]
           /\ failure(UntypedException) \in Answers(codes)
BY DEF failure, UntypedException, Answers, ErrorClasses

\* The answer of every failure Publish can throw, class and type.
LEMMA PublishFailures ==
    /\ failure(rejectedError("publish_capability_disabled")).class = "rejected"
    /\ failure(rejectedError("publish_capability_disabled")) \in Answers(PublishCodes)
    /\ failure(permanentError("invalid_request")).class = "permanent"
    /\ failure(permanentError("invalid_request")) \in Answers(PublishCodes)
    /\ failure(permanentError("invalid_message")).class = "permanent"
    /\ failure(permanentError("invalid_message")) \in Answers(PublishCodes)
    /\ failure(resourceExhaustedError("request_too_large")).class = "resource-exhausted"
    /\ failure(resourceExhaustedError("request_too_large")) \in Answers(PublishCodes)
    /\ failure(cancelledError("publish_cancelled")).class = "cancelled"
    /\ failure(cancelledError("publish_cancelled")) \in Answers(PublishCodes)
    /\ failure(deadlineError("publish_deadline_elapsed")).class = "deadline"
    /\ failure(deadlineError("publish_deadline_elapsed")) \in Answers(PublishCodes)
    /\ failure(transientError("subscriber_unavailable")).class = "transient"
    /\ failure(transientError("subscriber_unavailable")) \in Answers(PublishCodes)
    /\ failure(uncertainError("publish_outcome_unknown")).class = "uncertain"
    /\ failure(uncertainError("publish_outcome_unknown")) \in Answers(PublishCodes)
    /\ failure(UntypedException).class = "transient"
    /\ failure(UntypedException) \in Answers(PublishCodes)
BY TypedFailure, UntypedFailure
   DEF rejectedError, permanentError, resourceExhaustedError, cancelledError,
       deadlineError, transientError, uncertainError, ErrorClasses, PublishCodes

LEMMA SuccessAnswer ==
    /\ Success \in Answers(PublishCodes)
    /\ Success.class = "success"
BY DEF Success, Answers

LEMMA NewPublishTyped == NewPublish \in PublishRecord
<1>1. NoAnswer \in Answers(PublishCodes)
  BY DEF NoAnswer, Answers
<1> QED
  BY <1>1 DEF NewPublish, Undispatched, PublishRecord, PublishLabels

\* A call that ends with an answer of Publish leaves a record of its type,
\* with that answer and the effect it had.
LEMMA EndedTyped ==
    ASSUME NEW rec \in PublishRecord, NEW a \in Answers(PublishCodes)
    PROVE  /\ Ended(rec, a) \in PublishRecord
           /\ Ended(rec, a).at = "done"
           /\ Ended(rec, a).answer = a
           /\ Ended(rec, a).reached = rec.reached
           /\ Ended(rec, a).waits = rec.waits
           /\ Ended(rec, a).setBack = rec.setBack
           /\ Ended(rec, a).seen = rec.seen
BY DEF Ended, PublishRecord, PublishLabels

\* The record a publish that threw leaves behind.
LEMMA LostTyped ==
    ASSUME NEW rec \in PublishRecord, NEW out \in BOOLEAN
    PROVE  /\ Lost(rec, out) \in PublishRecord
           /\ Lost(rec, out).at = "done"
           /\ Lost(rec, out).answer.class = "uncertain"
           /\ Lost(rec, out).reached = out
           /\ Lost(rec, out).waits = rec.waits
           /\ Lost(rec, out).setBack = rec.setBack
           /\ Lost(rec, out).seen = rec.seen
<1> DEFINE over == [rec EXCEPT !.reached = out]
<1>1. /\ over \in PublishRecord
      /\ over.reached = out
      /\ over.waits = rec.waits
      /\ over.setBack = rec.setBack
      /\ over.seen = rec.seen
  BY DEF PublishRecord
<1>2. Lost(rec, out)
        = Ended(over, failure(uncertainError("publish_outcome_unknown")))
  BY DEF Lost
<1> DEFINE unknown == failure(uncertainError("publish_outcome_unknown"))
<1>3. unknown \in Answers(PublishCodes) /\ unknown.class = "uncertain"
  BY PublishFailures
<1> HIDE DEF over, unknown
<1>4. /\ Ended(over, unknown) \in PublishRecord
      /\ Ended(over, unknown).at = "done"
      /\ Ended(over, unknown).answer = unknown
      /\ Ended(over, unknown).reached = over.reached
      /\ Ended(over, unknown).waits = over.waits
      /\ Ended(over, unknown).setBack = over.setBack
      /\ Ended(over, unknown).seen = over.seen
  BY <1>1, <1>3, EndedTyped
<1>5. Lost(rec, out) = Ended(over, unknown)
  BY <1>2 DEF unknown
<1> QED
  BY <1>1, <1>3, <1>4, <1>5

------------------------------------------------------------------------------
(***************************************************************************)
(* Type correctness.                                                       *)
(***************************************************************************)

\* Every step of a request leaves its record of the type of a publish record.
LEMMA RequestKeepsType ==
    ASSUME TypeOK, NEW r \in Requests, Request(r)
    PROVE  TypeOK'
<1> USE DEF TypeOK, Goto, Throw, Return
<1>0. op[r] \in PublishRecord
  OBVIOUS
<1>1. CASE Admit(r)
  BY <1>0, <1>1, PublishFailures, EndedTyped
     DEF Admit, PublishRecord, PublishLabels
<1>2. CASE Validate(r)
  BY <1>0, <1>2, PublishFailures, EndedTyped
     DEF Validate, PublishRecord, PublishLabels
<1>3. CASE CancelBeforeLoad(r)
  BY <1>0, <1>3, PublishFailures, EndedTyped
     DEF CancelBeforeLoad, CheckCancellation, PublishRecord, PublishLabels
<1>4. CASE DeadlineBeforeLoad(r)
  BY <1>0, <1>4, PublishFailures, EndedTyped
     DEF DeadlineBeforeLoad, requireBeforeDeadline, PublishRecord, PublishLabels
<1>5. CASE LoadMessage(r)
  BY <1>0, <1>5, PublishFailures, EndedTyped
     DEF LoadMessage, PublishRecord, PublishLabels
<1>6. CASE CountSubscribers(r)
  BY <1>0, <1>6, PublishFailures, EndedTyped
     DEF CountSubscribers, PublishRecord, PublishLabels
<1>7. CASE WaitClock(r)
  BY <1>0, <1>7
     DEF WaitClock, PublishRecord, PublishLabels
<1>8. CASE WaitCancel(r)
  BY <1>0, <1>8, PublishFailures, EndedTyped
     DEF WaitCancel, CheckCancellation, PublishRecord, PublishLabels
<1>9. CASE WaitDeadline(r)
  BY <1>0, <1>9, PublishFailures, EndedTyped
     DEF WaitDeadline, requireBeforeDeadline, PublishRecord, PublishLabels
<1>10. CASE RecountSubscribers(r)
  BY <1>0, <1>10, PublishFailures, EndedTyped
     DEF RecountSubscribers, PublishRecord, PublishLabels
<1>11. CASE FinalCancel(r)
  BY <1>0, <1>11, PublishFailures, EndedTyped
     DEF FinalCancel, CheckCancellation, PublishRecord, PublishLabels
<1>12. CASE FinalDeadline(r)
  BY <1>0, <1>12, PublishFailures, EndedTyped
     DEF FinalDeadline, requireBeforeDeadline, PublishRecord, PublishLabels
<1>13. CASE PublishMessage(r)
  BY <1>0, <1>13, LostTyped
     DEF PublishMessage, PublishRecord, PublishLabels
<1>14. CASE Reply(r)
  BY <1>0, <1>14, SuccessAnswer, EndedTyped
     DEF Reply, PublishRecord, PublishLabels
<1>15. CASE Discovery(r)
  BY <1>0, <1>15
     DEF Discovery, PeerComesOrGoes, PublisherExists, PublishRecord,
         PublishLabels
<1>16. CASE WaitElapses(r)
  BY <1>0, <1>16
     DEF WaitElapses, PublisherExists, SteadyClockPassesWait, PublishRecord,
         PublishLabels
<1>17. CASE Cancel(r)
  BY <1>0, <1>17
     DEF Cancel, PublishRecord, PublishLabels
<1>18. CASE DeadlinePasses(r)
  BY <1>0, <1>18
     DEF DeadlinePasses, PublishRecord, PublishLabels
<1>19. CASE ClockIsSetBack(r)
  BY <1>0, <1>19
     DEF ClockIsSetBack, PublishRecord, PublishLabels
<1> QED
  BY <1>1, <1>2, <1>3, <1>4, <1>5, <1>6, <1>7, <1>8, <1>9, <1>10, <1>11, <1>12,
     <1>13, <1>14, <1>15, <1>16, <1>17, <1>18, <1>19
     DEF Request, Worker, Surroundings

\* The type invariant holds in every state: the answer of a publish request is
\* one of the classes and codes of the contract, whatever step threw.
THEOREM PublishTypeCorrect == Spec => []TypeOK
<1>1. Init => TypeOK
  BY NewPublishTyped DEF Init, TypeOK
<1>2. TypeOK /\ [Next]_opVars => TypeOK'
  <2> SUFFICES ASSUME TypeOK, [Next]_opVars PROVE TypeOK'
    OBVIOUS
  <2>1. CASE UNCHANGED opVars
    BY <2>1 DEF TypeOK, opVars
  <2>2. CASE ToggleCapability
    BY <2>2 DEF TypeOK, ToggleCapability
  <2>3. ASSUME NEW r \in Requests, Request(r) PROVE TypeOK'
    BY <2>3, RequestKeepsType
  <2> QED
    BY <2>1, <2>2, <2>3 DEF Next
<1> QED
  BY <1>1, <1>2, PTL DEF Spec

------------------------------------------------------------------------------
(***************************************************************************)
(* The inductive invariant.  A record agrees with its effect: only a       *)
(* request past the publication has reached the graph, an answer comes     *)
(* with the end of the call and not before, and the count of a request     *)
(* that waited was taken before the last checks.                           *)
(***************************************************************************)
Counted == {"finalCancel", "finalDeadline", "publish", "reply"}

Agrees(rec) == /\ rec.reached => rec.at \in {"reply", "done"}
               /\ rec.at = "reply" => rec.reached
               /\ rec.at # "done" => rec.answer.class = "none"
               /\ rec.at = "done" => rec.answer.class # "none"
               /\ Succeeded(rec.answer) => rec.reached
               /\ DeniesEffect(rec.answer) => ~rec.reached
               /\ rec.waits /\ rec.at \in Counted => rec.seen
               /\ rec.waits /\ rec.reached => rec.seen

RecordsAgree == \A r \in Requests : Agrees(op[r])

\* A failure that is not uncertain leaves a request that had no effect in order.
LEMMA DeniedAgrees ==
    ASSUME NEW rec \in PublishRecord, Agrees(rec), ~rec.reached,
           NEW a \in Answers(PublishCodes), a.class \in ErrorClasses
    PROVE  Agrees(Ended(rec, a))
BY EndedTyped DEF Agrees, Succeeded, DeniesEffect, ErrorClasses, Counted

LEMMA RequestKeepsAgreement ==
    ASSUME TypeOK, RecordsAgree, NEW r \in Requests, Request(r)
    PROVE  RecordsAgree'
<1>0. /\ op[r] \in PublishRecord
      /\ Agrees(op[r])
  BY DEF TypeOK, RecordsAgree
<1> SUFFICES Agrees(op[r])' /\ \A s \in Requests \ {r} : op'[s] = op[s]
  BY DEF RecordsAgree
<1> USE DEF TypeOK, Goto, Throw, Return
<1>1. CASE Admit(r)
  BY <1>0, <1>1, PublishFailures, DeniedAgrees
     DEF Admit, At, PublishRecord, PublishLabels, Agrees, Counted,
         Succeeded, DeniesEffect, ErrorClasses
<1>2. CASE Validate(r)
  BY <1>0, <1>2, PublishFailures, DeniedAgrees
     DEF Validate, At, PublishRecord, PublishLabels, Agrees, Counted,
         Succeeded, DeniesEffect, ErrorClasses
<1>3. CASE CancelBeforeLoad(r)
  BY <1>0, <1>3, PublishFailures, DeniedAgrees
     DEF CancelBeforeLoad, CheckCancellation, At, PublishRecord, PublishLabels,
         Agrees, Counted,
         Succeeded, DeniesEffect, ErrorClasses
<1>4. CASE DeadlineBeforeLoad(r)
  BY <1>0, <1>4, PublishFailures, DeniedAgrees
     DEF DeadlineBeforeLoad, requireBeforeDeadline, At, PublishRecord,
         PublishLabels, Agrees, Counted,
         Succeeded, DeniesEffect, ErrorClasses
<1>5. CASE LoadMessage(r)
  BY <1>0, <1>5, PublishFailures, DeniedAgrees
     DEF LoadMessage, At, PublishRecord, PublishLabels, Agrees, Counted,
         Succeeded, DeniesEffect, ErrorClasses
<1>6. CASE CountSubscribers(r)
  BY <1>0, <1>6, PublishFailures, DeniedAgrees
     DEF CountSubscribers, At, PublishRecord, PublishLabels, Agrees, Counted,
         Succeeded, DeniesEffect, ErrorClasses
<1>7. CASE WaitClock(r)
  BY <1>0, <1>7
     DEF WaitClock, At, PublishRecord, PublishLabels, Agrees, Counted,
         Succeeded, DeniesEffect, ErrorClasses
<1>8. CASE WaitCancel(r)
  BY <1>0, <1>8, PublishFailures, DeniedAgrees
     DEF WaitCancel, CheckCancellation, At, PublishRecord, PublishLabels,
         Agrees, Counted,
         Succeeded, DeniesEffect, ErrorClasses
<1>9. CASE WaitDeadline(r)
  BY <1>0, <1>9, PublishFailures, DeniedAgrees
     DEF WaitDeadline, requireBeforeDeadline, At, PublishRecord, PublishLabels,
         Agrees, Counted,
         Succeeded, DeniesEffect, ErrorClasses
<1>10. CASE RecountSubscribers(r)
  BY <1>0, <1>10, PublishFailures, DeniedAgrees
     DEF RecountSubscribers, At, PublishRecord, PublishLabels, Agrees, Counted,
         Succeeded, DeniesEffect, ErrorClasses
<1>11. CASE FinalCancel(r)
  BY <1>0, <1>11, PublishFailures, DeniedAgrees
     DEF FinalCancel, CheckCancellation, At, PublishRecord, PublishLabels,
         Agrees, Counted,
         Succeeded, DeniesEffect, ErrorClasses
<1>12. CASE FinalDeadline(r)
  BY <1>0, <1>12, PublishFailures, DeniedAgrees
     DEF FinalDeadline, requireBeforeDeadline, At, PublishRecord, PublishLabels,
         Agrees, Counted,
         Succeeded, DeniesEffect, ErrorClasses
<1>13. CASE PublishMessage(r)
  BY <1>0, <1>13, LostTyped
     DEF PublishMessage, At, PublishRecord, PublishLabels, Agrees, Counted,
         Succeeded, DeniesEffect, ErrorClasses
<1>14. CASE Reply(r)
  BY <1>0, <1>14, SuccessAnswer, EndedTyped
     DEF Reply, At, PublishRecord, PublishLabels, Agrees, Counted,
         Succeeded, DeniesEffect, ErrorClasses
<1>15. CASE Discovery(r)
  BY <1>0, <1>15
     DEF Discovery, PeerComesOrGoes, PublisherExists, At, PublishRecord,
         PublishLabels, Agrees, Counted,
         Succeeded, DeniesEffect, ErrorClasses
<1>16. CASE WaitElapses(r)
  BY <1>0, <1>16
     DEF WaitElapses, PublisherExists, SteadyClockPassesWait, At, PublishRecord,
         PublishLabels, Agrees, Counted,
         Succeeded, DeniesEffect, ErrorClasses
<1>17. CASE Cancel(r)
  BY <1>0, <1>17
     DEF Cancel, At, PublishRecord, PublishLabels, Agrees, Counted,
         Succeeded, DeniesEffect, ErrorClasses
<1>18. CASE DeadlinePasses(r)
  BY <1>0, <1>18
     DEF DeadlinePasses, At, PublishRecord, PublishLabels, Agrees, Counted,
         Succeeded, DeniesEffect, ErrorClasses
<1>19. CASE ClockIsSetBack(r)
  BY <1>0, <1>19
     DEF ClockIsSetBack, At, PublishRecord, PublishLabels, Agrees, Counted,
         Succeeded, DeniesEffect, ErrorClasses
<1> QED
  BY <1>1, <1>2, <1>3, <1>4, <1>5, <1>6, <1>7, <1>8, <1>9, <1>10, <1>11, <1>12,
     <1>13, <1>14, <1>15, <1>16, <1>17, <1>18, <1>19
     DEF Request, Worker, Surroundings

\* The records agree with their effects in every state.
THEOREM PublishRecordsAgree == Spec => []RecordsAgree
<1>1. Init => RecordsAgree
  BY DEF Init, RecordsAgree, Agrees, NewPublish, Undispatched, NoAnswer,
         Succeeded, DeniesEffect, ErrorClasses, Counted
<1>2. TypeOK /\ RecordsAgree /\ [Next]_opVars => RecordsAgree'
  <2> SUFFICES ASSUME TypeOK, RecordsAgree, [Next]_opVars
               PROVE  RecordsAgree'
    OBVIOUS
  <2>1. CASE UNCHANGED opVars
    BY <2>1 DEF RecordsAgree, opVars
  <2>2. CASE ToggleCapability
    BY <2>2 DEF RecordsAgree, ToggleCapability
  <2>3. ASSUME NEW r \in Requests, Request(r) PROVE RecordsAgree'
    BY <2>3, RequestKeepsAgreement
  <2> QED
    BY <2>1, <2>2, <2>3 DEF Next
<1> QED
  BY <1>1, <1>2, PublishTypeCorrect, PTL DEF Spec

\* A request that asked to wait for subscribers is published only after one was
\* counted.
THEOREM PublishKeepsSubscriberPromise == Spec => []SubscriberPromise
<1>1. RecordsAgree => SubscriberPromise
  BY DEF RecordsAgree, Agrees, SubscriberPromise
<1> QED
  BY <1>1, PublishRecordsAgree, PTL

------------------------------------------------------------------------------
(***************************************************************************)
(* Cancelled in time, or expired in time: a request that has not passed    *)
(* the check yet can only end, and without an effect.                      *)
(***************************************************************************)
CancelStopped(r) ==
    /\ ~op[r].reached
    /\ \/ At(r, "done")
       \/ op[r].cancelled /\ op[r].at \in BeforeFinalCancel

LEMMA RequestKeepsCancelStopped ==
    ASSUME TypeOK, NEW r \in Requests, CancelStopped(r),
           NEW s \in Requests, Request(s)
    PROVE  CancelStopped(r)'
<1>0. op[s] \in PublishRecord /\ op[r] \in PublishRecord
  BY DEF TypeOK
<1> USE DEF TypeOK, Goto, Throw, Return
<1>1. CASE Admit(s)
  BY <1>0, <1>1, PublishFailures, EndedTyped
     DEF Admit, At, PublishRecord, BeforeFinalCancel, PublishLabels,
         CancelStopped
<1>2. CASE Validate(s)
  BY <1>0, <1>2, PublishFailures, EndedTyped
     DEF Validate, At, PublishRecord, BeforeFinalCancel, PublishLabels,
         CancelStopped
<1>3. CASE CancelBeforeLoad(s)
  BY <1>0, <1>3, PublishFailures, EndedTyped
     DEF CancelBeforeLoad, CheckCancellation, At, PublishRecord,
         BeforeFinalCancel, PublishLabels, CancelStopped
<1>4. CASE DeadlineBeforeLoad(s)
  BY <1>0, <1>4, PublishFailures, EndedTyped
     DEF DeadlineBeforeLoad, requireBeforeDeadline, At, PublishRecord,
         BeforeFinalCancel, PublishLabels, CancelStopped
<1>5. CASE LoadMessage(s)
  BY <1>0, <1>5, PublishFailures, EndedTyped
     DEF LoadMessage, At, PublishRecord, BeforeFinalCancel, PublishLabels,
         CancelStopped
<1>6. CASE CountSubscribers(s)
  BY <1>0, <1>6, PublishFailures, EndedTyped
     DEF CountSubscribers, At, PublishRecord, BeforeFinalCancel, PublishLabels,
         CancelStopped
<1>7. CASE WaitClock(s)
  BY <1>0, <1>7
     DEF WaitClock, At, PublishRecord, BeforeFinalCancel, PublishLabels,
         CancelStopped
<1>8. CASE WaitCancel(s)
  BY <1>0, <1>8, PublishFailures, EndedTyped
     DEF WaitCancel, CheckCancellation, At, PublishRecord, BeforeFinalCancel,
         PublishLabels, CancelStopped
<1>9. CASE WaitDeadline(s)
  BY <1>0, <1>9, PublishFailures, EndedTyped
     DEF WaitDeadline, requireBeforeDeadline, At, PublishRecord,
         BeforeFinalCancel, PublishLabels, CancelStopped
<1>10. CASE RecountSubscribers(s)
  BY <1>0, <1>10, PublishFailures, EndedTyped
     DEF RecountSubscribers, At, PublishRecord, BeforeFinalCancel,
         PublishLabels, CancelStopped
<1>11. CASE FinalCancel(s)
  BY <1>0, <1>11, PublishFailures, EndedTyped
     DEF FinalCancel, CheckCancellation, At, PublishRecord, BeforeFinalCancel,
         PublishLabels, CancelStopped
<1>12. CASE FinalDeadline(s)
  BY <1>0, <1>12, PublishFailures, EndedTyped
     DEF FinalDeadline, requireBeforeDeadline, At, PublishRecord,
         BeforeFinalCancel, PublishLabels, CancelStopped
<1>13. CASE PublishMessage(s)
  BY <1>0, <1>13
     DEF PublishMessage, At, PublishRecord, BeforeFinalCancel, PublishLabels,
         CancelStopped
<1>14. CASE Reply(s)
  BY <1>0, <1>14
     DEF Reply, At, PublishRecord, BeforeFinalCancel, PublishLabels,
         CancelStopped
<1>15. CASE Discovery(s)
  BY <1>0, <1>15
     DEF Discovery, PeerComesOrGoes, PublisherExists, At, PublishRecord,
         BeforeFinalCancel, PublishLabels, CancelStopped
<1>16. CASE WaitElapses(s)
  BY <1>0, <1>16
     DEF WaitElapses, PublisherExists, SteadyClockPassesWait, At, PublishRecord,
         BeforeFinalCancel, PublishLabels, CancelStopped
<1>17. CASE Cancel(s)
  BY <1>0, <1>17
     DEF Cancel, At, PublishRecord, BeforeFinalCancel, PublishLabels,
         CancelStopped
<1>18. CASE DeadlinePasses(s)
  BY <1>0, <1>18
     DEF DeadlinePasses, At, PublishRecord, BeforeFinalCancel, PublishLabels,
         CancelStopped
<1>19. CASE ClockIsSetBack(s)
  BY <1>0, <1>19
     DEF ClockIsSetBack, At, PublishRecord, BeforeFinalCancel, PublishLabels,
         CancelStopped
<1> QED
  BY <1>1, <1>2, <1>3, <1>4, <1>5, <1>6, <1>7, <1>8, <1>9, <1>10, <1>11, <1>12,
     <1>13, <1>14, <1>15, <1>16, <1>17, <1>18, <1>19
     DEF Request, Worker, Surroundings

\* A request cancelled before the last cancellation check is never published.
THEOREM PublishHonoursCancellation == Spec => CancelledInTimeIsNotPublished
<1>1. ASSUME NEW r \in Requests
      PROVE  Spec => [](op[r].cancelled /\ op[r].at \in BeforeFinalCancel
                          => [](~op[r].reached))
  <2>1. RecordsAgree /\ op[r].cancelled /\ op[r].at \in BeforeFinalCancel
          => CancelStopped(r)
    BY DEF RecordsAgree, Agrees, CancelStopped, BeforeFinalCancel
  <2>2. TypeOK /\ CancelStopped(r) /\ [Next]_opVars => CancelStopped(r)'
    <3> SUFFICES ASSUME TypeOK, CancelStopped(r), [Next]_opVars
                 PROVE  CancelStopped(r)'
      OBVIOUS
    <3>1. CASE UNCHANGED opVars
      BY <3>1 DEF CancelStopped, At, opVars
    <3>2. CASE ToggleCapability
      BY <3>2 DEF CancelStopped, At, ToggleCapability
    <3>3. ASSUME NEW s \in Requests, Request(s) PROVE CancelStopped(r)'
      BY <3>3, RequestKeepsCancelStopped
    <3> QED
      BY <3>1, <3>2, <3>3 DEF Next
  <2>3. CancelStopped(r) => ~op[r].reached
    BY DEF CancelStopped
  <2> QED
    BY <2>1, <2>2, <2>3, PublishTypeCorrect, PublishRecordsAgree, PTL DEF Spec
<1> QED
  BY <1>1 DEF CancelledInTimeIsNotPublished

DeadlineStopped(r) ==
    \/ op[r].setBack
    \/ /\ ~op[r].reached
       /\ \/ At(r, "done")
          \/ /\ op[r].expired
             /\ op[r].at \in BeforeFinalCancel \cup {"finalDeadline"}

LEMMA RequestKeepsDeadlineStopped ==
    ASSUME TypeOK, NEW r \in Requests, DeadlineStopped(r),
           NEW s \in Requests, Request(s)
    PROVE  DeadlineStopped(r)'
<1>0. op[s] \in PublishRecord /\ op[r] \in PublishRecord
  BY DEF TypeOK
<1> USE DEF TypeOK, Goto, Throw, Return
<1>1. CASE Admit(s)
  BY <1>0, <1>1, PublishFailures, EndedTyped
     DEF Admit, At, PublishRecord, BeforeFinalCancel, PublishLabels,
         DeadlineStopped
<1>2. CASE Validate(s)
  BY <1>0, <1>2, PublishFailures, EndedTyped
     DEF Validate, At, PublishRecord, BeforeFinalCancel, PublishLabels,
         DeadlineStopped
<1>3. CASE CancelBeforeLoad(s)
  BY <1>0, <1>3, PublishFailures, EndedTyped
     DEF CancelBeforeLoad, CheckCancellation, At, PublishRecord,
         BeforeFinalCancel, PublishLabels, DeadlineStopped
<1>4. CASE DeadlineBeforeLoad(s)
  BY <1>0, <1>4, PublishFailures, EndedTyped
     DEF DeadlineBeforeLoad, requireBeforeDeadline, At, PublishRecord,
         BeforeFinalCancel, PublishLabels, DeadlineStopped
<1>5. CASE LoadMessage(s)
  BY <1>0, <1>5, PublishFailures, EndedTyped
     DEF LoadMessage, At, PublishRecord, BeforeFinalCancel, PublishLabels,
         DeadlineStopped
<1>6. CASE CountSubscribers(s)
  BY <1>0, <1>6, PublishFailures, EndedTyped
     DEF CountSubscribers, At, PublishRecord, BeforeFinalCancel, PublishLabels,
         DeadlineStopped
<1>7. CASE WaitClock(s)
  BY <1>0, <1>7
     DEF WaitClock, At, PublishRecord, BeforeFinalCancel, PublishLabels,
         DeadlineStopped
<1>8. CASE WaitCancel(s)
  BY <1>0, <1>8, PublishFailures, EndedTyped
     DEF WaitCancel, CheckCancellation, At, PublishRecord, BeforeFinalCancel,
         PublishLabels, DeadlineStopped
<1>9. CASE WaitDeadline(s)
  BY <1>0, <1>9, PublishFailures, EndedTyped
     DEF WaitDeadline, requireBeforeDeadline, At, PublishRecord,
         BeforeFinalCancel, PublishLabels, DeadlineStopped
<1>10. CASE RecountSubscribers(s)
  BY <1>0, <1>10, PublishFailures, EndedTyped
     DEF RecountSubscribers, At, PublishRecord, BeforeFinalCancel,
         PublishLabels, DeadlineStopped
<1>11. CASE FinalCancel(s)
  BY <1>0, <1>11, PublishFailures, EndedTyped
     DEF FinalCancel, CheckCancellation, At, PublishRecord, BeforeFinalCancel,
         PublishLabels, DeadlineStopped
<1>12. CASE FinalDeadline(s)
  BY <1>0, <1>12, PublishFailures, EndedTyped
     DEF FinalDeadline, requireBeforeDeadline, At, PublishRecord,
         BeforeFinalCancel, PublishLabels, DeadlineStopped
<1>13. CASE PublishMessage(s)
  BY <1>0, <1>13, LostTyped
     DEF PublishMessage, At, PublishRecord, BeforeFinalCancel, PublishLabels,
         DeadlineStopped
<1>14. CASE Reply(s)
  BY <1>0, <1>14, SuccessAnswer, EndedTyped
     DEF Reply, At, PublishRecord, BeforeFinalCancel, PublishLabels,
         DeadlineStopped
<1>15. CASE Discovery(s)
  BY <1>0, <1>15
     DEF Discovery, PeerComesOrGoes, PublisherExists, At, PublishRecord,
         BeforeFinalCancel, PublishLabels, DeadlineStopped
<1>16. CASE WaitElapses(s)
  BY <1>0, <1>16
     DEF WaitElapses, PublisherExists, SteadyClockPassesWait, At, PublishRecord,
         BeforeFinalCancel, PublishLabels, DeadlineStopped
<1>17. CASE Cancel(s)
  BY <1>0, <1>17
     DEF Cancel, At, PublishRecord, BeforeFinalCancel, PublishLabels,
         DeadlineStopped
<1>18. CASE DeadlinePasses(s)
  BY <1>0, <1>18
     DEF DeadlinePasses, At, PublishRecord, BeforeFinalCancel, PublishLabels,
         DeadlineStopped
<1>19. CASE ClockIsSetBack(s)
  BY <1>0, <1>19
     DEF ClockIsSetBack, At, PublishRecord, BeforeFinalCancel, PublishLabels,
         DeadlineStopped
<1> QED
  BY <1>1, <1>2, <1>3, <1>4, <1>5, <1>6, <1>7, <1>8, <1>9, <1>10, <1>11, <1>12,
     <1>13, <1>14, <1>15, <1>16, <1>17, <1>18, <1>19
     DEF Request, Worker, Surroundings

\* A request whose deadline passes before the last deadline check is not published, unless
\* the system clock is set back over that deadline.
THEOREM PublishHonoursDeadline == Spec => ExpiredInTimeIsNotPublished
<1>1. ASSUME NEW r \in Requests
      PROVE  Spec => [](op[r].expired
                          /\ op[r].at \in BeforeFinalCancel \cup {"finalDeadline"}
                          => [](op[r].reached => op[r].setBack))
  <2>1. RecordsAgree /\ op[r].expired
          /\ op[r].at \in BeforeFinalCancel \cup {"finalDeadline"}
          => DeadlineStopped(r)
    BY DEF RecordsAgree, Agrees, DeadlineStopped, BeforeFinalCancel
  <2>2. TypeOK /\ DeadlineStopped(r) /\ [Next]_opVars => DeadlineStopped(r)'
    <3> SUFFICES ASSUME TypeOK, DeadlineStopped(r), [Next]_opVars
                 PROVE  DeadlineStopped(r)'
      OBVIOUS
    <3>1. CASE UNCHANGED opVars
      BY <3>1 DEF DeadlineStopped, At, opVars
    <3>2. CASE ToggleCapability
      BY <3>2 DEF DeadlineStopped, At, ToggleCapability
    <3>3. ASSUME NEW s \in Requests, Request(s) PROVE DeadlineStopped(r)'
      BY <3>3, RequestKeepsDeadlineStopped
    <3> QED
      BY <3>1, <3>2, <3>3 DEF Next
  <2>3. DeadlineStopped(r) => (op[r].reached => op[r].setBack)
    BY DEF DeadlineStopped
  <2> QED
    BY <2>1, <2>2, <2>3, PublishTypeCorrect, PublishRecordsAgree, PTL DEF Spec
<1> QED
  BY <1>1 DEF ExpiredInTimeIsNotPublished

------------------------------------------------------------------------------
(***************************************************************************)
(* Refinement: every step of Publish is a step of OperationContract or     *)
(* leaves its variables alone.                                             *)
(***************************************************************************)

\* What a step of request r does to what the contract sees of it: the effect
\* is never undone, the answer is given once, and an effect that comes with an
\* answer comes with an uncertain one.
LEMMA RequestStep ==
    ASSUME TypeOK, RecordsAgree, NEW r \in Requests, Request(r)
    PROVE  /\ \A s \in Requests \ {r} : op'[s] = op[s]
           /\ op[r].reached => op'[r].reached
           /\ \/ op'[r].answer.class = op[r].answer.class
              \/ op[r].answer.class = "none"
           /\ op'[r].reached /\ ~op[r].reached
                => /\ op[r].answer.class = "none"
                   /\ op'[r].answer.class \in {"none", "uncertain"}
<1>0. /\ op[r] \in PublishRecord
      /\ Agrees(op[r])
  BY DEF TypeOK, RecordsAgree
<1> USE DEF TypeOK, Goto, Throw, Return
<1>1. CASE Admit(r)
  BY <1>0, <1>1, PublishFailures, EndedTyped
     DEF Admit, At, PublishRecord, Agrees
<1>2. CASE Validate(r)
  BY <1>0, <1>2, PublishFailures, EndedTyped
     DEF Validate, At, PublishRecord, Agrees
<1>3. CASE CancelBeforeLoad(r)
  BY <1>0, <1>3, PublishFailures, EndedTyped
     DEF CancelBeforeLoad, CheckCancellation, At, PublishRecord, Agrees
<1>4. CASE DeadlineBeforeLoad(r)
  BY <1>0, <1>4, PublishFailures, EndedTyped
     DEF DeadlineBeforeLoad, requireBeforeDeadline, At, PublishRecord, Agrees
<1>5. CASE LoadMessage(r)
  BY <1>0, <1>5, PublishFailures, EndedTyped
     DEF LoadMessage, At, PublishRecord, Agrees
<1>6. CASE CountSubscribers(r)
  BY <1>0, <1>6, PublishFailures, EndedTyped
     DEF CountSubscribers, At, PublishRecord, Agrees
<1>7. CASE WaitClock(r)
  BY <1>0, <1>7
     DEF WaitClock, At, PublishRecord, Agrees
<1>8. CASE WaitCancel(r)
  BY <1>0, <1>8, PublishFailures, EndedTyped
     DEF WaitCancel, CheckCancellation, At, PublishRecord, Agrees
<1>9. CASE WaitDeadline(r)
  BY <1>0, <1>9, PublishFailures, EndedTyped
     DEF WaitDeadline, requireBeforeDeadline, At, PublishRecord, Agrees
<1>10. CASE RecountSubscribers(r)
  BY <1>0, <1>10, PublishFailures, EndedTyped
     DEF RecountSubscribers, At, PublishRecord, Agrees
<1>11. CASE FinalCancel(r)
  BY <1>0, <1>11, PublishFailures, EndedTyped
     DEF FinalCancel, CheckCancellation, At, PublishRecord, Agrees
<1>12. CASE FinalDeadline(r)
  BY <1>0, <1>12, PublishFailures, EndedTyped
     DEF FinalDeadline, requireBeforeDeadline, At, PublishRecord, Agrees
<1>13. CASE PublishMessage(r)
  BY <1>0, <1>13, LostTyped
     DEF PublishMessage, At, PublishRecord, Agrees
<1>14. CASE Reply(r)
  BY <1>0, <1>14, SuccessAnswer, EndedTyped
     DEF Reply, At, PublishRecord, Agrees
<1>15. CASE Discovery(r)
  BY <1>0, <1>15
     DEF Discovery, PeerComesOrGoes, PublisherExists, At, PublishRecord, Agrees
<1>16. CASE WaitElapses(r)
  BY <1>0, <1>16
     DEF WaitElapses, PublisherExists, SteadyClockPassesWait, At, PublishRecord,
         Agrees
<1>17. CASE Cancel(r)
  BY <1>0, <1>17
     DEF Cancel, At, PublishRecord, Agrees
<1>18. CASE DeadlinePasses(r)
  BY <1>0, <1>18
     DEF DeadlinePasses, At, PublishRecord, Agrees
<1>19. CASE ClockIsSetBack(r)
  BY <1>0, <1>19
     DEF ClockIsSetBack, At, PublishRecord, Agrees
<1> QED
  BY <1>1, <1>2, <1>3, <1>4, <1>5, <1>6, <1>7, <1>8, <1>9, <1>10, <1>11, <1>12,
     <1>13, <1>14, <1>15, <1>16, <1>17, <1>18, <1>19
     DEF Request, Worker, Surroundings

\* Where the request has an answer, its verdict is one of three.
LEMMA VerdictOfAnswer ==
    ASSUME NEW a \in Answers(PublishCodes)
    PROVE  /\ a.class = "none" => Verdict(a) = "none"
           /\ a.class = "uncertain" => Verdict(a) = "uncertain"
           /\ a.class = "success" => Verdict(a) = "done"
           /\ Verdict(a) = "done" => Succeeded(a)
           /\ Verdict(a) = "denied" => DeniesEffect(a)
           /\ a.class # "none" => Verdict(a) \in {"done", "denied", "uncertain"}
BY DEF Answers, Verdict, Succeeded, DeniesEffect, ErrorClasses

LEMMA RequestRefinesContract ==
    ASSUME TypeOK, RecordsAgree, TypeOK', RecordsAgree',
           NEW r \in Requests, Request(r)
    PROVE  [Contract!ContractNext]_(Contract!contractVars)
<1>1. /\ \A s \in Requests \ {r} : op'[s] = op[s]
      /\ op[r].reached => op'[r].reached
      /\ \/ op'[r].answer.class = op[r].answer.class
         \/ op[r].answer.class = "none"
      /\ op'[r].reached /\ ~op[r].reached
           => /\ op[r].answer.class = "none"
              /\ op'[r].answer.class \in {"none", "uncertain"}
  BY RequestStep
<1>2. /\ op[r] \in PublishRecord /\ op'[r] \in PublishRecord
      /\ op[r].answer \in Answers(PublishCodes)
      /\ op'[r].answer \in Answers(PublishCodes)
      /\ op[r].reached \in BOOLEAN /\ op'[r].reached \in BOOLEAN
  BY DEF TypeOK, PublishRecord
<1>3. Agrees(op'[r])
  BY DEF RecordsAgree, Agrees
<1> DEFINE verdict == Verdict(op[r].answer)
           newVerdict == Verdict(op'[r].answer)
<1>4. /\ Reached[r] = op[r].reached
      /\ Verdicts[r] = verdict
      /\ Reached' = [Reached EXCEPT ![r] = op'[r].reached]
      /\ Verdicts' = [Verdicts EXCEPT ![r] = newVerdict]
      /\ Reached = [Reached EXCEPT ![r] = op[r].reached]
      /\ Verdicts = [Verdicts EXCEPT ![r] = verdict]
  BY <1>1 DEF Reached, Verdicts
<1>5. CASE op'[r].answer.class = op[r].answer.class /\ op'[r].reached = op[r].reached
  <2>1. newVerdict = verdict
    BY <1>5 DEF Verdict, Succeeded, DeniesEffect
  <2>2. Reached' = Reached /\ Verdicts' = Verdicts
    BY <1>4, <1>5, <2>1
  <2> QED
    BY <2>2 DEF Contract!contractVars
<1>6. CASE op'[r].answer.class # op[r].answer.class /\ op'[r].reached = op[r].reached
  <2>1. op[r].answer.class = "none" /\ op'[r].answer.class # "none"
    BY <1>1, <1>6
  <2>2. verdict = "none" /\ newVerdict \in {"done", "denied", "uncertain"}
    BY <1>2, <2>1, VerdictOfAnswer
  <2>3. /\ newVerdict = "done" => op'[r].reached
        /\ newVerdict = "denied" => ~op'[r].reached
    BY <1>2, <1>3, VerdictOfAnswer DEF Agrees
  <2> HIDE DEF verdict, newVerdict
  <2>4. Contract!End(r, newVerdict)
    BY <1>4, <1>6, <2>2, <2>3 DEF Contract!End
  <2> QED
    BY <2>2, <2>4 DEF Contract!ContractNext
<1>7. CASE op'[r].reached # op[r].reached
  <2>1. op'[r].reached /\ ~op[r].reached
    BY <1>1, <1>2, <1>7
  <2>2. verdict = "none"
    BY <1>1, <1>2, <2>1, VerdictOfAnswer
  <2>3. CASE op'[r].answer.class = "none"
    <3>1. newVerdict = "none"
      BY <1>2, <2>3, VerdictOfAnswer
    <3> HIDE DEF verdict, newVerdict
    <3>2. Verdicts' = Verdicts
      BY <1>4, <2>2, <3>1
    <3>3. Contract!Reach(r)
      BY <1>2, <1>4, <2>1, <2>2, <3>2 DEF Contract!Reach
    <3> QED
      BY <3>3 DEF Contract!ContractNext
  <2>4. CASE op'[r].answer.class = "uncertain"
    <3>1. newVerdict = "uncertain"
      BY <1>2, <2>4, VerdictOfAnswer
    <3> HIDE DEF verdict, newVerdict
    <3>2. Contract!ReachAndLose(r)
      BY <1>2, <1>4, <2>1, <2>2, <3>1 DEF Contract!ReachAndLose
    <3> QED
      BY <3>2 DEF Contract!ContractNext
  <2> QED
    BY <1>1, <2>1, <2>3, <2>4
<1> QED
  BY <1>5, <1>6, <1>7

\* Publish implements the contract: it publishes at most once, an answer that
\* denies the effect is true, and every other failure is uncertain.
THEOREM PublishImplementsContract == Spec => ContractHolds
<1>1. Init => Contract!ContractInit
  BY DEF Init, NewPublish, Undispatched, NoAnswer, Contract!ContractInit,
         Reached, Verdicts, Verdict, Succeeded, DeniesEffect, ErrorClasses
<1>2. TypeOK /\ RecordsAgree /\ TypeOK' /\ RecordsAgree' /\ [Next]_opVars
        => [Contract!ContractNext]_(Contract!contractVars)
  <2> SUFFICES ASSUME TypeOK, RecordsAgree, TypeOK', RecordsAgree', [Next]_opVars
               PROVE  [Contract!ContractNext]_(Contract!contractVars)
    OBVIOUS
  <2>1. CASE UNCHANGED op
    BY <2>1 DEF Contract!contractVars, Reached, Verdicts
  <2>2. ASSUME NEW r \in Requests, Request(r)
        PROVE  [Contract!ContractNext]_(Contract!contractVars)
    BY <2>2, RequestRefinesContract
  <2> QED
    BY <2>1, <2>2 DEF Next, ToggleCapability, opVars
<1> QED
  BY <1>1, <1>2, PublishTypeCorrect, PublishRecordsAgree, PTL
     DEF Spec, ContractHolds, Contract!ContractSpec

------------------------------------------------------------------------------
\* A request leaves "idle" for its first check only in a step of its own, and
\* only when the worker finds the flag set.  ToolsAdapterProofs uses it.
LEMMA AdmissionReadsFlag ==
    ASSUME TypeOK, RecordsAgree, NEW r \in Requests, NEW s \in Requests,
           Request(s), At(r, "idle"), op'[r].at = "validate"
    PROVE  enabled
<1>1. s = r
  BY RequestStep DEF At
<1>2. op[r] \in PublishRecord
  BY DEF TypeOK
<1>3. ~Worker(r)
  BY DEF At, Worker, CheckCancellation, requireBeforeDeadline, Validate,
         CancelBeforeLoad, DeadlineBeforeLoad, LoadMessage, CountSubscribers,
         WaitClock, WaitCancel, WaitDeadline, RecountSubscribers, FinalCancel,
         FinalDeadline, PublishMessage, Reply
<1>4. ~Discovery(r) /\ ~WaitElapses(r)
  BY DEF At, Discovery, WaitElapses, PeerComesOrGoes,
     SteadyClockPassesWait, PublisherExists
<1>5. ~Surroundings(r)
  BY <1>2 DEF TypeOK, At, Surroundings, Cancel, DeadlinePasses, ClockIsSetBack,
              PublishRecord
<1>6. Admit(r)
  BY <1>1, <1>3, <1>4, <1>5 DEF Request
<1>7. ASSUME ~enabled PROVE FALSE
  <2> DEFINE answer == failure(rejectedError("publish_capability_disabled"))
  <2>1. op'[r] = Ended(op[r], answer)
    BY <1>6, <1>7 DEF Admit, Throw, Return, TypeOK
  <2>2. answer \in Answers(PublishCodes)
    BY PublishFailures
  <2> HIDE DEF answer
  <2>3. op'[r].at = "done"
    BY <1>2, <2>1, <2>2, EndedTyped
  <2> QED
    BY <2>3
<1> QED
  BY <1>7
==============================================================================
