-------------------------- MODULE ServiceOperation ---------------------------
(***************************************************************************)
(* ToolsAdapter::CallService: one generic ROS 2 service call per request.  *)
(*                                                                         *)
(* The worker validates the request, waits for the service, sends the      *)
(* request and polls the future of the response.  The executor thread      *)
(* fulfils that future when the response arrives, the service comes and    *)
(* goes, the runtime cancels and the clocks move, all between any two      *)
(* points of the worker.                                                   *)
(***************************************************************************)
EXTENDS Operation

\* The ROS side can fail in two ways the operation has no answer of its own
\* for: async_send_request throws, or the response has a field the codec cannot
\* project to JSON.  Runs choose which of them happen.
CONSTANT RosFaults

ASSUME RosFaultsAssumption ==
    RosFaults \subseteq {"sendThrows", "unprojectableResponse"}

ServiceLabels == {"idle", "validate", "load", "ready", "waitCancel",
                  "waitDeadline", "waitClock", "finalCancel", "finalDeadline",
                  "send", "poll", "pollCancel", "pollClock", "pollDeadline",
                  "get", "project", "reply", "done"}

\* What the future can hold: nothing yet, no object, a response whose JSON is
\* too large, one the codec cannot project, or one it can answer with.
Arrivals == {"null", "tooLarge", "good"}
              \cup IF "unprojectableResponse" \in RosFaults
                   THEN {"unprojectable"} ELSE {}

\* The codes messageToJson refuses a response with.
ProjectionErrors == {"unsupported_message_field", "message_field_out_of_range",
                     "ros_type_support_invalid"}

\* The codes of the answers of CallService.
ServiceCodes == {"service_capability_disabled", "invalid_request",
                 "request_too_large", "service_call_cancelled",
                 "service_wait_deadline_elapsed", "service_unavailable",
                 "service_call_deadline_elapsed", "invalid_message",
                 "service_outcome_unknown_after_cancel",
                 "service_outcome_unknown_after_timeout",
                 "service_response_missing", "operation_result_too_large"}
                    \cup ProjectionErrors

\* The fields of a service request.
ServiceRecord == [at        : ServiceLabels,
                  cancelled : BOOLEAN,
                  expired   : BOOLEAN,
                  setBack   : BOOLEAN,
                  waitOver  : BOOLEAN,    \* the same of call_until, once sent
                  peer      : BOOLEAN,    \* service_is_ready() now
                  pending   : BOOLEAN,    \* the client awaits a response
                  response  : Arrivals \cup {"none"},
                  reached   : BOOLEAN,    \* the request was handed to ROS
                  answer    : Answers(ServiceCodes)]

NewCall == [at        |-> Undispatched.at,
            cancelled |-> Undispatched.cancelled,
            expired   |-> Undispatched.expired,
            setBack   |-> Undispatched.setBack,
            waitOver  |-> Undispatched.waitOver,
            peer      |-> Undispatched.peer,
            pending   |-> FALSE,
            response  |-> "none",
            reached   |-> Undispatched.reached,
            answer    |-> Undispatched.answer]

Init == /\ op = [r \in Requests |-> NewCall]
        /\ enabled = FALSE

------------------------------------------------------------------------------
(***************************************************************************)
(* The worker.                                                             *)
(***************************************************************************)

\* The runtime calls CallService: the capability must be active at this read.
Admit(r) ==
    /\ At(r, "idle")
    /\ \/ ~enabled /\ Throw(r, rejectedError("service_capability_disabled"))
       \/ enabled /\ Goto(r, "validate")
    /\ UNCHANGED enabled

\* Context, subject, payload and fields, as for Publish.
Validate(r) ==
    /\ At(r, "validate")
    /\ \/ \E e \in {permanentError("invalid_request"),
                    resourceExhaustedError("request_too_large"),
                    UntypedException} : Throw(r, e)
       \/ Goto(r, "load")
    /\ UNCHANGED enabled

\* Type support, the request from its JSON, the client and wait_until.  A wait
\* of 0 ms is one whose steady clock is over at the first look.
LoadRequest(r) ==
    /\ At(r, "load")
    /\ \/ \E e \in {permanentError("invalid_message"), UntypedException} :
            Throw(r, e)
       \/ Goto(r, "ready")
    /\ UNCHANGED enabled

\* while (!client->service_is_ready()): the query of the ROS graph may throw.
CheckReady(r) ==
    /\ At(r, "ready")
    /\ \/ Throw(r, UntypedException)
       \/ Goto(r, IF op[r].peer THEN "finalCancel" ELSE "waitCancel")
    /\ UNCHANGED enabled

WaitCancel(r) ==
    CheckCancellation(r, "waitCancel", "waitDeadline",
                      "service_call_cancelled")

WaitDeadline(r) ==
    requireBeforeDeadline(r, "waitDeadline", "waitClock",
                          "service_wait_deadline_elapsed")

\* The steady clock ends the wait; wait_for_service leads back to the loop, or
\* throws.
WaitClock(r) ==
    /\ At(r, "waitClock")
    /\ \/ op[r].waitOver /\ Throw(r, transientError("service_unavailable"))
       \/ ~op[r].waitOver /\ Throw(r, UntypedException)
       \/ ~op[r].waitOver /\ Goto(r, "ready")
    /\ UNCHANGED enabled

\* Mutants of FinalCancel and FinalDeadline: no check after the wait.
FinalCancelSkipped(r) ==
    At(r, "finalCancel") /\ Goto(r, "finalDeadline") /\ UNCHANGED enabled
FinalDeadlineSkipped(r) ==
    At(r, "finalDeadline") /\ Goto(r, "send") /\ UNCHANGED enabled

FinalCancel(r) ==
    CheckCancellation(r, "finalCancel", "finalDeadline",
                      "service_call_cancelled")

FinalDeadline(r) ==
    requireBeforeDeadline(r, "finalDeadline", "send",
                          "service_call_deadline_elapsed")

\* What an async_send_request that threw leaves behind: no try surrounds it, so
\* its exception is untyped, whether the request is out or not.
SendLost(record, out) ==
    Ended([record EXCEPT !.reached = out], failure(UntypedException))

\* async_send_request hands the request to ROS and registers it as pending;
\* call_until takes the place of wait_until.
SendRequest(r) ==
    /\ At(r, "send")
    /\ \/ op' = [op EXCEPT ![r].at = "poll", ![r].reached = TRUE,
                           ![r].pending = TRUE, ![r].waitOver = FALSE]
       \/ /\ "sendThrows" \in RosFaults
          /\ \E out \in BOOLEAN : op' = [op EXCEPT ![r] = SendLost(@, out)]
    /\ UNCHANGED enabled

\* Mutant of PollResponse: the token is tested before the future.
PollTokenFirst(r) ==
    /\ At(r, "poll")
    /\ Goto(r, IF op[r].response # "none" /\ ~op[r].cancelled
               THEN "get" ELSE "pollCancel")
    /\ UNCHANGED enabled

\* while (future.wait_for(20ms) != ready)
PollResponse(r) ==
    /\ At(r, "poll")
    /\ Goto(r, IF op[r].response # "none" THEN "get" ELSE "pollCancel")
    /\ UNCHANGED enabled

\* Mutants of GivenUp: the outcome is called transient, and the pending request
\* is not removed.
GivenUpTransient(record, code) ==
    Ended([record EXCEPT !.pending = FALSE], failure(transientError(code)))
GivenUpPending(record, code) == Ended(record, failure(uncertainError(code)))

\* remove_pending_request, then the outcome nobody can know.
GivenUp(record, code) ==
    Ended([record EXCEPT !.pending = FALSE], failure(uncertainError(code)))

GiveUp(r, code) == op' = [op EXCEPT ![r] = GivenUp(@, code)]

\* Mutants of PollCancel and PollClock: the loop looks at one of them only.
PollCancelIgnored(r) ==
    At(r, "pollCancel") /\ Goto(r, "pollClock") /\ UNCHANGED enabled
PollClockIgnored(r) ==
    At(r, "pollClock") /\ Goto(r, "pollDeadline") /\ UNCHANGED enabled

PollCancel(r) ==
    /\ At(r, "pollCancel")
    /\ \/ op[r].cancelled /\ GiveUp(r, "service_outcome_unknown_after_cancel")
       \/ ~op[r].cancelled /\ Goto(r, "pollClock")
    /\ UNCHANGED enabled

\* The call times out on either clock, read one after the other.
PollClock(r) ==
    /\ At(r, "pollClock")
    /\ \/ op[r].waitOver /\ GiveUp(r, "service_outcome_unknown_after_timeout")
       \/ ~op[r].waitOver /\ Goto(r, "pollDeadline")
    /\ UNCHANGED enabled

PollDeadline(r) ==
    /\ At(r, "pollDeadline")
    /\ \/ op[r].expired /\ GiveUp(r, "service_outcome_unknown_after_timeout")
       \/ ~op[r].expired /\ Goto(r, "poll")
    /\ UNCHANGED enabled

\* future.get(): a null response is an uncertain outcome.
GetResponse(r) ==
    /\ At(r, "get")
    /\ \/ /\ op[r].response = "null"
          /\ Throw(r, uncertainError("service_response_missing"))
       \/ /\ op[r].response # "null"
          /\ Goto(r, "project")
    /\ UNCHANGED enabled

\* messageToJson: permanent when a response field cannot be projected.
ProjectResponse(r) ==
    /\ At(r, "project")
    /\ \/ /\ op[r].response = "unprojectable"
          /\ \E code \in ProjectionErrors : Throw(r, permanentError(code))
       \/ /\ op[r].response # "unprojectable"
          /\ Goto(r, "reply")
    /\ UNCHANGED enabled

\* Mutant of Reply: a response too large to return is a failure of the caller.
ReplyDenied(r) ==
    /\ At(r, "reply")
    /\ \/ /\ op[r].response = "tooLarge"
          /\ Throw(r, resourceExhaustedError("operation_result_too_large"))
       \/ /\ op[r].response # "tooLarge"
          /\ Return(r, Success)
    /\ UNCHANGED enabled

\* success(): the answer must fit the response limit of the contract.
Reply(r) ==
    /\ At(r, "reply")
    /\ \/ /\ op[r].response = "tooLarge"
          /\ Throw(r, uncertainError("operation_result_too_large"))
       \/ /\ op[r].response # "tooLarge"
          /\ Return(r, Success)
    /\ UNCHANGED enabled

Worker(r) == \/ Validate(r)
             \/ LoadRequest(r)
             \/ CheckReady(r)
             \/ WaitCancel(r)
             \/ WaitDeadline(r)
             \/ WaitClock(r)
             \/ FinalCancel(r)
             \/ FinalDeadline(r)
             \/ SendRequest(r)
             \/ PollResponse(r)
             \/ PollCancel(r)
             \/ PollClock(r)
             \/ PollDeadline(r)
             \/ GetResponse(r)
             \/ ProjectResponse(r)
             \/ Reply(r)

------------------------------------------------------------------------------
(***************************************************************************)
(* The ROS graph, the executor thread and the steady clock.                *)
(***************************************************************************)
Waiting(r) == op[r].at \in {"ready", "waitCancel", "waitDeadline", "waitClock",
                            "finalCancel", "finalDeadline", "send"}
Polling    == {"poll", "pollCancel", "pollClock", "pollDeadline"}

\* The service appears on the graph or leaves it.
Discovery(r) == PeerComesOrGoes(r, Waiting(r))

\* An executor thread takes the response of a pending request.  A response to a
\* request the client no longer awaits is dropped.
Fulfilled(record, response) ==
    [record EXCEPT !.pending = FALSE, !.response = response]

ResponseArrives(r) == /\ op[r].pending
                      /\ \E response \in Arrivals :
                           op' = [op EXCEPT ![r] = Fulfilled(@, response)]
                      /\ UNCHANGED enabled

\* The steady clock reaches wait_until, and call_until while the worker polls.
WaitElapses(r) ==
    SteadyClockPassesWait(r, Waiting(r) \/ op[r].at \in Polling)

Request(r) == \/ Admit(r)
              \/ Worker(r)
              \/ Discovery(r)
              \/ ResponseArrives(r)
              \/ WaitElapses(r)
              \/ Surroundings(r)

Next == ToggleCapability \/ \E r \in Requests : Request(r)

Spec == Init /\ [][Next]_opVars

\* A dispatch worker that runs a request keeps running; nothing is assumed of
\* the clocks, the service, the executor or the runtime.
WorkersRun == \A r \in Requests : WF_opVars(Worker(r))

\* The steady clock advances: an assumption of Terminates, not of the system.
SteadyClockAdvances == \A r \in Requests : WF_opVars(WaitElapses(r))

FairSpec == Spec /\ WorkersRun

------------------------------------------------------------------------------
(***************************************************************************)
(* Properties.                                                             *)
(***************************************************************************)

\* Every field keeps its type; an answer is one of the classes of the contract.
TypeOK == /\ op \in [Requests -> ServiceRecord]
          /\ enabled \in BOOLEAN

BeforeFinalCancel == {"idle", "validate", "load", "ready", "waitCancel",
                      "waitDeadline", "waitClock", "finalCancel"}

\* A request cancelled before the last cancellation check is never sent to the
\* service, however the service comes and goes (lines 610 and 622).
CancelledInTimeIsNotSent ==
    \A r \in Requests :
        [](op[r].cancelled /\ op[r].at \in BeforeFinalCancel
           => [](~op[r].reached))

\* The same of a deadline that passes before the last deadline check, unless the
\* system clock is set back over it (lines 614 and 626).
ExpiredInTimeIsNotSent ==
    \A r \in Requests :
        [](op[r].expired /\ op[r].at \in BeforeFinalCancel \cup {"finalDeadline"}
           => [](op[r].reached => op[r].setBack))

\* A response that is in when the worker polls is used: a cancellation, a
\* timeout or a deadline that came with it no longer makes the outcome unknown
\* (the future is tested before the token and the clocks, line 631).
Unknown == {"service_outcome_unknown_after_cancel",
            "service_outcome_unknown_after_timeout"}

ArrivedResponseWins ==
    \A r \in Requests :
        [](At(r, "poll") /\ op[r].response # "none"
           => [](op[r].answer.code \notin Unknown))

\* An answered request is never matched with a response that comes later: the
\* pending request is removed on every path that gives up (lines 634 and 640).
LateResponseIsDropped ==
    [][\A r \in Requests :
           At(r, "done") => op'[r].response = op[r].response]_opVars

\* CallService implements the contract of an operation.
ContractHolds == Contract!ContractSpec

KnownLapse(record) ==
    \/ /\ record.response = "none"
       /\ ~record.pending
       /\ record.answer = failure(UntypedException)
    \/ /\ record.response = "unprojectable"
       /\ \E code \in ProjectionErrors :
            record.answer = failure(permanentError(code))

\* What the contract of CallService lacks when the ROS side has faults is just
\* this: a call that was sent is denied only if async_send_request itself threw,
\* so that no response was ever awaited, or if a response is in and the codec
\* could not project it. A cancellation, a timeout, a null or a too large
\* response never denies it (lines 633 to 649 and 673).
OnlyKnownLapses ==
    \A r \in Requests :
        op[r].reached /\ DeniesEffect(op[r].answer) => KnownLapse(op[r])

\* "Calls that may have reached ROS but lose their response terminate as
\* uncertain" (README.md:15): no failure but an uncertain one once sent.
SentCallsAreNotDenied ==
    \A r \in Requests : op[r].reached => ~DeniesEffect(op[r].answer)

\* If the steady clock advances, every call a worker has taken is answered: that
\* clock alone bounds the waits for the service and for its response.
Terminates ==
    SteadyClockAdvances => \A r \in Requests : Running(r) ~> At(r, "done")

\* A cancelled call is answered even if no clock ever advances, before the
\* request is sent and after.
CancellationEndsOperation ==
    \A r \in Requests : Running(r) /\ op[r].cancelled ~> At(r, "done")
==============================================================================
