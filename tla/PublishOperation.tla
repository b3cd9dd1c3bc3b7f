-------------------------- MODULE PublishOperation ---------------------------
(***************************************************************************)
(* ToolsAdapter::Publish: one generic ROS 2 publication per request.       *)
(*                                                                         *)
(* The worker validates the request, builds the message, creates a         *)
(* publisher, waits for a subscriber to match, publishes and answers.  The *)
(* ROS graph matches and unmatches subscribers with the publisher, the     *)
(* runtime cancels the request, and the clocks move, all between any two   *)
(* points of the worker.                                                   *)
(***************************************************************************)
EXTENDS Operation

PublishLabels == {"idle", "validate", "cancelBeforeLoad", "deadlineBeforeLoad",
                  "load", "count", "waitClock", "waitCancel", "waitDeadline",
                  "recount", "finalCancel", "finalDeadline", "publish",
                  "reply", "done"}

\* The codes of the answers of Publish; the many codes of a refused request or
\* message stand as one each.
PublishCodes == {"publish_capability_disabled", "invalid_request",
                 "request_too_large", "publish_cancelled",
                 "publish_deadline_elapsed", "invalid_message",
                 "subscriber_unavailable", "publish_outcome_unknown"}

\* The fields of a publish request.
PublishRecord == [at        : PublishLabels,
                  cancelled : BOOLEAN,
                  expired   : BOOLEAN,
                  setBack   : BOOLEAN,
                  waits     : BOOLEAN,    \* waitForSubscribersMs > 0
                  waitOver  : BOOLEAN,
                  peer      : BOOLEAN,    \* get_subscription_count() > 0 now
                  seen      : BOOLEAN,    \* subscriber_count > 0
                  reached   : BOOLEAN,    \* the message was handed to ROS
                  answer    : Answers(PublishCodes)]

NewPublish == [at        |-> Undispatched.at,
               cancelled |-> Undispatched.cancelled,
               expired   |-> Undispatched.expired,
               setBack   |-> Undispatched.setBack,
               waits     |-> FALSE,
               waitOver  |-> Undispatched.waitOver,
               peer      |-> Undispatched.peer,
               seen      |-> FALSE,
               reached   |-> Undispatched.reached,
               answer    |-> Undispatched.answer]

Init == /\ op = [r \in Requests |-> NewPublish]
        /\ enabled = FALSE

------------------------------------------------------------------------------
(***************************************************************************)
(* The worker.                                                             *)
(***************************************************************************)

\* The runtime calls Publish: the capability must be active at this read.
Admit(r) ==
    /\ At(r, "idle")
    /\ \/ ~enabled /\ Throw(r, rejectedError("publish_capability_disabled"))
       \/ enabled /\ Goto(r, "validate")
    /\ UNCHANGED enabled

\* Context, subject, payload and fields: any of them may be wrong, the payload
\* too large, or nested deeper than the JSON reader accepts.
Validate(r) ==
    /\ At(r, "validate")
    /\ \/ \E e \in {permanentError("invalid_request"),
                    resourceExhaustedError("request_too_large"),
                    UntypedException} : Throw(r, e)
       \/ \E wait \in BOOLEAN :
            op' = [op EXCEPT ![r].at = "cancelBeforeLoad", ![r].waits = wait]
    /\ UNCHANGED enabled

CancelBeforeLoad(r) ==
    CheckCancellation(r, "cancelBeforeLoad", "deadlineBeforeLoad",
                      "publish_cancelled")

DeadlineBeforeLoad(r) ==
    requireBeforeDeadline(r, "deadlineBeforeLoad", "load",
                          "publish_deadline_elapsed")

\* Type support, the message from its JSON, its serialization, the publisher
\* and wait_until; a wait of 0 ms is over at once.
LoadMessage(r) ==
    /\ At(r, "load")
    /\ \/ \E e \in {permanentError("invalid_message"), UntypedException} :
            Throw(r, e)
       \/ op' = [op EXCEPT ![r].at = "count",
                           ![r].waitOver = ~op[r].waits]
    /\ UNCHANGED enabled

\* while (get_subscription_count() == 0 && ...: the count may throw.
CountSubscribers(r) ==
    /\ At(r, "count")
    /\ \/ Throw(r, UntypedException)
       \/ Goto(r, IF op[r].peer THEN "recount" ELSE "waitClock")
    /\ UNCHANGED enabled

\* Mutant of WaitClock: the loop never looks at the steady clock.
WaitClockIgnored(r) ==
    At(r, "waitClock") /\ Goto(r, "waitCancel") /\ UNCHANGED enabled

\* ... steady_clock::now() < wait_until)
WaitClock(r) ==
    /\ At(r, "waitClock")
    /\ Goto(r, IF op[r].waitOver THEN "recount" ELSE "waitCancel")
    /\ UNCHANGED enabled

\* Mutant of WaitCancel: the loop never looks at the token.
WaitCancelIgnored(r) ==
    At(r, "waitCancel") /\ Goto(r, "waitDeadline") /\ UNCHANGED enabled

WaitCancel(r) ==
    CheckCancellation(r, "waitCancel", "waitDeadline", "publish_cancelled")

\* The deadline check of the loop body; the sleep leads back to the count.
WaitDeadline(r) ==
    requireBeforeDeadline(r, "waitDeadline", "count",
                          "publish_deadline_elapsed")

\* Mutant of RecountSubscribers: the end of the loop is taken for a match.
RecountUnchecked(r) ==
    /\ At(r, "recount")
    /\ op' = [op EXCEPT ![r].at = "finalCancel", ![r].seen = op[r].peer]
    /\ UNCHANGED enabled

\* The count the answer reports is read again after the loop.
RecountSubscribers(r) ==
    /\ At(r, "recount")
    /\ \/ Throw(r, UntypedException)
       \/ /\ op[r].waits /\ ~op[r].peer
          /\ Throw(r, transientError("subscriber_unavailable"))
       \/ /\ op[r].waits => op[r].peer
          /\ op' = [op EXCEPT ![r].at = "finalCancel",
                              ![r].seen = op[r].peer]
    /\ UNCHANGED enabled

\* Mutants of FinalCancel and FinalDeadline: no check after the wait.
FinalCancelSkipped(r) ==
    At(r, "finalCancel") /\ Goto(r, "finalDeadline") /\ UNCHANGED enabled
FinalDeadlineSkipped(r) ==
    At(r, "finalDeadline") /\ Goto(r, "publish") /\ UNCHANGED enabled

FinalCancel(r) ==
    CheckCancellation(r, "finalCancel", "finalDeadline", "publish_cancelled")

FinalDeadline(r) ==
    requireBeforeDeadline(r, "finalDeadline", "publish",
                          "publish_deadline_elapsed")

\* Mutant of PublishMessage: no try around publish, its exception is untyped.
PublishUnguarded(r) ==
    /\ At(r, "publish")
    /\ \/ op' = [op EXCEPT ![r].at = "reply", ![r].reached = TRUE]
       \/ \E out \in BOOLEAN :
            op' = [op EXCEPT ![r] = Ended([@ EXCEPT !.reached = out],
                                          failure(UntypedException))]
    /\ UNCHANGED enabled

\* What a publish that threw leaves behind: the message may be out or not.
Lost(record, out) ==
    Ended([record EXCEPT !.reached = out],
          failure(uncertainError("publish_outcome_unknown")))

\* publisher->publish
PublishMessage(r) ==
    /\ At(r, "publish")
    /\ \/ op' = [op EXCEPT ![r].at = "reply", ![r].reached = TRUE]
       \/ \E out \in BOOLEAN : op' = [op EXCEPT ![r] = Lost(@, out)]
    /\ UNCHANGED enabled

\* The answer of a publication is far below the response limit.
Reply(r) ==
    /\ At(r, "reply")
    /\ Return(r, Success)
    /\ UNCHANGED enabled

Worker(r) == \/ Validate(r)
             \/ CancelBeforeLoad(r)
             \/ DeadlineBeforeLoad(r)
             \/ LoadMessage(r)
             \/ CountSubscribers(r)
             \/ WaitClock(r)
             \/ WaitCancel(r)
             \/ WaitDeadline(r)
             \/ RecountSubscribers(r)
             \/ FinalCancel(r)
             \/ FinalDeadline(r)
             \/ PublishMessage(r)
             \/ Reply(r)

------------------------------------------------------------------------------
(***************************************************************************)
(* The ROS graph: discovery matches and unmatches the publisher.           *)
(***************************************************************************)
PublisherExists(r) ==
    op[r].at \in {"count", "waitClock", "waitCancel", "waitDeadline",
                  "recount", "finalCancel", "finalDeadline", "publish",
                  "reply"}

Discovery(r) == PeerComesOrGoes(r, PublisherExists(r))

WaitElapses(r) == SteadyClockPassesWait(r, PublisherExists(r))

Request(r) == \/ Admit(r)
              \/ Worker(r)
              \/ Discovery(r)
              \/ WaitElapses(r)
              \/ Surroundings(r)

Next == ToggleCapability \/ \E r \in Requests : Request(r)

Spec == Init /\ [][Next]_opVars

\* A dispatch worker that runs a request keeps running; nothing is assumed of
\* the clocks, the ROS graph or the runtime.
WorkersRun == \A r \in Requests : WF_opVars(Worker(r))

\* The steady clock advances: an assumption of Terminates, not of the system.
SteadyClockAdvances == \A r \in Requests : WF_opVars(WaitElapses(r))

FairSpec == Spec /\ WorkersRun

------------------------------------------------------------------------------
(***************************************************************************)
(* Properties.                                                             *)
(***************************************************************************)

\* Every field keeps its type; an answer is one of the classes of the contract.
TypeOK == /\ op \in [Requests -> PublishRecord]
          /\ enabled \in BOOLEAN

\* A request that asked to wait for subscribers (waitForSubscribersMs > 0) is
\* published only after a subscriber was counted at the end of the wait, and
\* reports that count: RecountSubscribers after the loop, not the loop's own.
SubscriberPromise ==
    \A r \in Requests : op[r].waits /\ op[r].reached => op[r].seen

\* The worker has not made its last cancellation check yet.
BeforeFinalCancel == PublishLabels \ {"finalDeadline", "publish", "reply", "done"}

\* A request cancelled before the last cancellation check is never published,
\* whatever the graph and the clocks do meanwhile (lines 504, 532 and 546).
CancelledInTimeIsNotPublished ==
    \A r \in Requests :
        [](op[r].cancelled /\ op[r].at \in BeforeFinalCancel
           => [](~op[r].reached))

\* The same of a deadline that passes before the last deadline check, unless the
\* system clock is set back over it (lines 508, 536 and 550).
ExpiredInTimeIsNotPublished ==
    \A r \in Requests :
        [](op[r].expired /\ op[r].at \in BeforeFinalCancel \cup {"finalDeadline"}
           => [](op[r].reached => op[r].setBack))

\* Publish implements the contract of an operation: one effect at most, and a
\* verdict that never lies about it.
ContractHolds == Contract!ContractSpec

\* If the steady clock advances, every request a worker has taken is answered:
\* no absent subscriber, missing deadline or wall clock that runs back and
\* forth keeps the worker, for the steady clock alone bounds the wait.
Terminates ==
    SteadyClockAdvances => \A r \in Requests : Running(r) ~> At(r, "done")

\* A cancelled request is answered even if no clock ever advances: the wait of
\* up to kMaximumWaitMilliseconds notices the token.
CancellationEndsOperation ==
    \A r \in Requests : Running(r) /\ op[r].cancelled ~> At(r, "done")

\* "no ROS2 subscriber matched before the wait timeout" (tools_adapter.cpp:544):
\* the request that gets this answer has waited for its whole timeout.
GivesUpOnlyAfterWait ==
    \A r \in Requests :
        op[r].answer.code = "subscriber_unavailable" => op[r].waitOver
==============================================================================
