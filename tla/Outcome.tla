------------------------------- MODULE Outcome -------------------------------
(***************************************************************************)
(* How an operation of the adapter answers the Adapter Runtime.            *)
(*                                                                         *)
(* The C++ code throws a ToolsError from one of the seven helpers of       *)
(* error.hpp, or lets some other std::exception escape, and the catch      *)
(* clause of the operation turns it into the answer (ToolsAdapter::failure)*)
(* An answer is a record of an error class and a code; the wording of the  *)
(* message is left out.                                                    *)
(***************************************************************************)

ErrorClasses == {"permanent", "transient", "uncertain", "cancelled",
                 "deadline", "rejected", "resource-exhausted"}

\* The helpers of error.hpp: each throws a ToolsError of its class.
permanentError(code)         == [class |-> "permanent", code |-> code]
transientError(code)         == [class |-> "transient", code |-> code]
uncertainError(code)         == [class |-> "uncertain", code |-> code]
cancelledError(code)         == [class |-> "cancelled", code |-> code]
deadlineError(code)          == [class |-> "deadline", code |-> code]
rejectedError(code)          == [class |-> "rejected", code |-> code]
resourceExhaustedError(code) == [class |-> "resource-exhausted", code |-> code]

\* Any std::exception that is not a ToolsError: thrown by rclcpp, jsoncpp or
\* the standard library under the operation.
UntypedException == [class |-> "std::exception", code |-> "what"]

\* Mutant of failure: an exception without a type is passed on as it is.
failureUntypedEscapes(exception) == exception

\* ToolsAdapter::failure: an exception without a type is reported transient.
failure(exception) ==
    IF exception.class \in ErrorClasses
    THEN exception
    ELSE [class |-> "transient", code |-> "internal_error"]

\* OperationResult::Success, and the operation that has not answered yet.
Success  == [class |-> "success", code |-> "completed"]
NoAnswer == [class |-> "none", code |-> "none"]

\* The answers an operation with these codes of its own can give.
Answers(codes) ==
    [class : ErrorClasses \cup {"success", "none"},
     code  : codes \cup {"internal_error", "completed", "none"}]

Succeeded(answer) == answer.class = "success"

\* The answer tells the caller that nothing happened on the ROS graph: every
\* failure but an uncertain one, which promises nothing.
DeniesEffect(answer) == answer.class \in ErrorClasses \ {"uncertain"}

(***************************************************************************)
(* What the Adapter Runtime makes of an answer: one of three verdicts.     *)
(***************************************************************************)
Verdict(answer) ==
    IF Succeeded(answer) THEN "done"
    ELSE IF DeniesEffect(answer) THEN "denied"
    ELSE IF answer.class = "uncertain" THEN "uncertain"
    ELSE "none"
==============================================================================
