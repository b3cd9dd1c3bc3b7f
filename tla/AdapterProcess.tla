--------------------------- MODULE AdapterProcess ----------------------------
(***************************************************************************)
(* The process of main.cpp: its bootstrap, the executor thread, the two    *)
(* flags its callbacks and signal handlers store, and its shutdown.        *)
(*                                                                         *)
(* Four threads of control meet here: main, the executor thread, a thread  *)
(* of the Adapter Runtime that runs callbacks, and signal delivery.        *)
(***************************************************************************)

CONSTANT PromptExecutor   \* is the executor thread always spinning by the
                          \* time main cancels the executor?

ASSUME PromptExecutorAssumption == PromptExecutor \in BOOLEAN

VARIABLES main,             \* the next thing main does
          ok,               \* rclcpp::ok()
          handlers,         \* SIGINT and SIGTERM reach handleSignal
          runtime,          \* the Adapter Runtime client
          thread,           \* executor_thread
          spinning,         \* the spinning flag of the executor
          stop_requested,
          session_lost,
          losing,           \* the session_lost callback
          stoppedBy,        \* who has stored stop_requested so far
          status            \* how the process ended

processVars == <<main, ok, handlers, runtime, thread, spinning,
                 stop_requested, session_lost, losing, stoppedBy, status>>

flags   == <<stop_requested, session_lost, losing, stoppedBy>>
ros     == <<ok, thread, spinning>>

MainLabels == {"parse", "bootstrap", "init", "bind", "signals", "start",
               "spawn", "ready", "loop", "stop", "cancel", "join", "shutdown",
               "return", "catch", "exited"}

Init == /\ main = "parse"
        /\ ok = FALSE
        /\ handlers = FALSE
        /\ runtime = "none"
        /\ thread = "none"
        /\ spinning = FALSE
        /\ stop_requested = FALSE
        /\ session_lost = FALSE
        /\ losing = "no"
        /\ stoppedBy = {}
        /\ status = "running"

Alive == status = "running"

Exit(how) == /\ main' = "exited"
             /\ status' = how

\* A step of main from one label to the next.
From(label) == Alive /\ main = label
To(label)   == main' = label /\ UNCHANGED status

\* An exception unwinds main to its catch clause: unless it destroys a thread
\* still joinable, t, on its way, which terminates the process.
Unwind(t) == IF t \in {"starting", "spinning", "finished"}
             THEN Exit("aborted")
             ELSE To("catch")

Throw == Unwind(thread)

------------------------------------------------------------------------------
(***************************************************************************)
(* The main thread.                                                        *)
(***************************************************************************)

\* --help exits; any other command line but the one expected throws.
ParseBootstrapPath ==
    /\ From("parse")
    /\ Exit("0") \/ To("bootstrap") \/ Throw
    /\ UNCHANGED <<ros, handlers, runtime, flags>>

\* The bootstrap file, the native context of its spec, the environment.
ReadBootstrap ==
    /\ From("bootstrap")
    /\ To("init") \/ Throw
    /\ UNCHANGED <<ros, handlers, runtime, flags>>

\* rclcpp::init may throw, and so may the node or the executor after it.
InitRos ==
    /\ From("init")
    /\ \/ Throw /\ UNCHANGED ok
       \/ (To("bind") \/ Throw) /\ ok' = TRUE
    /\ UNCHANGED <<thread, spinning, handlers, runtime, flags>>

BindCapabilities ==
    /\ From("bind")
    /\ To("signals") \/ Throw
    /\ UNCHANGED <<ros, handlers, runtime, flags>>

InstallHandlers ==
    /\ From("signals")
    /\ handlers' = TRUE
    /\ To("start")
    /\ UNCHANGED <<ros, runtime, flags>>

\* Mutant of StartRuntime: the executor thread is started before the session.
StartAfterExecutor ==
    /\ From("start")
    /\ thread' = "starting"
    /\ \/ To("loop") /\ runtime' = "running"
       \/ Unwind("starting") /\ runtime' = "stopped"
    /\ UNCHANGED <<ok, spinning, handlers, flags>>

\* Client::Start: the session is up, or main throws and ~Client runs.
StartRuntime ==
    /\ From("start")
    /\ \/ To("spawn") /\ runtime' = "running"
       \/ Throw /\ runtime' = "stopped"
    /\ UNCHANGED <<ros, handlers, flags>>

\* std::thread executor_thread([executor] { executor->spin(); })
SpawnExecutor ==
    /\ From("spawn")
    /\ \/ To("ready") /\ thread' = "starting" /\ UNCHANGED runtime
       \/ Throw /\ runtime' = "stopped" /\ UNCHANGED thread
    /\ UNCHANGED <<ok, spinning, handlers, flags>>

\* The line of the log that says the adapter is ready may throw.
ReportReady ==
    /\ From("ready")
    /\ To("loop") \/ Throw
    /\ UNCHANGED <<ros, handlers, runtime, flags>>

\* while (rclcpp::ok() && !stop_requested) sleep: leaving it is the step.
LeaveLoopTo(label) ==
    /\ From("loop")
    /\ ~ok \/ stop_requested
    /\ To(label)
    /\ UNCHANGED <<ros, handlers, runtime, flags>>

\* Mutant of LeaveLoop: the executor is cancelled while the runtime runs.
LeaveWithoutStop == LeaveLoopTo("cancel")

LeaveLoop == LeaveLoopTo("stop")

\* runtime.Stop(): no callback begins after it; one that has begun may go on.
StopRuntime ==
    /\ From("stop")
    /\ \/ To("cancel") /\ runtime' = "stopped"
       \/ Throw /\ UNCHANGED runtime
    /\ UNCHANGED <<ros, handlers, flags>>

\* executor->cancel() clears the flag spin() sets when it begins; it throws when
\* it cannot wake the executor after that.
CancelStores(flag) ==
    /\ From("cancel")
    /\ PromptExecutor => thread # "starting"
    /\ spinning' = flag
    /\ To("join") \/ Throw
    /\ UNCHANGED <<ok, thread, handlers, runtime, flags>>

\* Mutant of CancelExecutor: the executor is not told to return.
CancelForgotten == CancelStores(spinning)

CancelExecutor == CancelStores(FALSE)

JoinExecutor ==
    /\ From("join")
    /\ thread = "finished"
    /\ thread' = "joined"
    /\ To("shutdown")
    /\ UNCHANGED <<ok, spinning, handlers, runtime, flags>>

\* remove_node and rclcpp::shutdown.
ShutdownRos ==
    /\ From("shutdown")
    /\ \/ To("return") /\ ok' = FALSE
       \/ Throw /\ UNCHANGED ok
    /\ UNCHANGED <<thread, spinning, handlers, runtime, flags>>

\* return session_lost ? 2 : 0
ReturnLost(code) ==
    /\ From("return")
    /\ Exit(IF session_lost THEN code ELSE "0")
    /\ UNCHANGED <<ros, handlers, runtime, flags>>

\* Mutant of ReturnStatus: an exit code nobody knows.
ReturnAnotherStatus == ReturnLost("3")

ReturnStatus == ReturnLost("2")

\* catch (const std::exception &): shut ROS down if it is up, return 1. Nothing
\* catches an exception of that shutdown.
CatchLeaving(up) ==
    /\ From("catch")
    /\ \/ Exit("1") /\ ok' = up
       \/ ok /\ Exit("aborted") /\ UNCHANGED ok
    /\ UNCHANGED <<thread, spinning, handlers, runtime, flags>>

\* Mutant of CatchException: the ROS context is left up.
CatchWithoutShutdown == CatchLeaving(ok)

CatchException == CatchLeaving(FALSE)

Main == \/ ParseBootstrapPath
        \/ ReadBootstrap
        \/ InitRos
        \/ BindCapabilities
        \/ InstallHandlers
        \/ StartRuntime
        \/ SpawnExecutor
        \/ ReportReady
        \/ LeaveLoop
        \/ StopRuntime
        \/ CancelExecutor
        \/ JoinExecutor
        \/ ShutdownRos
        \/ ReturnStatus
        \/ CatchException

------------------------------------------------------------------------------
(***************************************************************************)
(* The executor thread.                                                    *)
(***************************************************************************)

\* spin() sets the flag, whatever was stored there before it began.
BeginSpin ==
    /\ Alive
    /\ thread = "starting"
    /\ thread' = "spinning"
    /\ spinning' = TRUE
    /\ UNCHANGED <<main, status, ok, handlers, runtime, flags>>

\* It returns when the flag is cleared or the context is shut down.
EndSpin ==
    /\ Alive
    /\ thread = "spinning"
    /\ ~spinning \/ ~ok
    /\ thread' = "finished"
    /\ spinning' = FALSE
    /\ UNCHANGED <<main, status, ok, handlers, runtime, flags>>

ExecutorThread == BeginSpin \/ EndSpin

\* Nothing catches an exception of spin(): it terminates the process.
SpinThrows ==
    /\ Alive
    /\ thread = "spinning"
    /\ Exit("aborted")
    /\ UNCHANGED <<ros, handlers, runtime, flags>>

------------------------------------------------------------------------------
(***************************************************************************)
(* Callbacks of the Adapter Runtime, and signals.                          *)
(***************************************************************************)
RequestStop(who) == /\ stop_requested' = TRUE
                    /\ stoppedBy' = stoppedBy \cup {who}

\* callbacks.stop_requested: the idle timeout, or an order to stop.
StopRequestedCallback ==
    /\ Alive
    /\ runtime = "running"
    /\ RequestStop("runtime")
    /\ UNCHANGED <<main, status, ros, handlers, runtime, session_lost, losing>>

\* callbacks.session_lost: two stores, one after the other, in the one order or
\* in the other.
SessionLost(reasonFirst) ==
    /\ Alive
    /\ \/ /\ runtime = "running" /\ losing = "no"
          /\ losing' = "stopping"
       \/ losing = "stopping" /\ losing' = "lost"
    /\ IF reasonFirst = (losing = "no")
       THEN session_lost' = TRUE /\ UNCHANGED <<stop_requested, stoppedBy>>
       ELSE RequestStop("session") /\ UNCHANGED session_lost
    /\ UNCHANGED <<main, status, ros, handlers, runtime>>

\* Mutant of SessionLostCallback: the stop is requested before its reason.
SessionLostStopFirst == SessionLost(FALSE)

SessionLostCallback == SessionLost(TRUE)

\* handleSignal; before it is installed, the signal kills the process.
Signal ==
    /\ Alive
    /\ \/ /\ handlers
          /\ RequestStop("signal")
          /\ UNCHANGED <<main, status>>
       \/ /\ ~handlers
          /\ Exit("killed")
          /\ UNCHANGED <<stop_requested, stoppedBy>>
    /\ UNCHANGED <<ros, handlers, runtime, session_lost, losing>>

Next == \/ Main
        \/ ExecutorThread
        \/ SpinThrows
        \/ StopRequestedCallback
        \/ SessionLostCallback
        \/ Signal

Spec == Init /\ [][Next]_processVars

\* The operating system runs the two threads of the process.
FairSpec == Spec /\ WF_processVars(Main) /\ WF_processVars(ExecutorThread)

------------------------------------------------------------------------------
(***************************************************************************)
(* Properties.                                                             *)
(***************************************************************************)
TypeOK == /\ main \in MainLabels
          /\ ok \in BOOLEAN
          /\ handlers \in BOOLEAN
          /\ runtime \in {"none", "running", "stopped"}
          /\ thread \in {"none", "starting", "spinning", "finished", "joined"}
          /\ spinning \in BOOLEAN
          /\ stop_requested \in BOOLEAN
          /\ session_lost \in BOOLEAN
          /\ losing \in {"no", "stopping", "lost"}
          /\ stoppedBy \in SUBSET {"runtime", "session", "signal"}
          /\ status \in {"running", "0", "1", "2", "killed", "aborted"}

\* A process the loss of its session stopped never exits with 0, as if it had
\* been told to, even when a signal or the runtime asks it to stop as well.
SessionLossIsReported == "session" \in stoppedBy => status # "0"

\* "Bootstrap failures therefore cannot leave a joinable executor thread during
\* stack unwinding" (main.cpp:115): no failure up to and including the start of
\* that thread terminates the process, which goes through its catch clause. The
\* claim ends there: an exception of lines 118, 123 and 124 does terminate it.
BootstrapUnwindsSafely ==
    [][status' = "aborted" =>
         main \notin {"parse", "bootstrap", "init", "bind", "signals", "start",
                      "spawn"}]_processVars

\* The executor serves the clients of running operations until the runtime, and
\* with it every operation, has stopped.
ExecutorServesRuntime == runtime = "running" => thread # "finished"

\* A process that returned from main leaves neither a ROS context nor a thread
\* nor a session behind, whether it stopped or failed.
CleanExit == status \in {"0", "1", "2"} =>
                /\ ~ok
                /\ thread \in {"none", "joined"}
                /\ runtime # "running"

\* A process that has been asked to stop ends.
StopLeadsToExit == stop_requested ~> ~Alive
==============================================================================
