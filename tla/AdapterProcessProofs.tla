------------------------- MODULE AdapterProcessProofs -------------------------
(***************************************************************************)
(* Safety of the process of main.cpp, whatever the interleaving of its     *)
(* threads, callbacks and signals, and whenever the executor is scheduled. *)
(***************************************************************************)
EXTENDS AdapterProcess, TLAPS

\* What main knows at each of its labels: the threads and callbacks that run
\* beside it change nothing of this.
MainInv ==
    /\ main \in {"parse", "bootstrap", "init", "bind", "signals", "start"} =>
         runtime = "none" /\ thread = "none"
    /\ main = "spawn" => runtime = "running" /\ thread = "none"
    /\ main \in {"ready", "loop", "stop"} =>
         runtime = "running" /\ thread \in {"starting", "spinning"}
    /\ main \in {"cancel", "join"} => runtime = "stopped"
    /\ main \in {"shutdown", "return"} =>
         runtime = "stopped" /\ thread = "joined"
    /\ main = "catch" =>
         runtime \in {"none", "stopped"} /\ thread \in {"none", "joined"}
    /\ main = "exited" => (runtime = "running" => thread # "finished")

ContextInv == /\ main \in {"parse", "bootstrap", "init", "return"} => ~ok
              /\ main \in {"bind", "signals", "start", "spawn"} => ok
              /\ main \in {"ready", "loop", "stop"} => ok /\ (thread = "spinning" => spinning)
              /\ ~handlers => runtime = "none" /\ thread = "none"
              /\ main \in {"start", "spawn", "ready", "loop", "stop", "cancel",
                           "join", "shutdown", "return"} => handlers

\* A stop by the loss of the session has stored its reason before.
LossInv == /\ losing # "no" => session_lost /\ runtime # "none"
           /\ "session" \in stoppedBy => losing = "lost"
           /\ status = "0" => "session" \notin stoppedBy

EndInv == /\ main = "exited" <=> ~Alive
          /\ CleanExit

ProcessInv == TypeOK /\ MainInv /\ ContextInv /\ LossInv /\ EndInv

LEMMA InitProcess == Init => ProcessInv
  BY DEF Init, ProcessInv, TypeOK, MainLabels, MainInv, ContextInv, LossInv,
         EndInv, Alive, CleanExit

LEMMA NextProcess == ProcessInv /\ [Next]_processVars => ProcessInv'
<1> SUFFICES ASSUME ProcessInv, [Next]_processVars
             PROVE  ProcessInv'
  OBVIOUS
<1> USE DEF ProcessInv, TypeOK, MainLabels, MainInv, ContextInv, LossInv,
            EndInv, Alive, CleanExit, ros, flags, From, To, Unwind, Throw, Exit
<1>1. CASE ParseBootstrapPath
  BY <1>1 DEF ParseBootstrapPath
<1>2. CASE ReadBootstrap
  BY <1>2 DEF ReadBootstrap
<1>3. CASE InitRos
  BY <1>3 DEF InitRos
<1>4. CASE BindCapabilities
  BY <1>4 DEF BindCapabilities
<1>5. CASE InstallHandlers
  BY <1>5 DEF InstallHandlers
<1>6. CASE StartRuntime
  BY <1>6 DEF StartRuntime
<1>7. CASE SpawnExecutor
  BY <1>7 DEF SpawnExecutor
<1>7a. CASE ReportReady
  BY <1>7a DEF ReportReady
<1>8. CASE LeaveLoop
  BY <1>8 DEF LeaveLoop, LeaveLoopTo
<1>9. CASE StopRuntime
  BY <1>9 DEF StopRuntime
<1>10. CASE CancelExecutor
  <2>1. CASE To("join")
    BY <1>10, <2>1 DEF CancelExecutor, CancelStores
  <2>2. CASE Throw
    BY <1>10, <2>2 DEF CancelExecutor, CancelStores
  <2> QED
    BY <1>10, <2>1, <2>2 DEF CancelExecutor, CancelStores
<1>11. CASE JoinExecutor
  BY <1>11 DEF JoinExecutor
<1>12. CASE ShutdownRos
  BY <1>12 DEF ShutdownRos
<1>13. CASE ReturnStatus
  BY <1>13 DEF ReturnStatus, ReturnLost
<1>14. CASE CatchException
  <2>1. CASE Exit("1")
    BY <1>14, <2>1 DEF CatchException, CatchLeaving
  <2>2. CASE Exit("aborted")
    BY <1>14, <2>2 DEF CatchException, CatchLeaving
  <2> QED
    BY <1>14, <2>1, <2>2 DEF CatchException, CatchLeaving
<1>15. CASE BeginSpin
  BY <1>15 DEF BeginSpin
<1>16. CASE EndSpin
  BY <1>16 DEF EndSpin
<1>16a. CASE SpinThrows
  BY <1>16a DEF SpinThrows
<1>17. CASE StopRequestedCallback
  BY <1>17 DEF StopRequestedCallback, RequestStop
<1>18. CASE SessionLostCallback
  <2>1. CASE losing = "no"
    BY <1>18, <2>1 DEF SessionLostCallback, SessionLost, RequestStop
  <2>2. CASE losing # "no"
    BY <1>18, <2>2 DEF SessionLostCallback, SessionLost, RequestStop
  <2> QED
    BY <2>1, <2>2
<1>19. CASE Signal
  <2>1. CASE handlers
    BY ZenonT(40), <1>19, <2>1 DEF Signal, RequestStop
  <2>2. CASE ~handlers
    BY <1>19, <2>2 DEF Signal, RequestStop
  <2> QED
    BY <2>1, <2>2
<1>20. CASE UNCHANGED processVars
  <2>1. TypeOK' /\ MainInv' /\ LossInv'
    BY <1>20 DEF processVars
  <2>2. ContextInv'
    BY <1>20 DEF processVars
  <2>3. EndInv'
    BY <1>20 DEF processVars
  <2> QED
    BY <2>1, <2>2, <2>3
<1> QED
  BY <1>1, <1>2, <1>3, <1>4, <1>5, <1>6, <1>7, <1>7a, <1>8, <1>9, <1>10, <1>11, <1>12,
     <1>13, <1>14, <1>15, <1>16, <1>16a, <1>17, <1>18, <1>19, <1>20
  DEF Next, Main, ExecutorThread

THEOREM ProcessInvariant == Spec => []ProcessInv
  BY InitProcess, NextProcess, PTL DEF Spec

\* Every state of the process is one of those the code can be in.
THEOREM ProcessTypeCorrect == Spec => []TypeOK
<1>1. ProcessInv => TypeOK
  BY DEF ProcessInv
<1> QED
  BY <1>1, ProcessInvariant, PTL

\* A process that the loss of its session stopped never exits with 0, whatever
\* signal or order races with the two stores of the callback (main.cpp:102).
THEOREM ProcessReportsSessionLoss == Spec => []SessionLossIsReported
<1>1. ProcessInv => SessionLossIsReported
  BY DEF ProcessInv, LossInv, SessionLossIsReported
<1> QED
  BY <1>1, ProcessInvariant, PTL

\* No failure of the bootstrap, up to and including the start of the executor
\* thread, terminates the process (main.cpp:115).
THEOREM ProcessUnwindsSafely == Spec => BootstrapUnwindsSafely
<1>1. ProcessInv /\ [Next]_processVars =>
        [status' = "aborted" =>
           main \notin {"parse", "bootstrap", "init", "bind", "signals", "start",
                        "spawn"}]_processVars
  <2> SUFFICES ASSUME ProcessInv, Next,
                      main \in {"parse", "bootstrap", "init", "bind", "signals",
                                "start", "spawn"}
               PROVE  status' # "aborted"
    BY DEF processVars
  <2>1. thread = "none" /\ status = "running"
    BY DEF ProcessInv, MainInv, EndInv, Alive
  <2>2. CASE Main
    BY <2>1, <2>2
    DEF Main, ParseBootstrapPath, ReadBootstrap, InitRos, BindCapabilities,
        InstallHandlers, StartRuntime, SpawnExecutor, ReportReady, LeaveLoop,
        LeaveLoopTo, StopRuntime, CancelExecutor, CancelStores, JoinExecutor,
        ShutdownRos, ReturnStatus, ReturnLost, CatchException, CatchLeaving,
        From, To, Unwind, Throw, Exit
  <2>3. CASE ~Main
    BY <2>1, <2>3
    DEF Next, ExecutorThread, BeginSpin, EndSpin, SpinThrows,
        StopRequestedCallback, SessionLostCallback, SessionLost, Signal,
        RequestStop, Exit
  <2> QED
    BY <2>2, <2>3
<1> QED
  BY <1>1, ProcessInvariant, PTL DEF Spec, BootstrapUnwindsSafely

\* The executor does not return before the runtime has stopped (main.cpp:123).
THEOREM ProcessExecutorServes == Spec => []ExecutorServesRuntime
<1>1. ProcessInv => ExecutorServesRuntime
  <2> SUFFICES ASSUME ProcessInv, runtime = "running"
               PROVE  thread # "finished"
    BY DEF ExecutorServesRuntime
  <2>1. main \in MainLabels
    BY DEF ProcessInv, TypeOK
  <2>2. main \in {"spawn", "ready", "loop", "stop", "exited"}
    BY <2>1 DEF ProcessInv, MainInv, MainLabels
  <2> QED
    BY <2>2 DEF ProcessInv, MainInv
<1> QED
  BY <1>1, ProcessInvariant, PTL

\* Whichever way the process ends by itself, it leaves nothing up.
THEOREM ProcessExitsCleanly == Spec => []CleanExit
<1>1. ProcessInv => CleanExit
  BY DEF ProcessInv, EndInv
<1> QED
  BY <1>1, ProcessInvariant, PTL
==============================================================================
