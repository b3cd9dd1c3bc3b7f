\* The whole life of the process; the executor thread is scheduled before main
\* cancels the executor.
SPECIFICATION FairSpec
CONSTANTS
    PromptExecutor = TRUE
INVARIANTS
    TypeOK
    SessionLossIsReported
    ExecutorServesRuntime
    CleanExit
PROPERTIES
    BootstrapUnwindsSafely
    StopLeadsToExit
CHECK_DEADLOCK FALSE
