\* The executor thread may be scheduled only after main cancelled the executor.
SPECIFICATION FairSpec
CONSTANTS
    PromptExecutor = FALSE
PROPERTIES
    StopLeadsToExit
CHECK_DEADLOCK FALSE
