\* A publish request and a call under one control thread compete for the only
\* worker of the pool.
SPECIFICATION FairSpec
CONSTANTS
    Callers = {t1}
    Specs = {native}
    native_context = native
    Serialised = TRUE
    PublishRequests = {p1}
    ServiceRequests = {s1}
    dispatch_workers = 1
    ClockStepsBack = FALSE
    RosFaults = {}
PROPERTIES
    AdmittedOnlyWhileApplied
    KeepsContracts
    EveryRequestAnswered
