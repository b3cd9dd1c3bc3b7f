\* Publish requests in every interleaving; only the workers are sure to run.
SPECIFICATION FairSpec
CONSTANTS
    Requests = {r1}
    ClockStepsBack = TRUE
INVARIANTS
    TypeOK
    SubscriberPromise
PROPERTIES
    CancelledInTimeIsNotPublished
    ExpiredInTimeIsNotPublished
    ContractHolds
    Terminates
    CancellationEndsOperation
