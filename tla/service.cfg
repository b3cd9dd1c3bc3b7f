\* One call in every interleaving, with both faults of the ROS side; only the
\* workers are sure to run.
SPECIFICATION FairSpec
CONSTANTS
    Requests = {r1}
    ClockStepsBack = TRUE
    RosFaults = {"sendThrows", "unprojectableResponse"}
INVARIANTS
    TypeOK
    OnlyKnownLapses
PROPERTIES
    CancelledInTimeIsNotSent
    ExpiredInTimeIsNotSent
    ArrivedResponseWins
    LateResponseIsDropped
    Terminates
    CancellationEndsOperation
