\* The subscriber that leaves between the loop and the second count.
SPECIFICATION Spec
CONSTANTS
    Requests = {r1}
    ClockStepsBack = FALSE
INVARIANTS
    GivesUpOnlyAfterWait
