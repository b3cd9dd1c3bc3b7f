\* A response with a field the codec cannot project.
SPECIFICATION Spec
CONSTANTS
    Requests = {r1}
    ClockStepsBack = FALSE
    RosFaults = {"unprojectableResponse"}
INVARIANTS
    SentCallsAreNotDenied
