\* Three threads; the runtime does not overlap a start with a clear.
SPECIFICATION LifecycleSpec
CONSTANTS
    Callers = {t1, t2, t3}
    Specs = {native, other}
    native_context = native
    Serialised = TRUE
INVARIANTS
    LifecycleTypeOK
    EnabledOnlyWhileApplied
    RuntimeViewAgrees
    AtMostOneHolder
