\* Bootstraps whose spec or contracts are right; the process stops where it fails.
SPECIFICATION Spec
CONSTANTS
    RmwImplementations = {"rmw_a"}
    ScopeKeys = {"key1", "key2"}
    AttributeNames <- MCAttributeNames
    InstanceSpecs <- MCInstanceSpecs
    Subjects <- MCSubjects
    Bootstraps <- MCBootstraps
    Inherited <- MCInherited
INVARIANTS
    EnvironmentServesAppliedSpecs
    SubjectsAreAppliedScopes
    ServesCompiledContracts
    RefusesOnlyWrongBootstraps
CHECK_DEADLOCK FALSE
