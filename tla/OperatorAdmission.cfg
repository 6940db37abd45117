SPECIFICATION MCSpec
CONSTANTS
    Resources = {"model", "agent", "run"}
    KindOf <- MCKindOf
    NameOf <- MCNameOf
    Admitted = {"model", "agent", "run"}
    RawSpecs <- Unbounded
    Digests = {"d1", "d2"}
    IntRange = 262144
    MaxEvents = 2
CHECK_DEADLOCK FALSE
INVARIANTS
    AdmittedIsBounded
