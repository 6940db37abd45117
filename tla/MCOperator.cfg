SPECIFICATION MCSpec
CONSTANTS
    Resources = {"model", "agent", "run"}
    KindOf <- MCKindOf
    NameOf <- MCNameOf
    Admitted = {"model", "agent"}
    RawSpecs <- MCRawSpecs
    Digests = {"d1", "d2"}
    IntRange = 262144
    MaxEvents = 3
CHECK_DEADLOCK FALSE
INVARIANTS
    OnlyGovernedRuns
    StatusIsEarned
PROPERTIES
    Converges
