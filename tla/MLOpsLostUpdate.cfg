SPECIFICATION RegistrySpec
CONSTANTS
    Runs = {"r1"}
    Actors = {"owner", "reviewer"}
    NoActor = "none"
    Evaluations <- MCEvaluations
    Workers = {"w1", "w2"}
    MaxRevision = 6
CHECK_DEADLOCK FALSE
PROPERTIES
    NoOverwrite
