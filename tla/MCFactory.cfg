SPECIFICATION Spec
CONSTANTS
    REQUIRED_GATES = {"quality", "rollback"}
    GateNames = {"quality", "rollback", "latency"}
    Actors <- MCActors
    NoActor = "none"
    SpecRequests <- MCSpecRequests
    GateRequests <- MCGateRequests
    ActionRequests <- MCActionRequests
    RolesOf <- MCRolesOf
    TenantOf <- MCTenantOf
    Production = TRUE
    Ids = {1}
    Handlers = {h1, h2}
    MaxVersion = 8
INVARIANTS
    ReleaseGoverned
    AuditTrail
    SignedEvidence
PROPERTIES
    ApprovalIsFinal
    AtomicOperations
SYMMETRY MCSymmetry
