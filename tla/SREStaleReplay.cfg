SPECIFICATION Spec
CONSTANTS
    Ids = {1}
    People = {"ann", "bob", "cat"}
    Proposers = {"ann", "bob"}
    Approvers = {"ann", "bob"}
    Executors = {"bob", "cat"}
    Deployments = {"payments", "dns"}
    Managed = {"payments"}
    Requests <- FewRequests
    Threads = {"t1", "t2"}
    Lifetime = 1
    MaxTime = 0
    MaxDrift = 1
    MaxCrashes = 0
CHECK_DEADLOCK FALSE
INVARIANTS
    NoStaleReplay
