SPECIFICATION MCSpec
CONSTANTS
    Keys = {"k1", "lost"}
    RowIds = {1, 2}
    Unroutable = {"lost"}
    Producers = {"p1", "p2"}
    Dispatchers = {"d1", "d2"}
    MaxAttempts = 3
    Limit = 2
    MaxFailures = 3
    MaxCuts = 1
    Ids = {1}
    People = {"ann", "bob", "cat"}
    Proposers = {"ann", "bob"}
    Approvers = {"ann", "bob"}
    Executors = {"bob", "cat"}
    Deployments = {"payments", "dns"}
    Managed = {"payments"}
    Requests <- MCRequests
    Threads = {"t1", "t2"}
    Lifetime = 1
    MaxTime = 2
    MaxDrift = 1
    MaxCrashes = 1
INVARIANTS
    EnqueueIdempotent
    DeliveredWasHandled
    NoEarlyDeadLetter
    OneChangePerProposal
    ChangeIsGoverned
    StatusMatchesCluster
PROPERTIES
    SettledStays
    EventuallySettled
    RowsMoveForward
    ClaimsFinish
CHECK_DEADLOCK FALSE
