SPECIFICATION MCSpec
CONSTANTS
    Actors = {ann, bob}
    Nobody = nobody
    Handlers = {h1, h2}
    MaxAudit = 6
    Callers = {c1, c2, c3}
    Keys = {k1, k2, k3}
    Cacheable = {k1, k2}
    CacheCapacity = 1
    FailureThreshold = 2
    ResetTicks = 2
    MaxTicks = 2
    Events = {e1, e2, e3}
    Transactions <- MCTransactions
    MaxIdempotencyKeys = 2
    MaxReplies = 5
    Queries = {question, better, empty}
    Question = question
    EmptyQuery = empty
    Documents = {d1, d2}
    MaximumAttempts = 3
    Invocations = {i1, i2}
    Releases = {guarded, open}
    Protected = {guarded}
    Tools = {tool}
    MaxFeedback = 1
SYMMETRY MCServingSymmetry
INVARIANTS
    PrerequisitesAudited
    SoundWhenSerial
    DecisionsAreOwned
    BreakerBoundsExposure
    ReplaysAgree
    GraphComputesInvoke
    FailsClosed
CHECK_DEADLOCK FALSE
