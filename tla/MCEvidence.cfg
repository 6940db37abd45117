SPECIFICATION MCSpec
CONSTANTS
    Comments = {"c1"}
    Approvers = {"ann"}
    Nobody = "nobody"
    Handlers = {"h1", "h2"}
    ReviewStates = {"APPROVED", "CHANGES_REQUESTED"}
    RequestChanges = TRUE
    MaxVersion = 1
    MaxRestarts = 1
    Samples = {"s1", "s2", "inj"}
    Injected = {"inj"}
    Risky = {"s2"}
    Judges = {"j1", "j2"}
    Thresholds <- MCThresholds
    MinimumConfidence = 70
    MaximumDisagreement = 25
    Grades = {55, 95}
    Confidences = {60, 100}
    Reviewers = {"r1", "r2", "r3"}
    JudgeReviewers = {"r1", "r2"}
    Datasets <- MCDatasets
    MinimumCases = 2
    MaxEvaluations = 2
    MaxLabels = 4
    Snapshots <- MCSnapshots
    ForeignSignals <- MCForeignSignals
    Tenants = {"t1", "t2"}
    Tolerance = 1
    MaxTime = 2
    MaxMessages = 2
    Runs = {"r1"}
    Actors = {"owner", "reviewer"}
    NoActor = "none"
    Evaluations <- MCEvaluations
    Workers = {"w1", "w2"}
    MaxRevision = 6
INVARIANTS
    HistoryIsLegal
    ApplyWasApproved
    SkippedStaysUnreviewed
    InjectionNeverPasses
    TwoPersonTruth
    GateFollowsEvidence
PROPERTIES
    EligibilityLatched
    ApprovalsKept
    ReviewsSettleOnce
    GateOnlyTightens
CHECK_DEADLOCK FALSE
