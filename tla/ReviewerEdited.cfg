SPECIFICATION Spec
CONSTANTS
    Comments = {"c1"}
    Approvers = {"ann", "bob"}
    Nobody = "nobody"
    Handlers = {"h1"}
    ReviewStates = {"COMMENTED"}
    RequestChanges = FALSE
    MaxVersion = 2
    MaxRestarts = 1
INVARIANTS
    AppliedTextWasApproved
