SPECIFICATION Spec
CONSTANTS
    Actors = {ann, bob}
    Nobody = nobody
    Handlers = {h1, h2}
    MaxAudit = 6
SYMMETRY MCSymmetry
CHECK_DEADLOCK FALSE
INVARIANTS
    NoSelfApproval
