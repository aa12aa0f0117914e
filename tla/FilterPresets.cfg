SPECIFICATION Spec
CONSTANTS
    Presets = {p1, p2, p3}
    Requests = {r1, r2}
    None = None
    MaxRequests = 6
    MaxFailures = 1
SYMMETRY IdentifierSymmetry
INVARIANTS
    TypeOK
    OneDefault
    AnswerStands
CHECK_DEADLOCK FALSE
