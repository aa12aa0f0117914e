CONSTANTS
    q1 = q1
    q2 = q2
    b1 = b1
    None = None
    Requests = {q1, q2}
    Stored = {b1}
    Amounts = {2}
    Length <- MCLength
    MaxTime = 3
    Dates = {0, 2}
    MaxSpent = 1
SPECIFICATION Spec
SYMMETRY MCSymmetry
INVARIANTS RolledNext RefusedByDeletion
CHECK_DEADLOCK FALSE
