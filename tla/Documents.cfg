CONSTANTS
    u1 = u1
    u2 = u2
    q1 = q1
    q2 = q2
    q3 = q3
    d1 = d1
    a = a
    None = None
    Users = {u1, u2}
    Requests = {q1, q2, q3}
    Stored = {d1}
    Dates = {1, 2}
    Orders = {0}
    Bases = {a}
    MaxAttempts = 2
SPECIFICATION Spec
SYMMETRY MCSymmetry
INVARIANTS DatesInOrder ClashesExplained
CHECK_DEADLOCK FALSE
