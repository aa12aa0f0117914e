CONSTANTS
    u1 = u1
    q1 = q1
    q2 = q2
    q3 = q3
    n1 = n1
    n2 = n2
    e1 = e1
    e2 = e2
    None = None
    Owners = {u1}
    Requests = {q1, q2, q3}
    Names = {n1, n2}
    Emails = {e1, e2}
    NameOf <- MCNameOf
    EmailOf <- MCEmailOf
    MaxFailures = 1
SPECIFICATION Spec
SYMMETRY MCSymmetry
INVARIANTS TypeOK LastPasswordStands TokenUsedOnce NoStrayUsers DeletionComplete
PROPERTIES InactiveStays
CHECK_DEADLOCK FALSE
