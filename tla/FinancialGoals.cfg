CONSTANTS
    q1 = q1
    q2 = q2
    Requests = {q1, q2}
    Targets = {1, 2}
    Marks = {1}
    MaxAmount = 2
    MaxRequests = 4
    MaxFailures = 1
SYMMETRY RequestSymmetry
SPECIFICATION Spec
INVARIANTS TypeOK NothingLost AchievedAgrees MilestonesCaughtUp
PROPERTY ReachedStaysReached
CHECK_DEADLOCK FALSE
