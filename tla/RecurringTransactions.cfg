SPECIFICATION Spec
CONSTANTS
    Series = {s1, s2}
    Crons = {scheduler}
    Requests = {r1, r2}
    UserFrequencies <- MCFrequencies
    UserIntervals <- MCIntervals
    UserDates <- MCDates
    Horizon = 4
    MaxRequests = 3
    MaxFailures = 1
SYMMETRY RequestSymmetry
INVARIANTS
    TypeOK
    AtMostOnce
    LedgerMatches
PROPERTIES
    StoppedStaysStopped
