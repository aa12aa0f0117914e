SPECIFICATION Spec
CONSTANTS
    Series = {s1}
    Crons = {api, scheduler}
    Requests = {r1}
    UserFrequencies <- MCFrequencies
    UserIntervals <- MCIntervals
    UserDates <- MCDates
    Horizon = 2
    MaxRequests = 1
    MaxFailures = 0
INVARIANTS
    NeverTwice
