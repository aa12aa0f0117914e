SPECIFICATION FairSpec
CONSTANTS
    Series = {s1}
    Crons = {scheduler}
    Requests = {r1}
    UserFrequencies <- MCFrequencies
    UserIntervals <- MCIntervals
    UserDates <- MCLiveDates
    Horizon = 4
    MaxRequests = 2
    MaxFailures = 2
PROPERTIES
    CatchesUp
