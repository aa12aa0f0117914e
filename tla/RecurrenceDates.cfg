SPECIFICATION DatesSpec
CONSTANTS
    StartDates <- MCStartDates
    Intervals <- MCIntervals
    LastDate <- MCLastDate
INVARIANTS
    CalendarIsCivil
    OneMonthLateAtMost
CHECK_DEADLOCK FALSE
