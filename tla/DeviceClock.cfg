\* A small calendar, requests on and off it.
CONSTANTS
    MonthLength <- MCMonthLength
    HoursPerDay = 2
    Years = {2, 3}
    Months = {0, 1, 2, 3, 255}
    Days = {0, 1, 2, 3, 4, 255}
    Hours = {0, 1, 2, 255}
    UNSPECIFIED = 255
    Epoch = 21
    HostStart = 4
    MaxHost = 20
    None = None
SPECIFICATION ClockSpec
INVARIANTS FollowsSynchronisedTime
PROPERTY WeekdayFollowsDate
