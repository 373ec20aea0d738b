SPECIFICATION Spec
CONSTANTS
    morning = morning
    noon = noon
    night = night
    Null = Null
    Claims = {morning, noon}
    IntervalOf <- MCIntervalOf
    Schedules <- MCSchedules
    Breaks <- MCBreaks
    Services <- MCServices
    Weekday = 3
    Date = 10
    DayLength = 8
CHECK_DEADLOCK FALSE
INVARIANTS
    AnswerRespectsSettled
    WithheldForReason
