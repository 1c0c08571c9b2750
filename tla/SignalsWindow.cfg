SPECIFICATION WindowSpec
CONSTANTS
    LastDay = 8
    Weekend = {6, 7}
    MaxAge = 5
    MaxWeekdays = 5
    WindowWrites = 1
    WindowFaults = 0
INVARIANTS
    WeekdaysComeFirst
CHECK_DEADLOCK FALSE
