\* A daily event, and nothing out of the ordinary.
SPECIFICATION Spec
CONSTANTS
    DayTicks = 2
    Forever = Forever
    None = None
    EventIds = {i1}
    Rows <- DailyRows
    Calls = {c1, c2}
    Horizon = 4
    MaxLate = 1
    MaxOutstanding = 1
    MaxPending = 1
    MinGap = 1
    Env = {}
INVARIANT ScheduleGoesOn
CHECK_DEADLOCK FALSE
