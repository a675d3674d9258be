\* One call of updateForDevice at a time, events of the device do not overlap.
SPECIFICATION Spec
CONSTANTS
    DayTicks = 2
    Forever = Forever
    None = None
    EventIds = {i1, i2}
    Rows <- DisjointRows
    Calls = {c1, c2}
    Horizon = 7
    MaxLate = 1
    MaxOutstanding = 1
    MaxPending = 1
    MinGap = 1
    Env = {"put", "delete", "connection", "restart", "manual"}
SYMMETRY Symmetric
INVARIANTS
    OneJob
    OnWhenDue
