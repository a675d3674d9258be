\* Calls of updateForDevice overlap, everything in the environment happens.
SPECIFICATION Spec
CONSTANTS
    DayTicks = 2
    Forever = Forever
    None = None
    EventIds = {i1, i2}
    Rows <- MixedRows
    Calls = {c1, c2, c3}
    Horizon = 3
    MaxLate = 1
    MaxOutstanding = 2
    MaxPending = 1
    MinGap <- MayOverlap
    Env = {"put", "delete", "connection", "restart", "manual"}
SYMMETRY Symmetric
INVARIANTS
    NoLostUpdate
    NoMissedEdge
    HandleTellsRelay
