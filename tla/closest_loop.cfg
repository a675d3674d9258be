\* Every repetition, from every instant; the loops end, so they stop.
SPECIFICATION LoopSpec
CONSTANTS
    DayTicks = 2
    Forever = Forever
    Events <- MCEvents
    Instants <- MCInstants
INVARIANTS
    LoopTypeOK
    SearchFindsClosestDate
    PageShowsSchedule
    ClosestIsTheEarliest
PROPERTY LoopsEnd
CHECK_DEADLOCK FALSE
