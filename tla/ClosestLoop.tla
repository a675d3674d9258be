---------------------------- MODULE ClosestLoop ----------------------------
(***************************************************************************)
(* The two loops over the occurrences of a repeating event, iteration by   *)
(* iteration: the one of updateForDevice that looks for closestDate, and   *)
(* the one of GET /api/events that collects the portions the calendar      *)
(* page draws.  Both start at the event's own dates and step with          *)
(* addDaysToTimeByRepeating.                                               *)
(***************************************************************************)
EXTENDS Repeating

CONSTANTS
    Events,       \* repeating events to walk over
    Instants      \* the values of `now' and of the calendar's bounds

ASSUME ClosestLoopAssumption ==
    /\ Events \subseteq {e \in EventRows : e.repeating # "None"}
    /\ Instants \subseteq Nat

VARIABLES
    loop,         \* which of the two loops runs, or "done"
    event,
    from, to,     \* now; or calendarStart and calendarEnd
    current,      \* newStartDate, newEndDate
    closest,      \* event.closestDate
    portions      \* event.portions

loopVars == <<loop, event, from, to, current, closest, portions>>

LoopTypeOK ==
    /\ loop \in {"closest", "portions", "closest done", "portions done"}
    /\ event \in Events
    /\ from \in Instants /\ to \in Instants
    /\ current \in Portion /\ closest \in Portion
    /\ portions \subseteq Portion

(* GET /api/events selects repeating rows that start before the calendar's *)
(* end and do not stop repeating before its start.                         *)
OnPage(e, a, b) == e.start < b /\ StillRepeats(e, a)

LoopInit ==
    /\ event \in Events
    /\ from \in Instants
    /\ \/ loop = "closest" /\ to = from /\ Selected(event, from)
       \/ loop = "portions" /\ to \in Instants /\ from <= to
          /\ OnPage(event, from, to)
    /\ current = Own(event)
    /\ closest = Own(event)
    /\ portions = {Own(event)}

NextOccurrence(p) == Shift(p, AddedDays(p.start, event.repeating))

(* Mutant: goes on while one of the two dates has passed. *)
SearchesTooFar ==
    current.start < from /\ BeforeUntil(event, current.end)

Searches == SchedulerPasses(event, current, from)

SearchStep ==
    /\ loop = "closest"
    /\ Searches
    /\ current' = NextOccurrence(current)
    /\ closest' = IF current'.end > from THEN current' ELSE closest
    /\ UNCHANGED <<loop, event, from, to, portions>>

Collects == current.start < to /\ BeforeUntil(event, current.end)

(* Mutant: an occurrence that has begun is not drawn. *)
CollectStepAhead ==
    /\ loop = "portions"
    /\ Collects
    /\ current' = NextOccurrence(current)
    /\ portions' = IF current'.start > from THEN portions \cup {current'}
                   ELSE portions
    /\ UNCHANGED <<loop, event, from, to, closest>>

CollectStep ==
    /\ loop = "portions"
    /\ Collects
    /\ current' = NextOccurrence(current)
    /\ portions' = IF current'.end > from THEN portions \cup {current'}
                   ELSE portions
    /\ UNCHANGED <<loop, event, from, to, closest>>

Leave ==
    /\ \/ loop = "closest" /\ ~Searches /\ loop' = "closest done"
       \/ loop = "portions" /\ ~Collects /\ loop' = "portions done"
    /\ UNCHANGED <<event, from, to, current, closest, portions>>

LoopNext == SearchStep \/ CollectStep \/ Leave

LoopSpec == LoopInit /\ [][LoopNext]_loopVars /\ WF_loopVars(LoopNext)
-----------------------------------------------------------------------------
(* The days, counted from the event's first, on which it is drawn when the *)
(* page shows everything up to the instant t.                              *)
ShownDays(t) == {n \in DaysTo(event, t) : Shown(event, n)}

(***************************************************************************)
(* The loop of updateForDevice finds what ClosestDate says.                *)
(***************************************************************************)
SearchFindsClosestDate ==
    loop = "closest done" => closest = ClosestDate(event, from)

(***************************************************************************)
(* The page draws the first occurrence and exactly those others that Shown *)
(* says, as far as they touch the page; the loop may add one that begins   *)
(* after the page ends.                                                    *)
(***************************************************************************)
PageShowsSchedule ==
    loop = "portions done" =>
        LET Touching == {Shift(event, n) : n \in {m \in ShownDays(to) :
                            Shift(event, m).end > from
                            /\ Shift(event, m).start < to}}
        IN  /\ Touching \subseteq portions
            /\ \A p \in portions \ Touching : p = Own(event) \/ p.start >= to

(***************************************************************************)
(* The scheduler works with an occurrence that the calendar shows, and it  *)
(* is the earliest that is not over.  It works with one that is over only  *)
(* when every shown occurrence is over, or when one ends exactly now.      *)
(***************************************************************************)
ClosestIsTheEarliest ==
    loop = "closest done" =>
        LET Occurrences == {Shift(event, n) : n \in ShownDays(from)}
            Ahead == {p \in Occurrences : p.end > from}
        IN  /\ closest \in Occurrences
            /\ closest.end > from => \A p \in Ahead : closest.start <= p.start
            /\ closest.end <= from /\ Ahead # {} =>
                   \E p \in Occurrences : p.end = from

(* Both loops end: every repetition moves the dates forward. *)
LoopsEnd == <>(loop \in {"closest done", "portions done"})
=============================================================================
