----------------------------- MODULE Repeating -----------------------------
(***************************************************************************)
(* The calendar arithmetic of the web application: how a stored event      *)
(* recurs (Repeating.js), which stored events the scheduler's query        *)
(* selects and which occurrence of an event it works with                  *)
(* (devicesScheduler.js), and which occurrences the calendar page shows    *)
(* (routesWebApi.js).                                                      *)
(*                                                                         *)
(* Instants are natural numbers of ticks, DayTicks of them to a day, and   *)
(* day 0 is a Sunday.  Days all have the same length: daylight saving is   *)
(* not modelled.  The loops of the code are given here by what they find;  *)
(* module ClosestLoop walks them iteration by iteration and is checked     *)
(* against these definitions.                                              *)
(***************************************************************************)
EXTENDS Integers

CONSTANTS
    DayTicks,     \* the length of a day
    Forever       \* stands for repeating_end_date IS NULL

ASSUME RepeatingAssumption ==
    /\ DayTicks \in Nat \ {0}
    /\ Forever \notin Int

(* The days between two occurrences of the plain periods. *)
Spacing == [Daily |-> 1, EveryWeek |-> 7, EveryMonth |-> 30, EveryYear |-> 365]

Repetitions == {"None", "WorkingDays"} \cup DOMAIN Spacing

(* A row of the table "event" of one device. *)
EventRows == [start : Nat, end : Nat, repeating : Repetitions,
              until : Nat \cup {Forever}]

Portion == [start : Nat, end : Nat]

Own(e) == [start |-> e.start, end |-> e.end]

(* Date.getDay: 0 is Sunday, 5 Friday, 6 Saturday. *)
Weekday(t) == (t \div DayTicks) % 7

(* Mutants: from Friday and Saturday to Saturday; days taken off. *)
AddedDaysToSaturday(start, repeating) ==
    IF repeating = "WorkingDays"
    THEN IF Weekday(start) >= 5 THEN 6 - Weekday(start) ELSE 1
    ELSE Spacing[repeating]

AddedDaysReversed(start, repeating) ==
    IF repeating = "WorkingDays"
    THEN IF Weekday(start) >= 5 THEN Weekday(start) - 8 ELSE -1
    ELSE -Spacing[repeating]

(***************************************************************************)
(* addDaysToTimeByRepeating: the days from one occurrence, which starts at *)
(* the instant start, to the next.                                         *)
(***************************************************************************)
AddedDays(start, repeating) ==
    IF repeating = "WorkingDays"
    THEN IF Weekday(start) >= 5 THEN 8 - Weekday(start) ELSE 1
    ELSE Spacing[repeating]

Shift(p, days) == [start |-> p.start + days * DayTicks,
                   end   |-> p.end + days * DayTicks]

(* Repeating addDaysToTimeByRepeating from the first day reaches day n.    *)
OccursOn(e, n) ==
    \/ n = 0
    \/ /\ e.repeating = "WorkingDays"
       /\ Weekday(e.start + n * DayTicks) \in 1..5
    \/ /\ e.repeating \in DOMAIN Spacing
       /\ n % Spacing[e.repeating] = 0

LongestGap(e) ==
    IF e.repeating = "WorkingDays" THEN 3
    ELSE IF e.repeating = "None" THEN 0 ELSE Spacing[e.repeating]

(* Enough days after the first one to find an occurrence that ends after t *)
DaysTo(e, t) == {n \in 0..(t + LongestGap(e)) : OccursOn(e, n)}

(* repeating_end_date lets the loops step past an occurrence that ends at x *)
BeforeUntil(e, x) == IF e.until = Forever THEN TRUE ELSE x < e.until

(***************************************************************************)
(* The scheduler's loop leaves an occurrence p for the next one while      *)
(* this holds.                                                             *)
(***************************************************************************)
SchedulerPasses(e, p, t) == p.start < t /\ p.end < t /\ BeforeUntil(e, p.end)

(***************************************************************************)
(* event.closestDate as updateForDevice computes it at the instant t: the  *)
(* occurrence the loop stops at, if the loop moved at all and that         *)
(* occurrence ends after t, and otherwise the event's own first dates.     *)
(***************************************************************************)
ClosestDate(e, t) ==
    LET Days   == DaysTo(e, t)
        Stop   == {n \in Days :
                     /\ ~SchedulerPasses(e, Shift(e, n), t)
                     /\ \A m \in Days :
                            m < n => SchedulerPasses(e, Shift(e, m), t)}
        Later  == {n \in Stop : n > 0 /\ Shift(e, n).end > t}
    IN  IF e.repeating = "None" \/ Later = {}
        THEN Own(e)
        ELSE Shift(e, CHOOSE n \in Later : TRUE)

(* What a job for occurrence p does next, seen from t, and when. *)
Edge(p, t) == IF p.start > t THEN [date |-> p.start, enable |-> TRUE]
                             ELSE [date |-> p.end, enable |-> FALSE]

(* repeating_end_date IS NULL OR repeating_end_date >= t *)
StillRepeats(e, t) == IF e.until = Forever THEN TRUE ELSE e.until >= t

(* The WHERE clause of updateForDevice, called at the instant t. *)
Selected(e, t) == IF e.repeating = "None"
                  THEN e.start > t \/ e.end > t
                  ELSE StillRepeats(e, t)

(***************************************************************************)
(* The next thing to do for a set of selected rows: the edge with the      *)
(* least delta.  Rows come back in no particular order and the first of    *)
(* the least wins, so any of them may.                                     *)
(***************************************************************************)
Decisions(rowset, t) ==
    LET Edges == {Edge(ClosestDate(e, t), t) : e \in rowset}
    IN  {d \in Edges : \A x \in Edges : d.date <= x.date}

(***************************************************************************)
(* What the user sees.  The calendar shows an event's first occurrence and *)
(* steps to a next one as long as the one before ends before               *)
(* repeating_end_date.                                                     *)
(***************************************************************************)
Shown(e, n) ==
    /\ OccursOn(e, n)
    /\ \A m \in 0..(n - 1) : OccursOn(e, m) => BeforeUntil(e, Shift(e, m).end)

(* The schedule wants the relay on at the instant t. *)
ActiveAt(e, t) ==
    \E n \in DaysTo(e, t) :
        Shown(e, n) /\ Shift(e, n).start <= t /\ t < Shift(e, n).end
=============================================================================
