---------------------------- MODULE MCScheduler ----------------------------
(* Small instances of Scheduler for TLC. *)
EXTENDS Scheduler, TLC

Once(s, e) == [start |-> s, end |-> e, repeating |-> "None", until |-> Forever]
Every(s, e, u) == [start |-> s, end |-> e, repeating |-> "Daily", until |-> u]

(* A single event and a daily one that overlaps it. *)
MixedRows == {Once(1, 3), Every(0, 2, Forever)}

(* Two disjoint single events, touching at 3, and a daily one. *)
DisjointRows == {Once(1, 3), Once(3, 4), Once(4, 5), Every(1, 2, Forever)}

DailyRows == {Every(1, 2, Forever)}

MayOverlap == -1

Symmetric == Permutations(Calls) \cup Permutations(EventIds)
=============================================================================
