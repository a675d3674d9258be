--------------------------- MODULE MCClosestLoop ---------------------------
(* Two ticks to a day, and events that start in the first seven days. *)
EXTENDS ClosestLoop

MCInstants == {0, 1, 2, 5, 8, 13, 14, 17}

MCEvents ==
    {[start |-> s, end |-> s + d, repeating |-> r, until |-> u] :
        s \in {0, 1, 5, 8, 10, 13}, d \in 1..3,
        r \in {"Daily", "WorkingDays", "EveryWeek", "EveryMonth", "EveryYear"},
        u \in {Forever, 4, 11, 14}}
=============================================================================
