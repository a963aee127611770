------------------------- MODULE MCScheduleHistory -------------------------
(***************************************************************************)
(* Small instances of ScheduleHistory.  A day has two minutes, the clock   *)
(* runs over two days; horizons are the single days.                       *)
(***************************************************************************)
EXTENDS ScheduleHistory, TLC

CONSTANTS t1, t2

Symmetry == Permutations(RequestId) \cup Permutations(Schedule)

Day1 == [start |-> 0, end |-> 2]
Day2 == [start |-> 2, end |-> 4]

B(t, start, end, locked) == [task |-> t, start |-> start, end |-> end, locked |-> locked]

(* One-minute tasks that may be split, and a two-minute one that may not.  *)
Short == [minutes |-> 1, splittable |-> TRUE, earliest |-> 0, deadline |-> 4]
Whole == [minutes |-> 2, splittable |-> FALSE, earliest |-> 0, deadline |-> 4]

OneShape == {Short}
BothShapes == {Short, Whole}

OneDay == {Day1}
DaysAndBoth == {Day1, Day2, [start |-> 0, end |-> 4]}

(* One task moved between the minutes of one day, locked and unlocked.     *)
EditLayouts == {{}, {B(t1, 0, 1, FALSE)}, {B(t1, 1, 2, FALSE)}, {B(t1, 1, 2, TRUE)}}

(* Two tasks in either day, alone or together; one of them may be whole,   *)
(* so that each layout fits some shapes and not others.                    *)
ShareLayouts == {{B(t1, 0, 1, FALSE)}, {B(t1, 2, 4, FALSE)}, {B(t2, 0, 1, FALSE)},
                 {B(t2, 3, 4, FALSE), B(t1, 2, 3, FALSE)}}
============================================================================
