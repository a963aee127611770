----------------------------- MODULE MCScheduleTx -----------------------------
(***************************************************************************)
(* Two connections and a handful of requests about one task; a day has two *)
(* minutes.                                                                *)
(***************************************************************************)
EXTENDS ScheduleTx, TLC

Day1 == [start |-> 0, end |-> 2]
Day2 == [start |-> 2, end |-> 4]
Days == {Day1, Day2}
OneShape == {[minutes |-> 1, splittable |-> TRUE, earliest |-> 0, deadline |-> 4]}

At(start) == {[task |-> 1, start |-> start, end |-> start + 1, locked |-> FALSE]}
Layouts == {{}, At(1), At(3)}

SavedAs(blocks, horizon) ==
    [blocks |-> blocks, horizon |-> horizon, taskVersions |-> <<1>>, preferenceVersion |-> 1]
CreateAs(id, data) == [op |-> "create", id |-> id, data |-> data]

(* Creations that want the same task, an edit that gives it up and its     *)
(* undo, which may find the task taken.  One id is used for two requests.  *)
Requests ==
    {CreateAs("a", SavedAs(At(1), Day1)), CreateAs("b", SavedAs(At(3), Day2)),
     [op |-> "replace", id |-> "d", schedule |-> "s1", expected |-> 1, data |-> SavedAs({}, Day1)],
     [op |-> "undo", id |-> "f", schedule |-> "s1", expected |-> 2],
     [op |-> "redo", id |-> "f", schedule |-> "s1", expected |-> 3]}
=============================================================================
