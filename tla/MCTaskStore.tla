---------------------------- MODULE MCTaskStore ----------------------------
(***************************************************************************)
(* Small sets of calls for TLC; a week has three days.                     *)
(***************************************************************************)
EXTENDS TaskStore, TLC

C(minutes, room) == [minutes |-> minutes, room |-> room]
P(content, frequency, weekdays, first, last, active) ==
    [content |-> content, frequency |-> frequency, weekdays |-> weekdays,
     first |-> first, last |-> last, active |-> active]

Workers == Permutations(Worker)

Create(r, c) == [op |-> "create", request |-> r, content |-> c]
Update(t, v, f, x) == [op |-> "update", task |-> t, expected |-> v, field |-> f, value |-> x]
Delete(t, v) == [op |-> "delete", task |-> t, expected |-> v]
Open(r, p) == [op |-> "open", request |-> r, pattern |-> p]
Replace(s, v, p) == [op |-> "replace", series |-> s, expected |-> v, pattern |-> p]
Drop(s, v) == [op |-> "drop", series |-> s, expected |-> v]
Materialize(s, v, d, n) ==
    [op |-> "materialize", series |-> s, expected |-> v, start |-> d, days |-> n]

SmallContent == [minutes : {1, 2}, room : {1, 2}]

(* A creation sent again, one that reuses its id, and edits of two fields  *)
(* that fit only in one order.                                             *)
EditCalls ==
    {Create("a", C(1, 2)), Create("a", C(1, 1)),
     Update(1, 1, "minutes", 2), Update(1, 1, "room", 1), Update(1, 2, "room", 1)}
    \cup {Delete(1, v) : v \in 1..2}

Daily == P(C(1, 2), "daily", {}, 1, 4, TRUE)
Weekly == P(C(1, 2), "weekly", {}, 1, 5, TRUE)
Chosen == P(C(1, 2), "weekdays", {0, 2}, 1, 5, TRUE)
Paused == P(C(1, 2), "daily", {}, 1, 5, FALSE)
SmallPattern == {Daily, Weekly, Chosen, Paused}

(* An activity whose occurrences are made, edited, deleted and asked for   *)
(* again.                                                                  *)
SeriesCalls ==
    {Open("r", Chosen), Open("r", Daily),
     Replace(1, 1, Daily), Replace(1, 1, Paused), Replace(1, 2, Weekly), Drop(1, 2)}
    \cup {Materialize(1, v, 2, n) : v \in 1..2, n \in {1, 3}}
    \cup {Materialize(1, v, 1, 3) : v \in 1..2}

AllCalls == EditCalls \cup SeriesCalls

(* One behaviour has a task of its own or an activity, not both.           *)
OneKind == series = <<>> \/ \A t \in DOMAIN tasks : tasks[t].series # NoSeries
=============================================================================
