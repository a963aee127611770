----------------------------- MODULE MCPlanner -----------------------------
(***************************************************************************)
(* Requests on a horizon of six minutes, with two or three tasks.          *)
(***************************************************************************)
EXTENDS Planner, TLC

T(minutes, splittable, earliest, deadline, priority, pending) ==
    [minutes |-> minutes, splittable |-> splittable, earliest |-> earliest,
     deadline |-> deadline, priority |-> priority, pending |-> pending]
W(start, end) == [start |-> start, end |-> end]
B(t, start, end, locked) == [task |-> t, start |-> start, end |-> end, locked |-> locked]

Requests(halves, taskSets, windows, events, previous, focuses, pauses) ==
    [halfMinute : halves, tasks : taskSets, availability : windows, events : events,
     previous : previous, focus : focuses, pause : pauses]

Open == {W(0, 6)}
Split == {W(0, 2), W(3, 6)}

(* Two tasks of every kind that compete for the horizon, one perhaps done. *)
Pairs == {(1 :> a) @@ (2 :> b) :
            a \in {T(3, FALSE, 1, 6, 5, TRUE), T(3, TRUE, 2, 6, 5, TRUE)},
            b \in {T(2, s, 0, d, 9, TRUE) : s \in BOOLEAN, d \in {4, 7}}
                  \cup {T(1, FALSE, 0, d, 9, TRUE) : d \in {4, 7}}
                  \cup {T(2, TRUE, 0, 7, 9, FALSE)}}

(* Earlier layouts: movable, locked, partly outside, short, overlapping.   *)
Layouts == {<<>>,
            <<B(1, 0, 3, FALSE)>>, <<B(1, 2, 5, TRUE)>>, <<B(1, 4, 7, FALSE)>>,
            <<B(1, 1, 2, TRUE), B(1, 3, 5, FALSE)>>,
            <<B(1, 0, 3, FALSE), B(2, 2, 4, FALSE)>>,
            <<B(1, 3, 6, FALSE), B(2, 1, 3, FALSE)>>,
            <<B(1, 0, 2, FALSE), B(1, 1, 2, FALSE), B(2, 4, 5, TRUE)>>}

(* Everything about where work may go, from the middle of the first minute. *)
LayoutRequests ==
    Requests({1}, Pairs, {Open, Split}, {{}, {W(3, 4)}}, Layouts, {2}, {0, 1})

(* Requests that must be refused, and the limits of a day.                 *)
RefusedRequests ==
    Requests({-3, 0, 1, 11, 12}, {1 :> T(2, TRUE, 0, 7, 5, TRUE)},
             {Open, {W(0, 7)}, {W(-1, 2)}},
             {{}, {W(-1, 1)}, {W(6, 8)}, {W(1, 3), W(2, 4)}, {W(0, 6)}},
             {<<>>, <<B(1, 0, 1, TRUE)>>}, {1}, {1})

(* Three tasks that can be cut into many pieces.                           *)
Trio == {(1 :> T(2, TRUE, 0, 7, 5, TRUE)) @@ (2 :> T(2, s, 0, 7, 5, TRUE))
            @@ (3 :> T(2, TRUE, 0, d, p, TRUE)) : s \in BOOLEAN, d \in {3, 7}, p \in {1, 9}}

LimitRequests ==
    RefusedRequests \cup Requests({0}, Trio, {Open, Split}, {{}, {W(2, 3)}},
             {<<>>, <<B(1, 0, 2, FALSE)>>, <<B(2, 4, 6, TRUE), B(3, 0, 1, TRUE)>>}, {1, 2}, {1})

RequestsOfAllKinds == LayoutRequests \cup LimitRequests

(* Planned again at once or when the first blocks have begun; for a request *)
(* of the last minute (RefusedRequests), that is when the day is over.     *)
Delays == {0, 3}
============================================================================
