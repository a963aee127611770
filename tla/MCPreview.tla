----------------------------- MODULE MCPreview -----------------------------
(***************************************************************************)
(* A day of three minutes and the day after it.                            *)
(***************************************************************************)
EXTENDS Preview, TLC

W(a, b) == [start |-> a, end |-> b]
R(h, tasks, own) == [horizon |-> h, tasks |-> tasks, own |-> own]

Today == W(0, 3)
Tomorrow == W(3, 5)

(* Events within a day and across midnight; requests with none of their    *)
(* own and with as many as a save accepts.                                 *)
DayWindows == {W(0, 1), W(1, 2), W(2, 4)}
EventRequests == {R(Tomorrow, Task, {}), R(Today, Task, {W(0, 1), W(1, 2)})}

(* A day whose minutes can all be asked for at once.                       *)
FullWindows == {Today, W(0, 1), W(1, 2), W(2, 3)}
OneRequest == {R(Today, Task, {})}
=============================================================================
