------------------------------ MODULE TaskBook ------------------------------
(***************************************************************************)
(* What the task API promises: every call that is answered took effect at  *)
(* one instant, on the rows as they were at that instant.                  *)
(***************************************************************************)
EXTENDS TaskRows

CONSTANT Worker     \* the connections that serve calls

VARIABLES tasks, series, today, answer

bookVars == <<tasks, series, today, answer>>

Says(w, c, outcome, rows) ==
    answer' = [answer EXCEPT ![w] = [call |-> c, outcome |-> outcome, rows |-> rows]]

(* A call that is refused, or still to be answered, changes nothing.       *)
Unanswered(w) ==
    answer' = [answer EXCEPT ![w] = NoAnswer] /\ UNCHANGED <<tasks, series, today>>

(* Whoever asks with the id of an earlier creation asks about its row.     *)
Repeated(w, c, table, digest) ==
    /\ \E n \in DOMAIN table :
          /\ table[n].request = c.request
          /\ \/ table[n].digest # digest /\ Says(w, c, "conflict", {})
             \/ table[n].digest = digest /\ table[n].deleted /\ Says(w, c, "gone", {n})
             \/ table[n].digest = digest /\ ~table[n].deleted /\ Says(w, c, "ok", {n})
    /\ UNCHANGED <<tasks, series, today>>

New(c, table) == \A n \in DOMAIN table : table[n].request # c.request

Created(w, c) ==
    /\ c.op = "create" /\ New(c, tasks)
    /\ tasks' = Append(tasks, NewTask(c))
    /\ Says(w, c, "ok", {Len(tasks) + 1})
    /\ UNCHANGED <<series, today>>

Opened(w, c) ==
    /\ c.op = "open" /\ New(c, series)
    /\ series' = Append(series, NewSeries(c))
    /\ Says(w, c, "ok", {Len(series) + 1})
    /\ UNCHANGED <<tasks, today>>

Current(table, n, c) ==
    n \in DOMAIN table /\ ~table[n].deleted /\ table[n].version = c.expected

Updated(w, c) ==
    /\ c.op = "update" /\ Current(tasks, c.task, c)
    /\ LET new == Patched(tasks[c.task].content, c)
       IN  Valid(new) /\ tasks' = [tasks EXCEPT ![c.task].content = new, ![c.task].version = @ + 1]
    /\ Says(w, c, "ok", {c.task})
    /\ UNCHANGED <<series, today>>

Deleted(w, c) ==
    /\ c.op = "delete" /\ Current(tasks, c.task, c)
    /\ tasks' = [tasks EXCEPT ![c.task].deleted = TRUE, ![c.task].version = @ + 1]
    /\ Says(w, c, "ok", {c.task})
    /\ UNCHANGED <<series, today>>

Replaced(w, c) ==
    /\ c.op = "replace" /\ Current(series, c.series, c)
    /\ series' = [series EXCEPT ![c.series].pattern = c.pattern, ![c.series].version = @ + 1]
    /\ Says(w, c, "ok", {c.series})
    /\ UNCHANGED <<tasks, today>>

Dropped(w, c) ==
    /\ c.op = "drop" /\ Current(series, c.series, c)
    /\ series' = [series EXCEPT ![c.series].deleted = TRUE, ![c.series].version = @ + 1]
    /\ Says(w, c, "ok", {c.series})
    /\ UNCHANGED <<tasks, today>>

(* Every day of the window that the pattern selects has its one task after *)
(* this, except those that were over at some moment of the call.           *)
Materialized(w, c) ==
    /\ c.op = "materialize" /\ Current(series, c.series, c)
    /\ LET mine == {t \in DOMAIN tasks : tasks[t].series = c.series /\ tasks[t].day \in Window(c)}
           pattern == series[c.series].pattern
       IN  \E asOf \in {d \in Day : d <= today} :
           LET new == {d \in OccurrenceDates(pattern, Window(c)) :
                          d >= asOf /\ \A t \in mine : tasks[t].day # d}
           IN  /\ new \cap Missing = {}
               /\ tasks' = tasks \o Occurrences(c.series, pattern, new)
               /\ Says(w, c, "ok", {t \in mine : ~tasks[t].deleted}
                                     \cup (Len(tasks) + 1)..(Len(tasks) + Cardinality(new)))
    /\ UNCHANGED <<series, today>>

DayPasses == /\ today' \in {d \in Day : d > today}
             /\ UNCHANGED <<tasks, series, answer>>

Answered(w, c) ==
    \/ Unanswered(w)
    \/ c.op = "create" /\ Repeated(w, c, tasks, c.content)
    \/ c.op = "open" /\ Repeated(w, c, series, c.pattern)
    \/ Created(w, c) \/ Opened(w, c) \/ Updated(w, c) \/ Deleted(w, c)
    \/ Replaced(w, c) \/ Dropped(w, c) \/ Materialized(w, c)

BookInit == /\ tasks = <<>> /\ series = <<>>
            /\ today \in Day
            /\ answer = [w \in Worker |-> NoAnswer]

BookNext == DayPasses \/ \E w \in Worker, c \in Call : Answered(w, c)

BookSpec == BookInit /\ [][BookNext]_bookVars
=============================================================================
