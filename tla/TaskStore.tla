----------------------------- MODULE TaskStore -----------------------------
(***************************************************************************)
(* The task and recurrence repositories, statement by statement: several   *)
(* connections work on the rows of one user under READ COMMITTED.  Writes  *)
(* of one row are the last statement of their transaction, so a write and  *)
(* its commit are one step; materialize holds its locks over three steps.  *)
(* A transaction may fail between any two of its statements (a time limit, *)
(* a lost connection, a crash of the server), and a client may repeat any  *)
(* call at any time, also one whose answer it never received.              *)
(***************************************************************************)
EXTENDS TaskRows

CONSTANT Worker     \* the connections that serve calls

ASSUME WorkerAssumption == Worker # {}

Idle == [op |-> "none"]

VARIABLES
    tasks, series,  \* the two tables
    today,          \* the date in the time zone of the recurring activities
    answer,         \* the last answer of each connection
    call,           \* the call each connection serves
    pc,             \* the last statement it has executed
    seen            \* what its transaction has read and is going to use

vars == <<tasks, series, today, answer, call, pc, seen>>

(* update_task keeps the content it is going to write.  The others keep    *)
(* the pattern read with the lock on its row, the occurrences read and     *)
(* locked, and the date; since is a history variable, the date at which    *)
(* the last lock was granted.                                              *)
Nothing == [op |-> "none"]

Live(table, n) == n \in DOMAIN table /\ ~table[n].deleted

(* _check_version, and the version check of get_task's callers.            *)
Expected(table, n, c) == Live(table, n) /\ table[n].version = c.expected

At(w, ops, place) == call[w] # Idle /\ call[w].op \in ops /\ pc[w] = place
Go(w, place) == pc' = [pc EXCEPT ![w] = place] /\ UNCHANGED <<answer, call>>
Keep(w, value) == seen' = [seen EXCEPT ![w] = value]

Return(w, outcome, rows) ==
    /\ answer' = [answer EXCEPT ![w] = [call |-> call[w], outcome |-> outcome, rows |-> rows]]
    /\ call' = [call EXCEPT ![w] = Idle]
    /\ pc' = [pc EXCEPT ![w] = "idle"]
    /\ Keep(w, Nothing)

Refuse(w) ==
    /\ call' = [call EXCEPT ![w] = Idle]
    /\ pc' = [pc EXCEPT ![w] = "idle"]
    /\ Keep(w, Nothing)
    /\ UNCHANGED <<tasks, series, answer>>

(* FOR UPDATE on a series is held from its read, FOR SHARE on its tasks    *)
(* from theirs, to the end of the transaction.                             *)
HoldsSeries(w, s) ==
    call[w] # Idle /\ pc[w] \in {"locked", "listed", "dated"} /\ call[w].series = s
HoldsTask(w, t) == pc[w] \in {"listed", "dated"} /\ t \in seen[w].listed

----------------------------------------------------------------------------
(* Creation: the unique index on the request id decides who inserts.       *)

WithRequest(table, request) == {n \in DOMAIN table : table[n].request = request}

InsertTask(w) ==
    /\ At(w, {"create"}, "begun")
    /\ IF WithRequest(tasks, call[w].request) = {}
       THEN /\ tasks' = Append(tasks, NewTask(call[w]))
            /\ Return(w, "ok", {Len(tasks) + 1})
       ELSE Go(w, "known") /\ UNCHANGED <<tasks, seen>>
    /\ UNCHANGED <<series, today>>

(* Variant with a defect: the repeated call is compared with the task as   *)
(* it is now.                                                              *)
ReplayTaskByContent(w) ==
    /\ At(w, {"create"}, "known")
    /\ \E t \in WithRequest(tasks, call[w].request) :
          IF tasks[t].content # call[w].content THEN Return(w, "conflict", {})
          ELSE Return(w, IF tasks[t].deleted THEN "gone" ELSE "ok", {t})
    /\ UNCHANGED <<tasks, series, today>>

ReplayTask(w) ==
    /\ At(w, {"create"}, "known")
    /\ \E t \in WithRequest(tasks, call[w].request) :
          IF tasks[t].digest # call[w].content THEN Return(w, "conflict", {})
          ELSE Return(w, IF tasks[t].deleted THEN "gone" ELSE "ok", {t})
    /\ UNCHANGED <<tasks, series, today>>

InsertSeries(w) ==
    /\ At(w, {"open"}, "begun")
    /\ IF WithRequest(series, call[w].request) = {}
       THEN /\ series' = Append(series, NewSeries(call[w]))
            /\ Return(w, "ok", {Len(series) + 1})
       ELSE Go(w, "known") /\ UNCHANGED <<series, seen>>
    /\ UNCHANGED <<tasks, today>>

ReplaySeries(w) ==
    /\ At(w, {"open"}, "known")
    /\ \E s \in WithRequest(series, call[w].request) :
          IF series[s].digest # call[w].pattern THEN Return(w, "conflict", {})
          ELSE Return(w, IF series[s].deleted THEN "gone" ELSE "ok", {s})
    /\ UNCHANGED <<tasks, series, today>>

----------------------------------------------------------------------------
(* Edits: read and prepare, then write where the version is still the one. *)

ReadTask(w) ==
    /\ At(w, {"update", "delete"}, "begun")
    /\ LET c == call[w]
           new == Patched(tasks[c.task].content, c)
       IN  IF /\ Expected(tasks, c.task, c)
              /\ c.op = "update" => c.expected < MaxVersion /\ Valid(new)
           THEN /\ Go(w, "read")
                /\ Keep(w, IF c.op = "update" THEN new ELSE Nothing)
                /\ UNCHANGED <<tasks, series>>
           ELSE Refuse(w)
    /\ UNCHANGED today

(* Variant with a defect: the row is written as it was prepared, whatever  *)
(* has happened to it since.                                               *)
UpdateTaskBlindly(w) ==
    LET c == call[w]
    IN  /\ At(w, {"update"}, "read")
        /\ \A v \in Worker \ {w} : ~HoldsTask(v, c.task)
        /\ IF tasks[c.task].version < MaxVersion
           THEN /\ tasks' = [tasks EXCEPT ![c.task].content = seen[w],
                                          ![c.task].version = @ + 1]
                /\ Return(w, "ok", {c.task})
                /\ UNCHANGED series
           ELSE Refuse(w)
        /\ UNCHANGED today

UpdateTask(w) ==
    LET c == call[w]
    IN  /\ At(w, {"update"}, "read")
        /\ \A v \in Worker \ {w} : ~HoldsTask(v, c.task)
        /\ IF Expected(tasks, c.task, c)
           THEN /\ tasks' = [tasks EXCEPT ![c.task].content = seen[w],
                                          ![c.task].version = @ + 1]
                /\ Return(w, "ok", {c.task})
                /\ UNCHANGED series
           ELSE Refuse(w)
        /\ UNCHANGED today

(* At the largest version the database refuses to count on.                *)
DeleteTask(w) ==
    LET c == call[w]
    IN  /\ At(w, {"delete"}, "read")
        /\ \A v \in Worker \ {w} : ~HoldsTask(v, c.task)
        /\ IF Expected(tasks, c.task, c) /\ c.expected < MaxVersion
           THEN /\ tasks' = [tasks EXCEPT ![c.task].deleted = TRUE, ![c.task].version = @ + 1]
                /\ Return(w, "ok", {c.task})
                /\ UNCHANGED series
           ELSE Refuse(w)
        /\ UNCHANGED today

----------------------------------------------------------------------------
(* Recurring activities.                                                   *)

(* Variant with a defect: the row is read without FOR UPDATE.              *)
LockSeriesNot(w) ==
    /\ At(w, {"replace", "drop", "materialize"}, "begun")
    /\ LET c == call[w]
       IN  IF Expected(series, c.series, c) /\ (c.op # "materialize" => c.expected < MaxVersion)
           THEN /\ Go(w, "locked")
                /\ Keep(w, [pattern |-> series[c.series].pattern, listed |-> {},
                            asOf |-> 0, since |-> today])
                /\ UNCHANGED <<tasks, series>>
           ELSE Refuse(w)
    /\ UNCHANGED today

LockSeries(w) ==
    /\ At(w, {"replace", "drop", "materialize"}, "begun")
    /\ \A v \in Worker \ {w} : ~HoldsSeries(v, call[w].series)
    /\ LET c == call[w]
       IN  IF Expected(series, c.series, c) /\ (c.op # "materialize" => c.expected < MaxVersion)
           THEN /\ Go(w, "locked")
                /\ Keep(w, [pattern |-> series[c.series].pattern, listed |-> {},
                            asOf |-> 0, since |-> today])
                /\ UNCHANGED <<tasks, series>>
           ELSE Refuse(w)
    /\ UNCHANGED today

ReplaceSeries(w) ==
    LET c == call[w]
    IN  /\ At(w, {"replace"}, "locked")
        /\ series' = [series EXCEPT ![c.series].pattern = c.pattern, ![c.series].version = @ + 1]
        /\ Return(w, "ok", {c.series})
        /\ UNCHANGED <<tasks, today>>

DeleteSeries(w) ==
    LET c == call[w]
    IN  /\ At(w, {"drop"}, "locked")
        /\ series' = [series EXCEPT ![c.series].deleted = TRUE, ![c.series].version = @ + 1]
        /\ Return(w, "ok", {c.series})
        /\ UNCHANGED <<tasks, today>>

InWindow(c) == {t \in DOMAIN tasks : tasks[t].series = c.series /\ tasks[t].day \in Window(c)}

(* Variant with a defect: deleted occurrences are not listed.              *)
ListOccurrencesLive(w) ==
    /\ At(w, {"materialize"}, "locked")
    /\ seen' = [seen EXCEPT ![w].listed = {t \in InWindow(call[w]) : ~tasks[t].deleted},
                           ![w].since = today]
    /\ Go(w, "listed")
    /\ UNCHANGED <<tasks, series, today>>

ListOccurrences(w) ==
    /\ At(w, {"materialize"}, "locked")
    /\ seen' = [seen EXCEPT ![w].listed = InWindow(call[w]), ![w].since = today]
    /\ Go(w, "listed")
    /\ UNCHANGED <<tasks, series, today>>

CaptureToday(w) ==
    /\ At(w, {"materialize"}, "listed")
    /\ seen' = [seen EXCEPT ![w].asOf = today]
    /\ Go(w, "dated")
    /\ UNCHANGED <<tasks, series, today>>

(* Variant with a defect: days that are over are filled in as well.        *)
NewDatesPast(w) ==
    {d \in OccurrenceDates(seen[w].pattern, Window(call[w])) : \A t \in seen[w].listed : tasks[t].day # d}
NewDates(w) ==
    {d \in OccurrenceDates(seen[w].pattern, Window(call[w])) :
        d >= seen[w].asOf /\ \A t \in seen[w].listed : tasks[t].day # d}

(* Variant with a defect: days that cannot be planned are left out.        *)
InsertOccurrencesPartly(w) ==
    LET new == NewDates(w) \ Missing
    IN  /\ At(w, {"materialize"}, "dated")
        /\ tasks' = tasks \o Occurrences(call[w].series, seen[w].pattern, new)
        /\ Return(w, "ok", {t \in seen[w].listed : ~tasks[t].deleted}
                           \cup (Len(tasks) + 1)..(Len(tasks) + Cardinality(new)))
        /\ UNCHANGED <<series, today>>

(* All rows in one statement, or none if one of the days cannot be.        *)
InsertOccurrences(w) ==
    LET new == NewDates(w)
    IN  /\ At(w, {"materialize"}, "dated")
        /\ IF new \cap Missing = {}
           THEN /\ tasks' = tasks \o Occurrences(call[w].series, seen[w].pattern, new)
                /\ Return(w, "ok", {t \in seen[w].listed : ~tasks[t].deleted}
                                   \cup (Len(tasks) + 1)..(Len(tasks) + Cardinality(new)))
                /\ UNCHANGED series
           ELSE Refuse(w)
        /\ UNCHANGED today

----------------------------------------------------------------------------
Begin(w) ==
    /\ call[w] = Idle
    /\ \E c \in Call : call' = [call EXCEPT ![w] = c]
    /\ pc' = [pc EXCEPT ![w] = "begun"]
    /\ answer' = [answer EXCEPT ![w] = NoAnswer]
    /\ UNCHANGED <<tasks, series, today, seen>>

(* What has not been committed is rolled back and its locks are released.  *)
Abort(w) == call[w] # Idle /\ Refuse(w) /\ UNCHANGED today

Midnight ==
    /\ today + 1 \in Day
    /\ today' = today + 1
    /\ UNCHANGED <<tasks, series, answer, call, pc, seen>>

Init ==
    /\ tasks = <<>> /\ series = <<>>
    /\ today \in Day
    /\ answer = [w \in Worker |-> NoAnswer]
    /\ call = [w \in Worker |-> Idle]
    /\ pc = [w \in Worker |-> "idle"]
    /\ seen = [w \in Worker |-> Nothing]

Step(w) ==
    \/ InsertTask(w) \/ ReplayTask(w) \/ InsertSeries(w) \/ ReplaySeries(w)
    \/ ReadTask(w) \/ UpdateTask(w) \/ DeleteTask(w)
    \/ LockSeries(w) \/ ReplaceSeries(w) \/ DeleteSeries(w)
    \/ ListOccurrences(w) \/ CaptureToday(w) \/ InsertOccurrences(w)

Next == Midnight \/ \E w \in Worker : Begin(w) \/ Step(w) \/ Abort(w)

Spec == Init /\ [][Next]_vars

----------------------------------------------------------------------------
(* One task for each day of a recurring activity, deleted ones included:   *)
(* concurrent materialize calls never meet the unique constraint of the    *)
(* table, and no deleted occurrence comes back.                            *)
OneOccurrencePerDay ==
    \A s, t \in DOMAIN tasks :
        tasks[s].series # NoSeries /\ tasks[s].series = tasks[t].series
            /\ tasks[s].day = tasks[t].day => s = t

(* No accepted edit is lost or built on an older row: a row changes only   *)
(* by the call of one connection that named its version, to the content    *)
(* that call makes of the content stored; it counts one version up, and    *)
(* nothing happens to a deleted row.                                       *)
EditsApplyToCurrent ==
    [][\A t \in DOMAIN tasks : tasks'[t] # tasks[t] =>
          /\ ~tasks[t].deleted
          /\ \E w \in Worker :
                LET c == call[w]
                    old == tasks[t]
                IN  /\ c # Idle /\ c.op \in {"update", "delete"}
                    /\ c.task = t /\ c.expected = old.version
                    /\ tasks'[t] = IF c.op = "update"
                                   THEN [old EXCEPT !.content = Patched(old.content, c),
                                                    !.version = @ + 1]
                                   ELSE [old EXCEPT !.deleted = TRUE, !.version = @ + 1]]_vars

(* A new occurrence is one that the pattern stored at that instant calls   *)
(* for, says what that pattern says, and is not of a deleted activity; and *)
(* a call that waited for its locks over midnight makes none for a day     *)
(* that was over when it got them.                                         *)
OccurrencesFollowPattern ==
    [][\A t \in DOMAIN tasks' \ DOMAIN tasks :
          LET new == tasks'[t]
          IN  new.series # NoSeries =>
                /\ Live(series, new.series)
                /\ new.content = series[new.series].pattern.content
                /\ new.day \in OccurrenceDates(series[new.series].pattern, {new.day})
                /\ \E w \in Worker : pc[w] = "dated" /\ seen[w].since <= new.day]_vars

(* An answered materialize is complete: every day of its window that the   *)
(* pattern selects, from the date it read on, has its task or its          *)
(* tombstone, and the answer names exactly the live ones of the window.    *)
MaterializeIsComplete ==
    [][\A w \in Worker : (pc[w] = "dated" /\ pc'[w] = "idle" /\ answer'[w].outcome = "ok") =>
          LET c == call[w]
              mine == {t \in DOMAIN tasks' : tasks'[t].series = c.series
                                               /\ tasks'[t].day \in Window(c)}
          IN  /\ \A d \in OccurrenceDates(series[c.series].pattern, Window(c)) :
                    d < seen[w].asOf \/ \E t \in mine : tasks'[t].day = d
              /\ answer'[w].rows = {t \in mine : ~tasks'[t].deleted}]_vars

(* The interleaved statements do what the book of atomic calls does, so    *)
(* that a creation sent twice, because its answer was lost, names the same *)
(* row in every answer, however often it was edited in between.            *)
Book == INSTANCE TaskBook
BookKept == Book!BookSpec
=============================================================================
