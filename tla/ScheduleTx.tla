----------------------------- MODULE ScheduleTx -----------------------------
(***************************************************************************)
(* The transactions behind ScheduleHistory: several connections carry out  *)
(* commands on the schedules of one account, while its tasks are patched,  *)
(* its preferences change and the clock runs.  A command locks the account *)
(* row first, then the preferences and the tasks in the order of their     *)
(* ids, FOR SHARE, reads the clock when it has them all, and writes last.  *)
(* It may fail before its commit; a client that does not hear sends again. *)
(***************************************************************************)
EXTENDS ScheduleHistory

CONSTANTS
    Worker,         \* connections that carry out commands
    Command         \* requests that clients send, and send again

VARIABLES
    owner,          \* the connection that holds the account row, if any
    step,           \* how far each connection's transaction has come
    command,        \* the request it carries out
    held,           \* the tasks it has locked FOR SHARE
    answer,         \* its last answer: [id, digest, schedule, applied]
    sampled         \* the clock as the last command read it

txVars == <<owner, step, command, held, answer, sampled>>
allVars == <<schedules, history, allocations, commands, tasks, preferences, now, begun,
             owner, step, command, held, answer, sampled>>

NoCommand == [op |-> "none"]
NoAnswer == [id |-> "none"]

ASSUME CommandAssumption == \A c \in Command :
    /\ c.id \in RequestId
    /\ c.op \in {"create", "replace", "undo", "redo"}
    /\ c.op \in {"create", "replace"} => c.data \in Candidate
    /\ c.op # "create" => c.schedule \in Schedule /\ c.expected \in 1..VersionLimit

(* What the receipt keeps of a request.                                    *)
DigestOf(c) ==
    CASE c.op = "create" -> [op |-> "create", data |-> c.data]
      [] c.op = "replace" -> [op |-> "replace", schedule |-> c.schedule,
                              expected |-> c.expected, data |-> c.data]
      [] OTHER -> [op |-> c.op, schedule |-> c.schedule, expected |-> c.expected]

Targets(c) == {h \in Rows(c.schedule) :
                  IF c.op = "undo" THEN UndoTarget(c.schedule, h) ELSE RedoTarget(c.schedule, h)}
Target(c) == CHOOSE h \in Targets(c) : TRUE

(* The state to be saved, and the blocks it comes after.                   *)
Data(c) == IF c.op \in {"undo", "redo"} THEN Target(c).state ELSE c.data
Previous(c) == IF c.op = "create" THEN {} ELSE CurrentState(c.schedule).blocks

Wanted(c) ==
    Selected(Data(c)) \cup IF c.op = "create" THEN {} ELSE Selected(CurrentState(c.schedule))

Go(w, place) == step' = [step EXCEPT ![w] = place]

(* Variant with a defect: the account row stays locked.                    *)
ReleaseButOwner(w) ==
    /\ owner' = owner
    /\ step' = [step EXCEPT ![w] = "idle"]
    /\ command' = [command EXCEPT ![w] = NoCommand]
    /\ held' = [held EXCEPT ![w] = {}]

(* The transaction is over and its locks are released.                     *)
Release(w) ==
    /\ owner' = owner \ {w}
    /\ step' = [step EXCEPT ![w] = "idle"]
    /\ command' = [command EXCEPT ![w] = NoCommand]
    /\ held' = [held EXCEPT ![w] = {}]

Refuse(w) ==
    /\ Release(w)
    /\ UNCHANGED <<schedules, history, allocations, commands, tasks, preferences, now, answer>>

Answer(w, s, applied) ==
    answer' = [answer EXCEPT ![w] =
        [id |-> command[w].id, digest |-> DigestOf(command[w]), schedule |-> s,
         applied |-> applied]]

----------------------------------------------------------------------------
Begin(w, c) ==
    /\ step[w] = "idle"
    /\ Go(w, "begun")
    /\ command' = [command EXCEPT ![w] = c]
    /\ answer' = [answer EXCEPT ![w] = NoAnswer]
    /\ UNCHANGED <<vars, owner, held, sampled>>

LockOwner(w) ==
    /\ step[w] = "begun"
    /\ owner = {}
    /\ owner' = {w}
    /\ Go(w, "owner")
    /\ UNCHANGED <<vars, command, held, answer, sampled>>

Receipts(id) == {r \in commands : r.id = id}

(* What _header, _next_version and the search for a target require.        *)
Known(c) == c.op # "create" => c.schedule \in DOMAIN schedules
Admissible(c) ==
    c.op # "create" => /\ c.schedule \in DOMAIN schedules
                       /\ NextVersion(c.schedule, c.expected)
                       /\ c.op # "replace" => Targets(c) # {}

(* Variant with a defect: a repeated request is told the version of now.   *)
AppliedNow(r) == schedules[r.schedule].version
Applied(r) == r.applied

(* A request with a receipt is answered from it, before its version, which *)
(* is old by now, is looked at.                                            *)
Lookup(w) ==
    LET c == command[w]
    IN  /\ step[w] = "owner"
        /\ IF Known(c) /\ Receipts(c.id) # {}
           THEN \E r \in Receipts(c.id) :
                IF r.digest = DigestOf(c)
                THEN /\ Answer(w, r.schedule, Applied(r))
                     /\ Release(w)
                     /\ UNCHANGED vars
                ELSE Refuse(w) /\ UNCHANGED begun
           ELSE IF Admissible(c)
                THEN Go(w, "found") /\ UNCHANGED <<vars, owner, command, held, answer>>
                ELSE Refuse(w) /\ UNCHANGED begun
        /\ UNCHANGED sampled

LockPreferences(w) ==
    /\ step[w] = "found"
    /\ Go(w, "sources")
    /\ UNCHANGED <<vars, owner, command, held, answer, sampled>>

(* Variant with a defect: the tasks are read without FOR SHARE.            *)
ReadTasks(w) ==
    /\ step[w] = "sources"
    /\ Go(w, "tasks")
    /\ UNCHANGED <<vars, owner, command, held, answer, sampled>>

(* One statement that locks row after row.                                 *)
LockTasks(w) ==
    LET missing == Wanted(command[w]) \ held[w]
    IN  /\ step[w] = "sources"
        /\ IF missing = {} THEN Go(w, "tasks") /\ UNCHANGED held
           ELSE held' = [held EXCEPT ![w] = @ \cup {Min(missing)}] /\ UNCHANGED step
        /\ UNCHANGED <<vars, owner, command, answer, sampled>>

(* The clock is read, and with it the blocks that have begun by now.       *)
Sample ==
    /\ sampled' = now
    /\ begun' = begun \cup
          UNION {{[schedule |-> s, key |-> Key(b)] :
                     b \in {c \in CurrentState(s).blocks : sampled <= c.start /\ c.start < now}} :
                 s \in DOMAIN schedules}

Check(w) ==
    LET c == command[w]
    IN  /\ step[w] = "tasks"
        /\ Sample
        /\ IF /\ Validate(Data(c), Previous(c))
              /\ IF c.op = "create" THEN c.data.horizon.start >= Today
                 ELSE Data(c).horizon = CurrentState(c.schedule).horizon
           THEN /\ Go(w, "checked")
                /\ UNCHANGED <<schedules, history, allocations, commands, tasks, preferences,
                               now, owner, command, held, answer>>
           ELSE Refuse(w)

(* The horizons and the tasks of the other schedules are looked at last.   *)
NoConflict(c) ==
    IF c.op = "create"
    THEN /\ \A o \in DOMAIN schedules : Apart(c.data.horizon, schedules[o].horizon)
         /\ \A a \in allocations : a.task \notin Scheduled(c.data)
    ELSE Unallocated(c.schedule, Data(c))

Conflict(w) ==
    step[w] = "checked" /\ ~NoConflict(command[w]) /\ Refuse(w) /\ UNCHANGED <<begun, sampled>>

CommitCreate(w, s) ==
    LET c == command[w]
    IN  /\ step[w] = "checked" /\ c.op = "create"
        /\ NoConflict(c)
        /\ s \notin DOMAIN schedules
        /\ schedules' = [x \in DOMAIN schedules \cup {s} |->
              IF x = s THEN [version |-> 1, current |-> 1, horizon |-> c.data.horizon]
                       ELSE schedules[x]]
        /\ history' = history \cup {[schedule |-> s, revision |-> 1, state |-> c.data]}
        /\ Allocate(s, c.data)
        /\ Finish(s, c.id, DigestOf(c), 1)
        /\ Answer(w, s, 1)
        /\ Release(w)
        /\ UNCHANGED <<tasks, preferences, now, begun, sampled>>

CommitReplace(w) ==
    LET c == command[w]
        s == c.schedule
    IN  /\ step[w] = "checked" /\ c.op = "replace"
        /\ NoConflict(c)
        /\ Allocate(s, c.data)
        /\ history' = Trim(Kept(s) \cup {Revision(s, c.expected, c.data)}, s)
        /\ SetHeader(s, c.expected + 1, c.expected + 1)
        /\ Finish(s, c.id, DigestOf(c), c.expected + 1)
        /\ Answer(w, s, c.expected + 1)
        /\ Release(w)
        /\ UNCHANGED <<tasks, preferences, now, begun, sampled>>

CommitTravel(w) ==
    LET c == command[w]
        s == c.schedule
    IN  /\ step[w] = "checked" /\ c.op \in {"undo", "redo"}
        /\ NoConflict(c)
        /\ Allocate(s, Data(c))
        /\ SetHeader(s, c.expected + 1, Target(c).revision)
        /\ Finish(s, c.id, DigestOf(c), c.expected + 1)
        /\ Answer(w, s, c.expected + 1)
        /\ Release(w)
        /\ UNCHANGED <<history, tasks, preferences, now, begun, sampled>>

(* A time limit, a lost connection, a crash: the transaction rolls back.   *)
Abort(w) == step[w] # "idle" /\ Refuse(w) /\ UNCHANGED <<begun, sampled>>

----------------------------------------------------------------------------
(* Writers of single rows wait for the locks on them.                      *)
PatchTask(t) ==
    /\ \A w \in Worker : t \notin held[w]
    /\ \/ \E pending \in BOOLEAN, shape \in Shape : UpdateTask(t, pending, shape)
       \/ DeleteTask(t)
    /\ UNCHANGED txVars

PatchPreferences ==
    /\ \A w \in Worker : step[w] \notin {"sources", "tasks", "checked"}
    /\ UpdatePreferences
    /\ UNCHANGED txVars

TimePasses ==
    /\ now < LastMinute
    /\ now' = now + 1
    /\ UNCHANGED <<schedules, history, allocations, commands, tasks, preferences, begun, txVars>>

Advance(w) ==
    \/ Lookup(w) \/ LockPreferences(w) \/ LockTasks(w) \/ Check(w)
    \/ CommitReplace(w) \/ CommitTravel(w) \/ Conflict(w)
    \/ \E s \in Schedule : CommitCreate(w, s)

TxInit ==
    /\ Init
    /\ owner = {}
    /\ step = [w \in Worker |-> "idle"]
    /\ command = [w \in Worker |-> NoCommand]
    /\ held = [w \in Worker |-> {}]
    /\ answer = [w \in Worker |-> NoAnswer]
    /\ sampled = now

TxNext ==
    \/ \E w \in Worker : LockOwner(w) \/ Advance(w) \/ Abort(w) \/ \E c \in Command : Begin(w, c)
    \/ \E t \in Task : PatchTask(t)
    \/ PatchPreferences \/ TimePasses

TxSafety == TxInit /\ [][TxNext]_allVars

(* A transaction goes on while it can, and a lock is granted in turn.      *)
TxSpec == /\ TxSafety
          /\ \A w \in Worker : WF_allVars(Advance(w)) /\ SF_allVars(LockOwner(w))

----------------------------------------------------------------------------
(* What a command has checked is still so when it writes: between the      *)
(* check and the commit no task or preference it relies on can change.     *)
CheckedStaysTrue ==
    \A w \in Worker : step[w] = "checked" =>
        LET c == command[w]
        IN  /\ Fresh(Data(c)) /\ ValidLayout(Data(c))
            /\ \A b \in Previous(c) :
                  Active(b.task) /\ b.locked => Key(b) \in Keys(Data(c).blocks)

(* However often a request is sent, also from two connections at once, all *)
(* its answers name the one schedule and the one version it made.          *)
RepliesAgree ==
    \A v, w \in Worker :
        answer[v] # NoAnswer /\ answer[w] # NoAnswer /\ answer[v].id = answer[w].id
            => answer[v] = answer[w]

(* No command waits for ever, whoever else is at work.                     *)
CommandsEnd == \A w \in Worker : step[w] # "idle" ~> step[w] = "idle"

(* The transactions do what the atomic commands of ScheduleHistory do, as  *)
(* of the moment at which each command reads the clock.                    *)
Atomic == INSTANCE ScheduleHistory WITH now <- sampled
AtomicCommands == Atomic!Spec
=============================================================================
