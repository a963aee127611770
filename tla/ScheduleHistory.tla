-------------------------- MODULE ScheduleHistory --------------------------
(***************************************************************************)
(* The saved schedules of one account: layouts, bounded undo/redo history, *)
(* allocations and durable request receipts.                               *)
(*                                                                         *)
(* Every command on schedules runs in one database transaction that first  *)
(* locks the account's row, so at this level a command is one atomic step. *)
(* A command that any check refuses rolls back and is no step at all; so   *)
(* is the replay of a command whose receipt exists.  The tables are sets   *)
(* of rows, or functions from the ids of the rows that exist.              *)
(*                                                                         *)
(* The availability windows and the fixed events of a layout are chosen by *)
(* the request that carries the layout and are compared with nothing else, *)
(* so the requests below are those whose blocks already fit them.          *)
(***************************************************************************)
EXTENDS Integers, FiniteSets, FiniteSetsExt

CONSTANTS
    Task,           \* the account's tasks
    Schedule,       \* ids a new schedule may be given
    RequestId,      \* client_request_id values
    Shape,          \* what a task's owner can set: duration, splittable, bounds
    Horizon,        \* planning windows a client asks for: whole local days
    Layout,         \* sets of blocks a client submits
    DayLength,      \* minutes of a day
    LastMinute,     \* the clock stops here (bound of the exploration)
    HistoryLimit,   \* revisions kept per schedule
    VersionLimit,   \* the last version a schedule can have
    SourceLimit     \* the last version of a task or of the preferences

VARIABLES
    schedules,      \* table schedules: id -> [version, current, horizon]
    history,        \* table schedule_versions: rows [schedule, revision, state]
    allocations,    \* table schedule_allocations: rows [task, schedule]
    commands,       \* table schedule_commands: rows [id, digest, schedule, applied]
    tasks,          \* table tasks: id -> [version, pending, deleted, shape]
    preferences,    \* user_preferences.version
    now,            \* the server's clock
    begun           \* history variable: [schedule, key] of every block that was
                    \* in its schedule's layout when the clock passed its start

vars == <<schedules, history, allocations, commands, tasks, preferences, now, begun>>

----------------------------------------------------------------------------
Block == [task : Task, start : Nat, end : Nat, locked : BOOLEAN]

(* SavedState: the task versions of the tasks that are not selected are 0. *)
SavedState == [blocks : SUBSET Block, horizon : Horizon,
               taskVersions : [Task -> Nat], preferenceVersion : Nat]

(* What a client can ask to save: any layout, with source versions it may  *)
(* have read at any earlier time.                                          *)
Candidate ==
    [blocks : Layout, horizon : Horizon,
     taskVersions : [Task -> 0..SourceLimit], preferenceVersion : 1..SourceLimit]

(* command_digest: equal exactly when operation, target and request are.   *)
Digest == [op : {"create"}, data : SavedState]
          \cup [op : {"replace"}, schedule : Schedule, expected : Nat, data : SavedState]
          \cup [op : {"undo", "redo"}, schedule : Schedule, expected : Nat]

ASSUME TimeAssumption == DayLength \in Nat \ {0} /\ LastMinute \in Nat
ASSUME LimitAssumption == /\ HistoryLimit \in Nat \ {0}
                          /\ VersionLimit \in Nat \ {0}
                          /\ SourceLimit \in Nat \ {0}
ASSUME ShapeAssumption ==
    Shape \subseteq [minutes : Nat, splittable : BOOLEAN, earliest : Nat, deadline : Nat]
ASSUME HorizonAssumption == Horizon \subseteq [start : Nat, end : Nat]
ASSUME LayoutAssumption == Layout \subseteq SUBSET Block

TypeOK ==
    /\ DOMAIN schedules \subseteq Schedule
    /\ schedules \in [DOMAIN schedules ->
                        [version : 1..VersionLimit, current : Nat, horizon : Horizon]]
    /\ history \subseteq [schedule : Schedule, revision : Nat, state : SavedState]
    /\ allocations \subseteq [task : Task, schedule : Schedule]
    /\ commands \subseteq [id : RequestId, digest : Digest, schedule : Schedule, applied : Nat]
    /\ tasks \in [Task -> [version : 1..SourceLimit, pending : BOOLEAN,
                           deleted : BOOLEAN, shape : Shape]]
    /\ preferences \in 1..SourceLimit
    /\ now \in 0..LastMinute
    /\ begun \subseteq [schedule : Schedule, key : [task : Task, start : Nat, end : Nat]]

----------------------------------------------------------------------------
(* Reading the tables.                                                     *)

Key(b) == [task |-> b.task, start |-> b.start, end |-> b.end]
Keys(blocks) == {Key(b) : b \in blocks}

Rows(s) == {h \in history : h.schedule = s}
Revisions(s) == {h.revision : h \in Rows(s)}
CurrentRow(s) == CHOOSE h \in Rows(s) : h.revision = schedules[s].current
CurrentState(s) == CurrentRow(s).state

Selected(state) == {t \in Task : state.taskVersions[t] # 0}
Scheduled(state) == {b.task : b \in state.blocks}
Active(t) == tasks[t].pending /\ ~tasks[t].deleted

(* SourceStatus: what _view reports, and what _sources refuses to save.    *)
Fresh(state) ==
    /\ state.preferenceVersion = preferences
    /\ \A t \in Selected(state) : /\ ~tasks[t].deleted
                                  /\ tasks[t].version = state.taskVersions[t]

----------------------------------------------------------------------------
(* The checks of a command.                                                *)

Minutes(blocks) == MapThenSumSet(LAMBDA b : b.end - b.start, blocks)

(* The hard constraints on the blocks of one task.                         *)
FitsTask(blocks, t) ==
    LET own == {b \in blocks : b.task = t}
        shape == tasks[t].shape
    IN  /\ \A b \in own : shape.earliest <= b.start /\ b.end <= shape.deadline
        /\ Minutes(own) <= shape.minutes
        /\ (~shape.splittable /\ own # {}) =>
              Cardinality(own) = 1 /\ Minutes(own) = shape.minutes

(* inspect_layout: every block belongs to a pending selected task, lies in *)
(* the horizon, fits its task and overlaps no other block.                 *)
ValidLayout(state) ==
    /\ \A b \in state.blocks : /\ b.task \in Selected(state)
                               /\ tasks[b.task].pending
                               /\ state.horizon.start <= b.start
                               /\ b.start < b.end
                               /\ b.end <= state.horizon.end
    /\ \A t \in Scheduled(state) : FitsTask(state.blocks, t)
    /\ \A a, b \in state.blocks : a = b \/ a.end <= b.start \/ b.end <= a.start

(* Variants with a defect: a lock is no protection; a block may be put into *)
(* the past.                                                               *)
ProtectStartedOnly(previous, candidate) ==
    /\ \A b \in previous : Active(b.task) /\ b.start < now => Key(b) \in Keys(candidate)
    /\ \A b \in candidate : b.start < now => Key(b) \in Keys(previous)

ProtectAllowingBackdating(previous, candidate) ==
    \A b \in previous : Active(b.task) /\ (b.locked \/ b.start < now) => Key(b) \in Keys(candidate)

(* protect_placements: locked and started blocks of active tasks keep their *)
(* place, and no block is new in the past.                                 *)
ProtectPlacements(previous, candidate) ==
    /\ \A b \in previous :
          Active(b.task) /\ (b.locked \/ b.start < now) => Key(b) \in Keys(candidate)
    /\ \A b \in candidate : b.start < now => Key(b) \in Keys(previous)

Validate(candidate, previous) ==
    /\ Fresh(candidate)
    /\ ProtectPlacements(previous, candidate.blocks)
    /\ ValidLayout(candidate)

(* Variant with a defect: the other schedules are not looked at.           *)
UnallocatedUnchecked(s, state) == s \in Schedule /\ state \in SavedState

Unallocated(s, state) ==
    \A a \in allocations : a.task \in Scheduled(state) => a.schedule = s

(* Variant with a defect: a receipt is looked up by id and digest, so an id *)
(* can be used again for another request.                                  *)
UnusedAlways(id) == id \in RequestId

Unused(id) == \A c \in commands : c.id # id

(* Variant with a defect: a new horizon may enclose an old one.            *)
ApartByStart(g, h) == ~(h.start <= g.start /\ g.start < h.end)

Apart(g, h) == h.start >= g.end \/ h.end <= g.start

(* _next_version: the client edits the version it read.  The variant with  *)
(* a defect lets the last version be changed once more.                    *)
NextVersionPastLimit(s, expected) ==
    schedules[s].version = expected /\ expected <= VersionLimit

NextVersion(s, expected) ==
    schedules[s].version = expected /\ expected < VersionLimit

Today == now - (now % DayLength)

----------------------------------------------------------------------------
(* What a command writes once its checks have passed.                      *)

Allocate(s, state) ==
    allocations' = {a \in allocations : a.schedule # s}
                   \cup [task : Scheduled(state), schedule : {s}]

Finish(s, id, digest, version) ==
    commands' = commands \cup
        {[id |-> id, digest |-> digest, schedule |-> s, applied |-> version]}

(* A stored revision has the number of the version it was made as.  The    *)
(* variant with a defect numbers it after the revision it was edited from. *)
RevisionAfterCurrent(s, expected, state) ==
    [schedule |-> s, revision |-> schedules[s].current + 1, state |-> state]

Revision(s, expected, state) ==
    [schedule |-> s, revision |-> expected + 1, state |-> state]

(* Variant with a defect: an undo or redo keeps the version.               *)
SetHeaderOfEdit(s, version, current) ==
    schedules' = [schedules EXCEPT ![s].version = IF current = version THEN version ELSE @,
                                   ![s].current = current]

SetHeader(s, version, current) ==
    schedules' = [schedules EXCEPT ![s].version = version, ![s].current = current]

(* Variants with a defect: the oldest revisions stay; one too many stays.  *)
TrimNewest(rows, s) ==
    {h \in rows : h.schedule = s =>
        Cardinality({g \in rows : g.schedule = s /\ g.revision < h.revision}) < HistoryLimit}

TrimLate(rows, s) ==
    {h \in rows : h.schedule = s =>
        Cardinality({g \in rows : g.schedule = s /\ g.revision > h.revision}) <= HistoryLimit}

(* The HistoryLimit greatest revisions of schedule s; other schedules keep *)
(* all of theirs.                                                          *)
Trim(rows, s) ==
    {h \in rows : h.schedule = s =>
        Cardinality({g \in rows : g.schedule = s /\ g.revision > h.revision}) < HistoryLimit}

----------------------------------------------------------------------------
Create(s, id) ==
    /\ s \notin DOMAIN schedules
    /\ Unused(id)
    /\ \E state \in Candidate :
          /\ state.horizon.start >= Today
          /\ Validate(state, {})
          /\ \A o \in DOMAIN schedules : Apart(state.horizon, schedules[o].horizon)
          /\ Unallocated(s, state)
          /\ schedules' = [x \in DOMAIN schedules \cup {s} |->
                IF x = s THEN [version |-> 1, current |-> 1, horizon |-> state.horizon]
                         ELSE schedules[x]]
          /\ history' = history \cup {[schedule |-> s, revision |-> 1, state |-> state]}
          /\ Allocate(s, state)
          /\ Finish(s, id, [op |-> "create", data |-> state], 1)
    /\ UNCHANGED <<tasks, preferences, now, begun>>

(* An edit: it forgets the revisions an undo had stepped back over.        *)
Kept(s) == {h \in history : h.schedule = s => h.revision <= schedules[s].current}

Replace(s, id, expected) ==
    /\ s \in DOMAIN schedules
    /\ Unused(id)
    /\ NextVersion(s, expected)
    /\ \E state \in Candidate :
          /\ state.horizon = CurrentState(s).horizon
          /\ Validate(state, CurrentState(s).blocks)
          /\ Unallocated(s, state)
          /\ Allocate(s, state)
          /\ history' = Trim(Kept(s) \cup {Revision(s, expected, state)}, s)
          /\ Finish(s, id, [op |-> "replace", schedule |-> s, expected |-> expected,
                            data |-> state], expected + 1)
    /\ SetHeader(s, expected + 1, expected + 1)
    /\ UNCHANGED <<tasks, preferences, now, begun>>

(* Variant with a defect: an undo goes back to the oldest revision.        *)
UndoToOldest(s, h) ==
    /\ h.revision < schedules[s].current
    /\ \A g \in Rows(s) : g.revision >= h.revision

(* The revision an undo or a redo goes to: the nearest one on that side.   *)
UndoTarget(s, h) ==
    /\ h.revision < schedules[s].current
    /\ \A g \in Rows(s) : g.revision < schedules[s].current => g.revision <= h.revision

RedoTarget(s, h) ==
    /\ h.revision > schedules[s].current
    /\ \A g \in Rows(s) : g.revision > schedules[s].current => g.revision >= h.revision

Travel(s, id, expected, direction) ==
    /\ s \in DOMAIN schedules
    /\ Unused(id)
    /\ NextVersion(s, expected)
    /\ \E target \in Rows(s) :
          /\ IF direction = "undo" THEN UndoTarget(s, target) ELSE RedoTarget(s, target)
          /\ target.state.horizon = CurrentState(s).horizon
          /\ Validate(target.state, CurrentState(s).blocks)
          /\ Unallocated(s, target.state)
          /\ Allocate(s, target.state)
          /\ SetHeader(s, expected + 1, target.revision)
    /\ Finish(s, id, [op |-> direction, schedule |-> s, expected |-> expected], expected + 1)
    /\ UNCHANGED <<history, tasks, preferences, now, begun>>

----------------------------------------------------------------------------
(* The rest of the account changes independently of its schedules.         *)

(* Variant with a defect: a change of status alone keeps the version.      *)
UpdateTaskQuietly(t, pending, shape) ==
    /\ ~tasks[t].deleted
    /\ tasks[t].version < SourceLimit
    /\ tasks' = [tasks EXCEPT ![t] =
          [version |-> IF shape = @.shape THEN @.version ELSE @.version + 1,
           pending |-> pending, deleted |-> FALSE, shape |-> shape]]
    /\ UNCHANGED <<schedules, history, allocations, commands, preferences, now, begun>>

UpdateTask(t, pending, shape) ==
    /\ ~tasks[t].deleted
    /\ tasks[t].version < SourceLimit
    /\ tasks' = [tasks EXCEPT ![t] = [version |-> @.version + 1, pending |-> pending,
                                      deleted |-> FALSE, shape |-> shape]]
    /\ UNCHANGED <<schedules, history, allocations, commands, preferences, now, begun>>

DeleteTask(t) ==
    /\ ~tasks[t].deleted
    /\ tasks[t].version < SourceLimit
    /\ tasks' = [tasks EXCEPT ![t].version = @ + 1, ![t].deleted = TRUE]
    /\ UNCHANGED <<schedules, history, allocations, commands, preferences, now, begun>>

UpdatePreferences ==
    /\ preferences < SourceLimit
    /\ preferences' = preferences + 1
    /\ UNCHANGED <<schedules, history, allocations, commands, tasks, now, begun>>

(* Time passes by any amount: a block starts when the clock passes it.     *)
Tick(minute) ==
    /\ now < minute
    /\ now' = minute
    /\ begun' = begun \cup
          UNION {{[schedule |-> s, key |-> Key(b)] :
                     b \in {c \in CurrentState(s).blocks : now <= c.start /\ c.start < minute}} :
                 s \in DOMAIN schedules}
    /\ UNCHANGED <<schedules, history, allocations, commands, tasks, preferences>>

----------------------------------------------------------------------------
Init ==
    /\ schedules = [s \in {} |-> [version |-> 1, current |-> 1]]
    /\ history = {}
    /\ allocations = {}
    /\ commands = {}
    /\ tasks \in [Task -> [version : {1}, pending : {TRUE}, deleted : {FALSE}, shape : Shape]]
    /\ preferences = 1
    /\ now = 0
    /\ begun = {}

Next ==
    \/ \E s \in Schedule, id \in RequestId : Create(s, id)
    \/ \E s \in Schedule, id \in RequestId, expected \in 1..VersionLimit :
          \/ Replace(s, id, expected)
          \/ \E direction \in {"undo", "redo"} : Travel(s, id, expected, direction)
    \/ \E t \in Task, pending \in BOOLEAN, shape \in Shape : UpdateTask(t, pending, shape)
    \/ \E t \in Task : DeleteTask(t)
    \/ UpdatePreferences
    \/ \E minute \in 0..LastMinute : Tick(minute)

Spec == Init /\ [][Next]_vars

----------------------------------------------------------------------------
(* Invariants.                                                             *)

(* The header always points at a stored revision, no revision is stored    *)
(* twice, and each one was made at or before the schedule's version:       *)
(* trimming and the cut of the redo branch in replace never remove the     *)
(* revision they leave current.                                            *)
CurrentIsStored ==
    /\ \A s \in DOMAIN schedules : schedules[s].current \in Revisions(s)
    /\ \A h \in history : /\ h.schedule \in DOMAIN schedules
                          /\ h.revision \in 1..schedules[h.schedule].version
    /\ \A g, h \in history :
          g.schedule = h.schedule /\ g.revision = h.revision => g = h

(* The history of a schedule never outgrows HISTORY_LIMIT, however edits,  *)
(* undos and redos are mixed.                                              *)
HistoryBounded ==
    \A s \in Schedule : Cardinality(Rows(s)) <= HistoryLimit

(* Receipts number a schedule's versions: every version was made by exactly *)
(* one accepted request, and an id names one request, so a retried request *)
(* can neither be applied twice nor be reported with another's version.    *)
OneReceiptPerVersion ==
    /\ \A c \in commands : /\ c.schedule \in DOMAIN schedules
                           /\ c.applied \in 1..schedules[c.schedule].version
    /\ \A s \in DOMAIN schedules : \A v \in 1..schedules[s].version :
          \E c \in commands : c.schedule = s /\ c.applied = v
    /\ \A c, d \in commands :
          c.id = d.id \/ (c.schedule = d.schedule /\ c.applied = d.applied) => c = d

(* Undo and redo can only bring back what a client once sent: each stored  *)
(* revision is the state carried by the create or replace request that     *)
(* made the version of the same number.                                    *)
HistoryWasSent ==
    \A h \in history : \E c \in commands :
        /\ c.schedule = h.schedule
        /\ c.applied = h.revision
        /\ c.digest.op \in {"create", "replace"}
        /\ c.digest.data = h.state

(* A schedule that _view does not report as stale still satisfies every    *)
(* hard constraint of the live tasks: no edit, completion or deletion of a *)
(* task escapes the comparison of versions.                                *)
FreshMeansValid ==
    \A s \in DOMAIN schedules : Fresh(CurrentState(s)) => ValidLayout(CurrentState(s))

(* schedule_allocations holds exactly the tasks of the current layouts, and *)
(* no task is laid out by two schedules, whichever of them travels through *)
(* its history.                                                            *)
OnePlanPerTask ==
    /\ allocations = {a \in [task : Task, schedule : DOMAIN schedules] :
                         a.task \in Scheduled(CurrentState(a.schedule))}
    /\ \A a, b \in allocations : a.task = b.task => a = b

(* The horizons of two schedules are apart, and no revision of a schedule  *)
(* lies in another horizon than its header's.                              *)
HorizonsApart ==
    /\ \A r, s \in DOMAIN schedules : r = s \/ Apart(schedules[r].horizon, schedules[s].horizon)
    /\ \A h \in history : h.state.horizon = schedules[h.schedule].horizon

(* A layout never rewrites the past: a block that lies before the clock    *)
(* was in this schedule's layout when the clock passed its start, also     *)
(* after an undo or redo to a revision made at another time.               *)
HonestPast ==
    \A s \in DOMAIN schedules : \A b \in CurrentState(s).blocks :
        b.start < now => [schedule |-> s, key |-> Key(b)] \in begun

----------------------------------------------------------------------------
(* Action properties: what no step may do.                                 *)

(* The version is a sound optimistic token: a schedule is never removed,   *)
(* its version never goes back, and while the version stands still so do   *)
(* the header and the history the client read under it.                    *)
VersionIsToken ==
    [][\A s \in DOMAIN schedules :
          /\ s \in DOMAIN schedules'
          /\ schedules'[s].version >= schedules[s].version
          /\ schedules'[s].version = schedules[s].version =>
                schedules'[s] = schedules[s] /\ Rows(s)' = Rows(s)]_vars

(* Undo and redo are inverse: a step to a stored revision keeps every      *)
(* revision and passes over none, so the opposite command leads straight   *)
(* back to the one just left.                                              *)
UndoRedoInverse ==
    [][\A s \in DOMAIN schedules :
          LET from == schedules[s].current
              to == schedules'[s].current
          IN  to \in Revisions(s) =>
                 /\ Rows(s)' = Rows(s)
                 /\ \A r \in Revisions(s) : ~(to < r /\ r < from) /\ ~(from < r /\ r < to)]_vars

(* No command moves or drops a locked or started block of a task that is   *)
(* still to be done: unlocking is a change of its own.                     *)
ProtectedBlocksStay ==
    [][\A s \in DOMAIN schedules : \A b \in CurrentState(s).blocks :
          Active(b.task) /\ (b.locked \/ b.start < now) =>
              Key(b) \in Keys(CurrentState(s)'.blocks)]_vars
============================================================================
