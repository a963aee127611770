# Formal model of SmartPlanner

SmartPlanner is a planner for one person's day or week. A FastAPI server keeps
tasks, recurring activities, fixed events, preferences and saved schedules in
PostgreSQL or SQLite; a heuristic lays pending tasks out on a grid of minutes;
a browser client shows a preview, saves it, edits it and travels through its
history. The TLA+ modules here describe the parts of that program whose
correctness depends on the order of things: transactions and retries, versions
and histories, clocks, limits, and the agreement of the two places that judge a
layout. Paths are relative to the repository; `sm/` stands for
`src/smartplanner/`.

## 1. Inventory

| Component | State | Operations | What makes it correct |
| --- | --- | --- | --- |
| **Schedule store** `sm/schedule_repository.py` | `schedules` (version, current revision, horizon), `schedule_versions` (at most 20 states each), `schedule_allocations` (task to schedule), `schedule_commands` (receipts) | create, replace, undo, redo; get, list, history only read | one receipt per version; bounded history that always holds the current state and only states a client sent; undo and redo inverse; a task in at most one layout; disjoint horizons; locked and started blocks protected; the past not rewritten; no stale source accepted |
| **Planner** `sm/scheduler.py` | none between calls; within a call the reserved blocks, the pieces of the task at hand, the search budget | `build_preview`, `inspect_layout` | hard constraints hold; what is previewed can be saved; tasks placed whole or not at all; earlier placements kept; ends within its limits |
| **Tasks** `sm/repository.py`, `sm/task_changes.py` | `tasks`: content, version, deletion mark, request id and digest | create (idempotent), patch, delete (soft) | retries agree; no lost update; no change of deleted rows; the stored whole stays valid |
| **Recurring activities** `sm/recurrence_repository.py`, `sm/recurrence.py` | `recurring_activities`; its occurrences are rows of `tasks` with a day | create, replace, delete, materialize 1 or 7 days | one task per day including deleted ones; the pattern of that instant; nothing in the past; all or none |
| **Preferences** `sm/repository.py` | one versioned row per user | get, put | version token; saved schedules notice changes |
| **Fixed events** `sm/fixed_event_repository.py` | versioned rows, really deleted | create, replace, delete, list | versions; previews see the events of their horizon |
| **HTTP layer** `sm/api.py` | two planning slots per process | one synchronous handler per route, one connection per request | slots returned; answers only after commit; changes only with the CSRF token of the session |
| **Accounts and sessions** `sm/accounts.py`, `sm/repository.py` | `users`, `sessions`; per-process attempt limiter and two hashing slots | register, login, logout, session lookup | unique e-mail; expired sessions refused; bounded attempts and a bounded table; slots returned; a change reaches the account its page shows |
| **Database access** `sm/database.py`, `sm/sqlite_store.py` | connections, transactions, row locks | begin, commit, roll back; time limits of 3 s and 10 s | atomicity; locks released |
| **Backup and migration** `sm/backup.py`, `sm/migrate.py`, `scripts/start_*.py` | database files with their WAL; `schema_migrations`; an advisory lock | backup, verify, restore, migrate, start | never overwrites; a verified copy or none; each file applied once; only a complete schema is served |
| **Web client** `sm/web/app.js` | `state`: account, saved schedule, preview and its input; open forms | refresh, preview, save, edit a block, undo, redo, open | what is drawn, the forms and the version a command names belong together; no unseen version replaced |
| **Settings and CI** `sm/settings.py`, workflows | none | read once | - |
| **Tests and documentation** | none | - | read for what they expect |

How they interact. The client calls the HTTP layer; each call gets its own
connection. A preview reads tasks and preferences in one snapshot, then stored
events, and calls the planner outside any transaction; it saves nothing. A save
sends the layout with the versions of everything it was made from. The schedule
store locks the account row, looks for a receipt, compares the version, locks
the preferences and tasks it depends on, reads the clock, has the planner's
`inspect_layout` judge the layout, and writes four tables. Recurring activities
write into `tasks`; `tasks` and preferences know nothing of schedules, which
only notice that versions have moved on.

What is hard: repeated and reordered requests; two connections on one account;
the clock passing blocks while locks are awaited; a history whose numbers have
gaps; undo into states whose tasks have changed since; days that do not exist;
midnight between two statements; the limits of versions, history and search;
pages that share a cookie; answers that arrive in another order than their
calls; tools that are killed half way.
`PROJECT.json` lists these under `hazards`, each at its line, with the
properties that would catch it.

## 2. Modules

```
ScheduleHistory ── ScheduleHistory_proofs          (atomic commands; theorems)
      ▲  ▲
      │  └─ MCScheduleHistory: edit_history, share_tasks
ScheduleTx ── ScheduleTx_proofs; MCScheduleTx: tx
      (refines ScheduleHistory)
TaskRows ── TaskBook (abstract) ◄─refines─ TaskStore ── TaskStore_proofs; MCTaskStore: tasks
Planner ── Planner_proofs; MCPlanner: planner
Preview ── Preview_proofs; MCPreview: preview, many_events, event_after_preview
Accounts ── Accounts_proofs; MCAccounts: accounts
WebClient ── WebClient_proofs; MCWebClient: web_client
      └─ RefreshAdvice: refresh_stale
Storage ── Storage_proofs; MCStorage: storage
```

A definition that is described as a *variant with a defect* in its comment is
not part of any specification. It is the same definition with a plausible bug,
kept to show that the property named next to it in `PROJECT.json` (`mutants`)
would notice that bug.

### ScheduleHistory: saved schedules as atomic commands

The tables are sets of rows, or functions from the ids of the rows that exist.
`Create`, `Replace` and `Travel` are the commands of `ScheduleRepository`, each
one step, because each runs in a transaction that begins by locking the account
row; the comparison of source versions (`Fresh`), `ProtectPlacements`,
`ValidLayout` (what `inspect_layout` requires), the search for other
allocations and horizons, and all writes are part of the step. A refused
command and a replayed one change no table and are no step. `UpdateTask`,
`DeleteTask`, `UpdatePreferences` and `Tick` are the environment; `begun`
records which blocks were in place when the clock passed them.

A client can send any layout with any source versions at any time. Left out:
availability windows and fixed events, which travel with the layout and are
compared with nothing else (the layouts are those that fit theirs); titles;
the reports of `_view` apart from staleness. The set of tasks is fixed: creation
of tasks adds nothing to a schedule's obligations, deletion is modelled.

### ScheduleTx: the same commands lock by lock

`ScheduleTx` extends `ScheduleHistory` with connections. A command takes the
steps of the code: `LockOwner`, `Lookup` (receipt, version, target of an undo),
`LockPreferences`, `LockTasks` (row after row, in the order of ids), `Check`
(reads the clock, then validates), `CommitCreate`/`CommitReplace`/
`CommitTravel` or `Conflict`. Between any two of them other connections work,
tasks and preferences are patched where no lock forbids it, time passes, and the
transaction may `Abort`. Requests come from a fixed set and are sent again and
again, so retries, reused ids and doubled clicks are all behaviours.

`Atomic == INSTANCE ScheduleHistory WITH now <- sampled` is the refinement: the
transactions implement the atomic commands *as of the moment a command reads
the clock*. That moment, and not the commit, is the right one: a block may start
between the two, and the code does not notice. The account lock keeps `sampled`
monotone between commands.

The model follows PostgreSQL. The SQLite store opens every transaction with
`BEGIN IMMEDIATE`, which excludes all other writers, so its behaviours are
among those modelled.

### TaskRows, TaskBook, TaskStore: tasks and recurring activities

`TaskRows` holds the rows, the calls and the pure functions: validity of a
task's window, `prepare_task_change`, `occurrence_dates`. `TaskBook` is the
abstract specification: every answered call took effect at one instant.
`TaskStore` is the code statement by statement at READ COMMITTED: the insert with
`ON CONFLICT DO NOTHING` and the select that follows it, the read and the
conditional `UPDATE` of an edit, and `materialize` in four steps (lock the
series; list and lock the occurrences; read the date; insert). `Abort` is
possible between any two statements, `Midnight` at any time, and a client may
repeat any call whether or not it saw the answer. `BookKept` says that the
detailed module implements the abstract one.

A task's content is its duration and the room its window leaves, which is what
validation relates. `Missing` stands for days that do not exist in the time zone
or are too short. A write that is the last statement of its transaction is one
step with its commit. Deleting a task at the largest version is refused by
PostgreSQL's integer range; the SQLite store would accept it, which no later
call could tell, as the row is deleted.

### Planner: the heuristic and the judge

The calculation is sequential. Its steps are the turns of its loops, so that
what holds between them can be stated: `Prepare`, `ReserveLocks`, `Keep` one
task's earlier placement, `AddPiece`, `Reserve` or `GiveUp` a task, `Return`.
`Replan` is the client that sends the answer's blocks back as `previous_blocks`,
with any of them locked, at once or after any `Delay`: the second preview is a
new request with the clock of its own moment. Its tasks, hours, events and
preferences are those of the first. That is a restriction of the model, and it
is what the stability of a plan can be about: `PlanIsStable` says what time alone
does to a plan, which is to have it refused when the day is over or a locked
block has begun, and to move the tasks that have begun and no others. What is
planned after a task, an event or an hour has changed is covered by `Request`,
whose requests come with arbitrary earlier blocks, and by `PreviousFirst`.
`Inspect` is `inspect_layout`. The score that ranks
slots only chooses among the longest ones a search finds, so the model may take
any of them: what is checked holds for every score. The pause and the focus
length decide *what* is searched and are modelled, and so is the count of ranked
slots against the budget. The clock counts half minutes, to tell a `now` inside
a minute from one at its start.

Time zones are not modelled: a horizon is its number of minutes. The sums of
durations (`Total`, `PreviousMinutes`) are written as sizes of sets with one
element per minute of each block, which is the same number and can be reasoned
about without induction.

### Preview: what a preview is made from

`Preview` is the route around the planner: `Begin` takes a slot or is refused,
`ReadPreferences` takes the snapshot of the REPEATABLE READ transaction that
`ReadTasks` reads from, `ReadEvents` is the separate statement for stored
events, `Plan` is `build_preview` with the slot's return. Between any two of
them tasks and preferences are patched or deleted and events are created,
replaced and deleted; a statement may `Fail`, and the process may `Restart`.
The planner is reduced to what it promises (blocks in minutes that no event of
the request takes), because `Planner` is about how it finds them. `Save` is the
part of a save that concerns sources and events. `since` and `kept` are history
variables: the sources there have been, and the events that stayed as they
were, since a request began. SQLite would hold its write lock over
`planning_inputs`, which allows fewer of these behaviours.

### Accounts: sessions, the limiter and the hashing slots

The pages of one browser share the cookie (`jar`); each keeps the account it
shows and its CSRF token (`page`). A page waits for one request at a time, whose
handler goes through `stage`: `CheckLimit` is `AuthLimiter.check` under its
lock, with the clock it read before (line 112); `ReadAccount` is the look-up of
a login, which precedes `TakeSlot` and `Hash` (`Passwords.run`, where hashing
may fail or the password be wrong); `Register` and `CreateSession` are
the transactions; `Serve` is `current_user` with the CSRF check, after which a
`Logout` deletes the session in a transaction of its own. `Show`,
`EnterRegistered` and `Close` are `app.js`; `Lose` is an answer that never comes.
A token stands for its digests; that digests of different tokens differ is
assumed. `passed` is a history variable: which attempts the limiter let through.

Simplified: the answer of a login sets the cookie and the page in one step,
which is what a page does that is alone in hearing it; `session_hours` and the
limiter's minute are a few ticks.

### WebClient: the planning page

`saved`, `preview`, `input`, `saveForm` and `blockForm` are `state` and the
forms as drawn; `calls` are the `fetch`es under way, which are served and heard
in any order, lost, or served although nobody listens any more (`unheard`).
Only a call that changes the server can be `unheard`, for a read that nobody hears
leaves no trace; and a call that is served no longer says what it was about, which
no handler looks at.
`SetSaved` is `setSaved` with `renderPreview` and `renderSaved`; `RenderPreview`
decides whether the form of a first save is open. The server answers as
`ScheduleHistory` does (version, sources, layout, horizon, in this order); a
horizon is one `Day`, all tasks and preferences are one `source`, and whether a
layout passes is a free choice. A schedule is shown with its `stale`, as `_view`
computes it from the sources of that moment. `Elsewhere` is every other client.

`RefreshAdvice` extends the page with one history variable, `advice`. `PlanOn`
records the schedule of the day that was open and shown as stale when the button
was pressed, with the advice to build a fresh one beside it; `HearPreviewOn` and
`SaveOn` hand the record on to the preview and to its save. All other steps are
those of `WebClient`. So a creation can be told that follows the advice from one
that merely overlaps another page's schedule.

### Storage: files, schema versions and the tools

A database is its applied migrations, the number of its last commit, and how
much of that has left the WAL (`flushed`). `migrate` takes the advisory lock of
PostgreSQL (`Lock`), reads what is applied (`ReadVersions`) and applies file
after file in a transaction each (`Apply`); SQLite gets its schema under one
number. `backup` and `restore` are `CheckCopy`, `Create` (`open("xb")`), `Copy`
(the online backup), `VerifyCopy`, with `FailCopy` for the clean-up in the
`except`. `start_dev` migrates and serves, `StartProd` serves what is current.
`Kill` ends any tool between two steps, so that no clean-up runs; the
application may stop with commits that only the WAL holds. As the repository's
README asks, a restore runs alone: with the application stopped, in a container
of its own. What an earlier tool has left behind may be there. Damage within a file (`quick_check`) is not modelled.

## 3. Runs

| Run | Question | Instance |
| --- | --- | --- |
| `edit_history` | Do history, receipts and protection survive every mix of edits, undos and redos? | one schedule, one task in four layouts (two places, locked, absent), six requests, history of 3, versions to 5, two minutes |
| `share_tasks` | Can two schedules ever hold one task or overlap? Does "not stale" imply "still valid"? | two schedules, two tasks that take two shapes and every status, three horizons, four layouts of which each fits some shapes, four requests, history of 2, source versions to 2 |
| `tx` | Are checks still true at the commit; do all answers agree; are the transactions the atomic commands; is each answered or refused? | two connections, five requests of every kind with one reused id, two schedules that want one task, source versions to 2, two minutes, under fairness |
| `tasks` | Are edits and retries atomic? Are occurrences unique, current and complete? | two connections; either one task with two fields of two values, or one activity with four patterns, three dates, one missing day and a week of three days; versions to 3 |
| `planner` | Is a preview valid, honest, whole, stable, and does it end? | six minutes; two tasks (whole or splittable, with and without a later earliest start or a deadline, one perhaps done), a gap, an event, eight earlier layouts; three splittable tasks against 4 blocks and 14 ranked slots; requests to be refused; two calls, the second at once or one and a half minutes later |
| `preview` | Does a preview avoid the stored events? Were the versions in it ever current together? Is every slot returned? | two connections on one slot, one event in three windows of which one crosses midnight, today and tomorrow, at most 2 events, one task and the preferences with two versions each |
| `accounts` | Do slots come back, is the limiter bounded and just, and does a change reach the account its page shows? | two pages, three e-mail addresses of which two are registered, two addresses, one attempt in two ticks, a limiter of one entry, one hashing slot, two sessions |
| `web_client` | Do layout, forms and version stay those of one schedule, and is no unseen version replaced? | two days, two calls at a time, schedule versions to 3, source versions to 2 |
| `storage` | Is a reported copy whole, is nothing lost, is only a complete schema served? | three tools at a time, two backup files, three migrations, two commits, both kinds of database |
| `many_events` | *Violated:* does a preview avoid them all? | three events that fill a day, at most 2 read |
| `event_after_preview` | *Violated:* does a save respect them? | one event, one connection |
| `refresh_stale` | *Violated:* can a stale schedule be planned anew as the page says? | one day, one call at a time, versions and sources to 2 |

Why the bounds are enough. The history limit of 3 with versions to 5 lets
trimming meet a cut redo branch with gaps in the numbers, which needs two undos
and two edits; more versions repeat these shapes. The protections compare one
block with the clock and with one other layout, so one task in two places,
locked and unlocked, shows every case; the interplay of two tasks and two
schedules is in `share_tasks`. Two connections suffice where a lock or a version
admits one winner (a third would only wait or lose). A week of three days has a
first, a middle and a last day, one of which is missing or past. In six minutes
two tasks and an event can block each other in every order. A delay
of 0 or 3 half minutes leaves a plan as it is or begins some of its blocks; for
requests of the last minute it ends the day.

`OneKind`, the constraint of `tasks`, keeps a single task and an activity out of
one behaviour: no statement of the one reads or locks rows of the other.
In `accounts`, an allowance of one and a table of one entry make every attempt
a case at the limit, with one client inside and one outside the table; its
`Delay` (no relation to that of `planner`)
bounds how late an attempt may reach the lock and appears in
`AttemptsBounded`, as the code promises no more than that. `Lifetime` and `Window`
are two ticks, so that a session and an entry can expire and be followed by
another; `TokenLimit` allows the second session that a shared cookie needs. In
`web_client` two calls at a time are what it takes for one answer to overtake
another, and three versions to have an older, a current and a newer one. In
`storage`, three tools let two migrations or two backups race while a third one
copies, to one file or to two; three migrations have a first, a middle and a
last file, and of two commits one can be in a copy and the other not.

Three runs are expected to be violated and state findings (`PROJECT.json`,
`findings`). `many_events`: `planning_events` reads at most 100 events, so the
check that refuses more than 100 (`sm/api.py:246`) never sees a 101st, which is
left out of the plan without a word, although the page says that stored events
are taken into account automatically (`sm/web/index.html:96`). The limit is 2
in the instance; only its being reached matters. `event_after_preview`: a save
checks the events it carries and not the stored ones, although decision 1 of
`docs/SmartPlanner_Step_05.md` has it check the layout with the account's actual
data; in the trace the stored event is moved onto a block between preview and
save, and a new event would do as well. `FewStoredAreKept` is what the code does promise. `refresh_stale`: when
the sources of an open schedule change, the page advises to plan it anew
(`sm/web/app.js:174`); doing so drops the old schedule from the page, so that the
new layout can only be saved as a second schedule of the same horizon, which the
server refuses. `AdviceCanBeFollowed` speaks only of a save whose preview was
asked for while the stale schedule of that day was open on this page, whose
sources are current, and whose old schedule nobody has touched since; the trace
opens the schedule as stale, plans, hears the preview and saves. The instance
needs one day and one call.

Hazards without a property (`PROJECT.json`, `hazards`) are four: an empty
database left by a killed restore and then served, a save that pairs new input
with an older preview, a form sent again under a new request id, and a stored
event of a year that no preview can carry. The first two are behaviours of the
models; nothing in the code promises otherwise. The third is the task form, which
is not modelled. The years of the fourth are not modelled either: `Fail` in
`Preview` stands for the exception, and `BusyPlannerRecovers` only says that its
slot comes back, not that such previews ever succeed.

Deadlock is checked for `Preview`, `WebClient` (in `web_client`) and `Storage`.
It is not elsewhere (`CHECK_DEADLOCK FALSE`) because every instance ends in states
where ids, versions, tokens and the clock are used up, and a calculation of
`Planner` ends when it is returned. `CommandsEnd` says that a command gives back
its locks on every way out, so that the next one gets them and ends. It says
nothing of a cycle of waits, which cannot arise in `tx`: commands of an account
are serialized by its row, a patch locks one row, and there is one task. Over
several tasks, commands and `materialize` both lock in the order of ids
(`sm/schedule_repository.py:135`, `sm/recurrence_repository.py:137`); that this
excludes a cycle is by inspection.

Symmetry is used for ids, pages, addresses, tools and connections that no
definition compares or orders, and only in runs without liveness.

## 4. Fairness

* `TxSpec`: weak fairness of `Advance`, since a transaction that can execute its
  next statement does so or is ended by `statement_timeout`; strong fairness of
  `LockOwner`, since PostgreSQL grants a row lock to waiting transactions in
  turn, and one that waits longer than `lock_timeout` is refused (`Abort`, which
  needs no fairness for the property to hold). Nothing is assumed about `Begin`,
  patches or the clock.
* `Preview!FairSpec`: weak fairness of `Handle` for each connection, since a
  handler is synchronous and each statement ends or is ended by its time limit.
  Nothing is assumed about requests, edits, failures or restarts.
* `Planner!Spec`: weak fairness of `Calculate`, since a preview is one
  synchronous call. Nothing is assumed about `Replan`.

The other specifications state safety only and assume no fairness.

## 5. Proofs

`ScheduleHistory_proofs` proves, for every set of tasks, schedules, requests,
shapes, horizons and layouts and all limits that satisfy the named assumptions,
that `ScheduleHistory!Spec` keeps all of its invariants and action properties
(section `theorems` of `PROJECT.json`). The assumptions are only that the limits
are positive, that times are natural numbers and that layouts are sets of
blocks.

The argument is one inductive invariant made of named parts:

* the types, `HorizonsApart` and the allocations mirror the layouts directly;
* `CurrentIsStored` needs that revisions never exceed the schedule's version,
  so that a new revision is greater than all stored ones and survives `Trim`;
* `HistoryBounded` needs that each schedule's rows are finite with distinct
  revisions; then the rows with fewer than `HistoryLimit` greater ones are at
  most `HistoryLimit`, which is a lemma about finite sets of numbers;
* `OneReceiptPerVersion` and `HistoryWasSent` say that receipts cover exactly
  `1..version`, so that the next version has no receipt yet;
* `FreshMeansValid` needs that no stored state names a version above the
  current one of a task, and that a state whose versions are the current ones
  was valid when these versions were made;
* `HonestPast` needs that whatever is in a layout now is in `begun` as soon as
  the clock passes it, and that `ProtectPlacements` admits no other past block.

The action properties follow from the same invariant, one action at a time.

`ScheduleTx_proofs` builds on these theorems: `Past == INSTANCE
ScheduleHistory_proofs WITH now <- sampled` makes them facts about the same
tables as of the last reading of the clock. `TxInv` adds what a transaction may
rely on at each of its steps (`Grounds`: the receipt it did not find, the
version it compared, the preferences and rows it has locked, the outcome of
`Check`), that at most one connection is past the account lock (`OneOwner`),
that answers are stored receipts (`AnswersStored`), and that a stored state
names a version for every task in its layout (`SourcesNamed`), because of which
the rows an undo locks are all those its checks look at. From it follow
`CheckedStaysTrue`, `RepliesAgree` and the refinement `AtomicCommands`: a commit
is the atomic command at the sampled time, a patch or a reading of the clock is
a step of its environment, and every other statement is a stutter.

`TaskStore_proofs` proves all properties of `tasks`. `StoreInv` says that each
activity is locked by at most one connection (`OneLock`) and, for every place a
call may have come to, what it can still rely on (`Relied`): an edit was
prepared from the row of its version, if that is still there; a materialize call
sees the pattern and the occurrences that are stored, for nobody else inserts
occurrences of an activity it has locked. That makes the days it
inserts new ones (`OneOccurrencePerDay`). The refinement mapping of `BookKept`
is the identity on the tables and the answers: each abstract call takes effect
at the statement that writes, materialize at its insert, with the date it read
before, which may be yesterday by then; that is why `TaskBook` lets a call use a
date that has passed.

`Planner_proofs` proves the five safety properties of `planner` for every
request a client may send, every length of the horizon and all limits. `PlInv`
has nine parts. `PlTypes` includes that the search budget never runs below zero.
`Layout` keeps the blocks and the pieces in hand apart, each where work may
stand, and within `MaxBlocks`; `Sizes` bounds what a task owns by its duration,
together with its pieces; `LocksStay`, `Keeping` and `Reported` say which blocks
are there in which phase and who is reported missing what. `PreviousSettled`
is what makes `PreviousFirst` inductive: an earlier placement that was treated
stays or has a reason that lasts, since earlier blocks that were kept are never
taken away. `SentBack` is for `PlanIsStable`: the earlier layout of a second
calculation is the first one's answer, which has all the properties above, so
that only the clock can be such a reason. The lemma `StandsUntilBegun` says so of
one block: where it could stand it can stand at any later moment, until it has
begun. From it, locks are refused only when one has begun, and a whole task of
which nothing has begun is kept in its turn, since the tasks kept before it are
part of the same answer and stand apart from it. That `PreviewCanBeSaved` holds
is then a matter of comparing the judge's conditions with `Layout`, `Sizes` and
`LocksStay`.

Two more theorems are what `Terminates` rests on besides fairness.
`PlannerTurnsAreBounded`: every turn removes an element from a finite set `Left`
(the phases to come, the tasks whose earlier placement is not treated, and for
each task not placed the pieces it may still be given, at most `MaxBlocks`).
`PlannerGoesOn`: until there is an answer, a loop is over or a task has its
turn, because the order of tasks is total and each asks for no less than
nothing. `Replan` starts a calculation anew, once in a behaviour, at any later moment that
`Delay` offers; of `Delay` the proofs assume only that it holds natural numbers.

`Preview_proofs` has three theorems, for all tasks, requests, connections and
limits. `OneSnapshot`: what `ReadPreferences` has taken stays among the
`sources` there have been since the request began, and none of the selected
tasks was deleted in it; `Plan` is the only step that answers, and it copies the
versions from there. `SlotsHeld` (every planning slot is free or with one request
under way) is the safety part of `BusyPlannerRecovers`. `FewStoredAreKept` rests
on a lemma about the ordered, limited read: if a row of the horizon is left out,
then as many rows are read as the limit allows, namely those before the first
one left out. Events without a clash have windows of their own, so an answer
that names fewer windows than the limit was made from a complete read.

`Accounts_proofs` proves all properties of `accounts`. `TypeOK` (every hashing
slot is free or with one handler, the limiter's table is bounded) is a count.
`ChangesReachOwnAccount` needs a fact that no single state names: every token was
made for one account, the same for as long as anything mentions it. The
invariant `Owned` says that there is a function from tokens to accounts with
which the sessions, the pages, the requests under way and the answers agree;
only `CreateSession` extends it, for a token that nothing mentions yet.

`AttemptsBounded` and `RefusedForCause` have an invariant of their own,
`LimiterInv`. `Prompt`: an attempt reaches the lock at most `Delay` after its
clock was read. `Remembered`: an entry counts only attempts since its start, and
the first of them came at most `Delay` after the start, so that a stretch that
begins later misses one. `Carried`: a client whose entry was forgotten has had at
most one allowance less that first attempt in any stretch that is not yet over;
with what the new entry counts this is less than two allowances. A refusal is
then explained by the entries themselves, each of which counts attempts of the
last window.

`WebClient_proofs` proves all three properties of `web_client`. `PageFits` says
that the form of a block shows the saved schedule's version, that the preview is
its layout or the planner's, and that a form for a first save stands over the
planner's; `CallsFit` says that a call under way still names the version whose
block its form showed. Every answer that is heard replaces all of these
together, which is why their order does not matter.

`Storage_proofs` proves all three properties of `storage`. Its invariant: who is
past the advisory lock of PostgreSQL holds it, so that one migration reads and
applies at a time, the versions there are always `1..n`, and what a reader has
left is exactly the rest; in SQLite a reader has at least what is missing; a
file has at most one writer, which created it (`OneWriter`); nothing works
beside a restore; and no copy is behind what its source held when the tool was
started. `NothingIsLost` follows one action at a time: all others write a file
that holds no commits, or write no fewer than it holds.

## 6. What is only model-checked, and what is left out

Every safety property, action property and refinement that a passing run checks
is also a theorem. Only model-checked are the three liveness properties:
`Terminates` (`Planner`), `BusyPlannerRecovers` (`Preview`) and `CommandsEnd`
(`ScheduleTx`). Liveness under fairness needs ENABLED, which the provers at hand
do not reason about, and stays with TLC; `PlannerTurnsAreBounded`,
`PlannerGoesOn` and `PreviewSlotsHeld` prove what of it is safety. The three
runs that are expected to be violated are counterexamples on an instance and
need no proof.

Not modelled, and why:

* settings, CI, `scripts/verify_restart.py`: configuration and checks of the
  deployed program, with no state of their own;
* request validation (`sm/models.py`, `sm/recurrence_models.py`): pure conditions
  on one request; where a model needs them they are the type of its inputs;
* the translation of SQL for SQLite (`sm/sqlite_store.py`): text, whose effect is
  that of the PostgreSQL statement; its `BEGIN IMMEDIATE` allows fewer
  interleavings than those modelled;
* the task, event and recurrence forms of the page, except as changes of the
  sources of a schedule; export, rendering and conversion of times keep no
  state that a property would be about;
* get, list and history routes, which only read.

`PreviewCanBeSaved` is about the layout; a save also requires that fixed events
lie wholly inside the horizon, which a preview does not
(`docs/SmartPlanner_Step_05.md`, decision 2).

## 7. Plan

Done: `ScheduleHistory`, `ScheduleTx`, `TaskRows`/`TaskBook`/`TaskStore`,
`Planner`, `Preview`, `Accounts`, `WebClient` with `RefreshAdvice`, and `Storage`, with theorems for
all their safety properties.

What could come next: request validation (`sm/models.py`) as a module that says
which requests the other modules may receive, and the task form of the page with
its request ids, whose hazard is listed without a property.
