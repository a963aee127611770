------------------------------ MODULE Planner ------------------------------
(***************************************************************************)
(* The scheduling heuristic: build_preview lays the pending tasks of one   *)
(* request out on a grid of minutes, and inspect_layout checks a layout    *)
(* that somebody wants to save against the same hard constraints.          *)
(*                                                                         *)
(* The calculation is sequential; its steps are the turns of its loops, so *)
(* that what holds between them can be stated.  All times are minutes from *)
(* the start of the horizon.  The soft preferences only rank the slots one *)
(* search finds, so a search here may return any of them; the pause and    *)
(* the focus length decide what a search looks for, and are modelled.      *)
(***************************************************************************)
EXTENDS Integers, FiniteSets

CONSTANTS
    Request,        \* preview requests with the tasks they select
    Size,           \* minutes of the horizon
    DayLength,      \* minutes of its first day
    MaxBlocks,      \* MAX_BLOCKS
    Budget,         \* MAX_CANDIDATES: slots one preview may rank
    Delay           \* half minutes that may pass before the day is planned again

(* Task ids are numbers, in the order of their text.  A deadline after the *)
(* horizon stands for no deadline.  The clock counts half minutes, because *)
(* now need not be a whole minute.  The previous blocks are a family, so   *)
(* that one block may be sent twice; what they are indexed by is arbitrary. *)
Task == Nat \ {0}
TaskRecord == [minutes : Nat \ {0}, splittable : BOOLEAN, earliest : Int, deadline : Int,
               priority : 1..10, pending : BOOLEAN]
Block == [task : Task, start : Int, end : Int, locked : BOOLEAN]
Window == [start : Int, end : Int]

ASSUME SizeAssumption == Size \in Nat \ {0} /\ DayLength \in 1..Size
ASSUME PlannerLimits == MaxBlocks \in Nat \ {0} /\ Budget \in Nat
ASSUME DelayAssumption == Delay \subseteq Nat

(* What the contract of a preview admits, with the rows of its tasks.      *)
PreviewRequest(r) ==
    /\ DOMAIN r = {"halfMinute", "tasks", "availability", "events", "previous", "focus", "pause"}
    /\ r.halfMinute \in Int
    /\ DOMAIN r.tasks \subseteq Task /\ IsFiniteSet(DOMAIN r.tasks)
    /\ \A t \in DOMAIN r.tasks : r.tasks[t] \in TaskRecord
    /\ r.availability \subseteq Window /\ IsFiniteSet(r.availability)
    /\ r.events \subseteq Window /\ IsFiniteSet(r.events)
    /\ \A w \in r.availability \cup r.events : w.start < w.end
    /\ IsFiniteSet(DOMAIN r.previous) /\ Cardinality(DOMAIN r.previous) <= MaxBlocks
    /\ r.previous \in [DOMAIN r.previous -> Block]
    /\ \A i \in DOMAIN r.previous : /\ r.previous[i].task \in DOMAIN r.tasks
                                    /\ r.previous[i].start < r.previous[i].end
    /\ r.focus \in Nat \ {0} /\ r.pause \in Nat

ASSUME RequestAssumption == \A r \in Request : PreviewRequest(r)

VARIABLES
    request,        \* the request and the snapshot of its tasks
    phase,          \* "prepare", "locks", "keep", "place", "done" or "refused"
    todo,           \* tasks the loop of this phase has still to treat
    blocks,         \* blocks reserved so far
    pieces,         \* pieces of the task being placed, not reserved yet
    budget,         \* slots that may still be ranked
    unscheduled,    \* [task, remaining] of the tasks given up
    replanned,      \* this run plans again what an earlier one returned
    first           \* history variable: the blocks that earlier run returned

vars == <<request, phase, todo, blocks, pieces, budget, unscheduled, replanned, first>>

----------------------------------------------------------------------------
(* The grid.                                                               *)

Tasks == DOMAIN request.tasks
Pending == {t \in Tasks : request.tasks[t].pending}

Length(w) == w.end - w.start
Minutes(w) == w.start..(w.end - 1)

(* The minutes of several blocks together: a minute counts once for every  *)
(* block it is in.                                                         *)
Total(ws) == Cardinality(UNION {{w} \X Minutes(w) : w \in ws})
Apart(v, w) == v.end <= w.start \/ w.end <= v.start

InHorizon(minute) == IF minute < 0 THEN 0 ELSE IF minute > Size THEN Size ELSE minute

(* The first minute that starts at or after now, within the horizon.  The  *)
(* variant with a defect still offers the minute that has begun.           *)
FloorDown == InHorizon(request.halfMinute \div 2)
Floor == InHorizon((request.halfMinute + 1) \div 2)

Clip(w) == [start |-> InHorizon(w.start), end |-> InHorizon(w.end)]
Events == {Clip(w) : w \in request.events}

(* The minutes offered and not taken by a fixed event.                     *)
Available(floor) ==
    {m \in floor..(Size - 1) : /\ \E w \in request.availability : m \in Minutes(w)
                               /\ \A e \in Events : m \notin Minutes(e)}

(* free_mask: the minutes that keep a pause to everything taken.           *)
Free(floor, taken, pause) ==
    {m \in Available(floor) :
        \A w \in taken \cup Events : m < w.start - pause \/ m >= w.end + pause}

Earliest(t, floor) ==
    LET wish == request.tasks[t].earliest IN InHorizon(IF wish > floor THEN wish ELSE floor)
Latest(t) == InHorizon(request.tasks[t].deadline)

(* valid_block                                                             *)
ValidBlock(b, floor, free) ==
    /\ Earliest(b.task, floor) <= b.start
    /\ b.end <= Latest(b.task)
    /\ Minutes(b) \subseteq free

(* order: by deadline, then priority, then id.                             *)
Before(s, t) ==
    LET due(u) == IF request.tasks[u].deadline < Size THEN request.tasks[u].deadline ELSE Size
        rank(u) == request.tasks[u].priority
    IN  \/ due(s) < due(t)
        \/ due(s) = due(t) /\ rank(s) > rank(t)
        \/ due(s) = due(t) /\ rank(s) = rank(t) /\ s < t

Turn(t) == t \in todo /\ \A s \in todo \ {t} : Before(t, s)

----------------------------------------------------------------------------
(* Checks on the blocks of earlier layouts.                                *)

Previous(t) == {i \in DOMAIN request.previous : request.previous[i].task = t}
Locks(t) == {i \in Previous(t) : request.previous[i].locked}
PreviousMinutes(S) == Cardinality(UNION {{i} \X Minutes(request.previous[i]) : i \in S})

(* Variant with a defect: locked pieces must make up the whole task.       *)
LockFitsWhole(t) ==
    Locks(t) # {} => PreviousMinutes(Locks(t)) = request.tasks[t].minutes

(* The lock of a task fits its duration and may be one of several pieces.  *)
LockFits(t) ==
    LET task == request.tasks[t]
        minutes == PreviousMinutes(Locks(t))
    IN  /\ minutes <= task.minutes
        /\ Locks(t) # {} /\ ~task.splittable =>
              Cardinality(Locks(t)) = 1 /\ minutes = task.minutes

(* The locks of all pending tasks stand where they can stand.              *)
LocksFit ==
    LET locks == UNION {Locks(t) : t \in Pending}
        free == Free(Floor, {}, 0)
    IN  /\ \A t \in Pending : LockFits(t)
        /\ \A i \in locks : ValidBlock(request.previous[i], Floor, free)
        /\ \A i, j \in locks : i = j \/ Apart(request.previous[i], request.previous[j])

(* The previous blocks of a task make up the whole task.                   *)
WholePlacement(t) ==
    LET task == request.tasks[t]
    IN  /\ PreviousMinutes(Previous(t)) = task.minutes
        /\ task.splittable \/ Cardinality(Previous(t)) = 1

(* inspect_layout: the layout would be accepted as one of locked blocks,   *)
(* whatever has started: it is checked from the horizon's start.           *)
Inspect(layout) ==
    LET own(t) == {b \in layout : b.task = t}
    IN  /\ \A b \in layout : b.task \in Pending /\ ValidBlock(b, 0, Free(0, {}, 0))
        /\ \A b, c \in layout : b = c \/ Apart(b, c)
        /\ \A t \in Pending :
              /\ Total(own(t)) <= request.tasks[t].minutes
              /\ own(t) # {} /\ ~request.tasks[t].splittable =>
                    Cardinality(own(t)) = 1 /\ Total(own(t)) = request.tasks[t].minutes
        /\ Cardinality(layout) <= MaxBlocks

----------------------------------------------------------------------------
(* Placing new work.                                                       *)

Own(t) == {b \in blocks : b.task = t}
Requested(t) == request.tasks[t].minutes - Total(Own(t))
Remaining(t) == Requested(t) - Total(pieces)

(* How long one piece may be; what is not splittable goes as a whole.      *)
Lengths(t) ==
    IF request.tasks[t].splittable
    THEN {n \in 1..request.focus : n <= Remaining(t)}
    ELSE {Remaining(t)}

SlotsIn(t, free) ==
    {w \in [start : Earliest(t, Floor)..Size, end : 0..Latest(t)] :
        Length(w) \in Lengths(t) /\ Minutes(w) \subseteq free}

(* Variant with a defect: the pieces just found are not in the way.        *)
FittingOverPieces(t, pause) ==
    LET free == Free(Floor, blocks, pause) IN SlotsIn(t, free)

Fitting(t, pause) ==
    LET free == Free(Floor, blocks \cup pieces, pause) IN SlotsIn(t, free)

(* find_slot ranks the longest slots that keep the pause, and slots next   *)
(* to something else only if there are none.                               *)
Slots(t) ==
    LET apart == Fitting(t, request.pause)
        found == IF apart # {} THEN apart ELSE Fitting(t, 0)
    IN  {w \in found : \A v \in found : Length(v) <= Length(w)}

Full == Cardinality(blocks) + Cardinality(pieces) >= MaxBlocks

Exhausted(t) == ~Full /\ Cardinality(Slots(t)) > budget

----------------------------------------------------------------------------
(* What the request must be before anything is planned.                    *)
Acceptable ==
    /\ request.halfMinute < 2 * DayLength
    /\ \A w \in request.availability : 0 <= w.start /\ w.end <= Size
    /\ \A e \in Events : e.start < e.end
    /\ \A v, w \in request.events : v = w \/ Apart(Clip(v), Clip(w))

Prepare ==
    /\ phase = "prepare"
    /\ phase' = IF Acceptable THEN "locks" ELSE "refused"
    /\ UNCHANGED <<request, todo, blocks, pieces, budget, unscheduled, replanned, first>>

(* Locks are reserved before anything that can be moved.                   *)
ReserveLocks ==
    /\ phase = "locks"
    /\ IF LocksFit
       THEN /\ blocks' = {request.previous[i] : i \in UNION {Locks(t) : t \in Pending}}
            /\ phase' = "keep"
            /\ todo' = Pending
       ELSE /\ phase' = "refused"
            /\ UNCHANGED <<blocks, todo>>
    /\ UNCHANGED <<request, pieces, budget, unscheduled, replanned, first>>

(* Variant with a defect: a kept placement must also keep the pause, which *)
(* is a wish and no constraint.                                            *)
KeepWithPause(t) ==
    LET movable == {request.previous[i] : i \in Previous(t) \ Locks(t)}
        free == Free(Floor, blocks, request.pause)
    IN  /\ phase = "keep" /\ Turn(t)
        /\ todo' = todo \ {t}
        /\ blocks' = IF WholePlacement(t) /\ \A b \in movable : ValidBlock(b, Floor, free)
                     THEN blocks \cup movable ELSE blocks
        /\ UNCHANGED <<request, phase, pieces, budget, unscheduled, replanned, first>>

(* A placement that makes up the whole task and still fits stays.          *)
Keep(t) ==
    LET movable == {request.previous[i] : i \in Previous(t) \ Locks(t)}
        free == Free(Floor, blocks, 0)
        fits == /\ \A b \in movable : ValidBlock(b, Floor, free)
                /\ \A i, j \in Previous(t) \ Locks(t) :
                      i = j \/ Apart(request.previous[i], request.previous[j])
    IN  /\ phase = "keep"
        /\ Turn(t)
        /\ todo' = todo \ {t}
        /\ blocks' = IF WholePlacement(t) /\ fits THEN blocks \cup movable ELSE blocks
        /\ UNCHANGED <<request, phase, pieces, budget, unscheduled, replanned, first>>

StartPlacing ==
    /\ phase = "keep" /\ todo = {}
    /\ phase' = "place"
    /\ todo' = Pending
    /\ UNCHANGED <<request, blocks, pieces, budget, unscheduled, replanned, first>>

AddPiece(t) ==
    /\ phase = "place" /\ Turn(t)
    /\ Remaining(t) > 0
    /\ ~Full /\ ~Exhausted(t)
    /\ \E w \in Slots(t) :
          pieces' = pieces \cup {[task |-> t, start |-> w.start, end |-> w.end, locked |-> FALSE]}
    /\ budget' = budget - Cardinality(Slots(t))
    /\ UNCHANGED <<request, phase, todo, blocks, unscheduled, replanned, first>>

(* The pieces of one task are committed together ...                       *)
Reserve(t) ==
    /\ phase = "place" /\ Turn(t)
    /\ Remaining(t) = 0
    /\ blocks' = blocks \cup pieces
    /\ pieces' = {}
    /\ todo' = todo \ {t}
    /\ UNCHANGED <<request, phase, budget, unscheduled, replanned, first>>

(* Variant with a defect: a search that finds nothing is repeated.         *)
GiveUpAtLimits(t) ==
    /\ phase = "place" /\ Turn(t)
    /\ Remaining(t) > 0
    /\ Full \/ Exhausted(t)
    /\ unscheduled' = unscheduled \cup {[task |-> t, remaining |-> Requested(t)]}
    /\ budget' = IF Exhausted(t) THEN 0 ELSE budget
    /\ pieces' = {}
    /\ todo' = todo \ {t}
    /\ UNCHANGED <<request, phase, blocks, replanned, first>>

(* ... or not at all; the variant with a defect commits what it found.     *)
GiveUpPartly(t) ==
    /\ phase = "place" /\ Turn(t)
    /\ Remaining(t) > 0
    /\ Full \/ Slots(t) = {} \/ Exhausted(t)
    /\ unscheduled' = unscheduled \cup {[task |-> t, remaining |-> Requested(t)]}
    /\ blocks' = blocks \cup pieces
    /\ budget' = IF Exhausted(t) THEN 0 ELSE budget
    /\ pieces' = {}
    /\ todo' = todo \ {t}
    /\ UNCHANGED <<request, phase, replanned, first>>

GiveUp(t) ==
    /\ phase = "place" /\ Turn(t)
    /\ Remaining(t) > 0
    /\ Full \/ Slots(t) = {} \/ Exhausted(t)
    /\ unscheduled' = unscheduled \cup {[task |-> t, remaining |-> Requested(t)]}
    /\ budget' = IF Exhausted(t) THEN 0 ELSE budget
    /\ pieces' = {}
    /\ todo' = todo \ {t}
    /\ UNCHANGED <<request, phase, blocks, replanned, first>>

Return ==
    /\ phase = "place" /\ todo = {}
    /\ phase' = "done"
    /\ UNCHANGED <<request, todo, blocks, pieces, budget, unscheduled, replanned, first>>

(* A client keeps its plan by sending the blocks back as previous_blocks,  *)
(* with any of them locked.  That is a new request, with the clock of its  *)
(* own moment; tasks, hours, events and preferences are as they were, for  *)
(* what is planned after they change is a plan of its own.                 *)
Replan(locked, delay) ==
    /\ phase = "done" /\ ~replanned
    /\ locked \subseteq blocks
    /\ request' = [request EXCEPT
          !.halfMinute = @ + delay,
          !.previous = [b \in blocks |-> [b EXCEPT !.locked = b \in locked]]]
    /\ phase' = "prepare"
    /\ blocks' = {} /\ unscheduled' = {} /\ budget' = Budget
    /\ replanned' = TRUE /\ first' = blocks
    /\ UNCHANGED <<todo, pieces>>

----------------------------------------------------------------------------
Init ==
    /\ request \in Request
    /\ phase = "prepare"
    /\ todo = {} /\ blocks = {} /\ pieces = {} /\ unscheduled = {}
    /\ budget = Budget
    /\ replanned = FALSE /\ first = {}

Calculate ==
    \/ Prepare
    \/ ReserveLocks
    \/ \E t \in todo : Keep(t)
    \/ StartPlacing
    \/ \E t \in todo : AddPiece(t) \/ Reserve(t) \/ GiveUp(t)
    \/ Return

Next == Calculate \/ \E locked \in SUBSET blocks, delay \in Delay : Replan(locked, delay)

(* The calculation is one call that runs to its end.                       *)
Spec == Init /\ [][Next]_vars /\ WF_vars(Calculate)

----------------------------------------------------------------------------
(* The two judges of a layout agree: whatever build_preview returns,       *)
(* inspect_layout accepts, so a fresh preview can be saved as it is.       *)
PreviewCanBeSaved == phase = "done" => Inspect(blocks)

(* No block of a preview starts before now: the save that follows would    *)
(* refuse it as a new block in the past.                                   *)
NothingBeforeNow ==
    \A b \in blocks \cup pieces : 2 * b.start >= request.halfMinute

(* A task is placed whole or not at all: it is reported once with all that *)
(* is missing from its duration, or, when nothing is missing, not at all;  *)
(* and a task that is given up holds no minute beyond its locks.           *)
AllOrNothing ==
    phase = "done" => \A t \in Pending :
        LET given == {u \in unscheduled : u.task = t}
        IN  /\ given = IF Requested(t) = 0 THEN {}
                       ELSE {[task |-> t, remaining |-> Requested(t)]}
            /\ given # {} => \A b \in Own(t) : b.locked

(* New work displaces nothing: a whole earlier placement that meets the    *)
(* hard constraints is lost only to another earlier block that stays.      *)
PreviousFirst ==
    phase = "done" => \A t \in Pending :
        LET old == {request.previous[i] : i \in Previous(t)}
            others == {b \in blocks : \E i \in DOMAIN request.previous :
                                        b = request.previous[i] /\ b.task # t}
        IN  \/ ~WholePlacement(t) \/ old \subseteq blocks
            \/ \E b \in old : ~ValidBlock(b, Floor, Free(Floor, others, 0))
            \/ \E i, j \in Previous(t) : i # j /\ ~Apart(request.previous[i], request.previous[j])

(* A block that now has passed.                                            *)
Begun(b) == 2 * b.start < request.halfMinute

(* What time alone does to a plan that is sent back: the day is over, or a *)
(* block has begun that the client has locked.                             *)
Overtaken ==
    \/ request.halfMinute >= 2 * DayLength
    \/ \E b \in first : request.previous[b].locked /\ Begun(b)

(* Planning again what was returned, at any later moment, is refused just  *)
(* when time has overtaken it, and moves no block the client has locked,   *)
(* nor one of a task that was placed whole and of which nothing has begun: *)
(* the plan does not wander, not even around what has.                     *)
PlanIsStable ==
    replanned =>
        /\ phase = "refused" => Overtaken
        /\ phase = "done" => ~Overtaken
        /\ phase = "done" => \A b \in first :
              \/ \E c \in blocks : c.task = b.task /\ c.start = b.start /\ c.end = b.end
              \/ /\ ~request.previous[b].locked
                 /\ \/ ~WholePlacement(b.task)
                    \/ \E c \in first : c.task = b.task /\ Begun(c)

(* Every preview ends, with an answer or a refusal.                        *)
Terminates == phase = "prepare" ~> phase \in {"done", "refused"}
============================================================================
