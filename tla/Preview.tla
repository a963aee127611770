------------------------------ MODULE Preview ------------------------------
(***************************************************************************)
(* The route POST /schedules/preview while the account it reads changes:   *)
(* a planning slot is taken, tasks and preferences are read in one         *)
(* REPEATABLE READ transaction, the stored fixed events by a statement     *)
(* after it, and the planner works on the three together.  Fixed events    *)
(* are single versioned statements.  A save judges what it is sent.        *)
(* Times are minutes, windows include their start and not their end.       *)
(***************************************************************************)
EXTENDS Integers, FiniteSets

CONSTANTS
    Task,           \* the tasks of the account, created before
    Event,          \* ids for fixed events; their order is that of ORDER BY
    Worker,         \* the connections that serve previews
    Window,         \* the windows events may have
    Request,        \* horizon, selected tasks and own events of a preview
    Slots,          \* BoundedSemaphore(2) in api.py
    EventLimit,     \* 100, in fixed_event_repository.py and in api.py
    SourceLimit,    \* bound on the versions of tasks and preferences
    VersionLimit    \* bound on the versions of events

ASSUME PreviewAssumption ==
    /\ IsFiniteSet(Event) /\ Event \subseteq Nat
    /\ Window \subseteq {w \in [start : Nat, end : Nat] : w.start < w.end}
    /\ \A r \in Request :
          /\ r \in [horizon : [start : Nat, end : Nat], tasks : SUBSET Task, own : SUBSET Window]
          /\ IsFiniteSet(r.own) /\ Cardinality(r.own) <= EventLimit
    /\ Slots \in Nat \ {0} /\ EventLimit \in Nat \ {0}
    /\ SourceLimit \in Nat /\ VersionLimit \in Nat

None == [answer |-> "none"]

VARIABLES
    sources,    \* versions of the preferences and the tasks; which are deleted
    events,     \* the table fixed_events: id to row
    spent,      \* the ids ever given to an event; uuid4 repeats none
    free,       \* the planning slots not taken
    request,    \* the request each connection serves
    pc,         \* the last statement it has executed for it
    read,       \* what these statements returned
    shown,      \* the preview each connection answered last
    saved,      \* the layouts stored as schedules
    since,      \* history: the sources there have been since the request began
    kept        \* history: the events stored since then with one window

account == <<sources, events, spent>>
serving == <<free, request, pc, read, shown>>
vars == <<account, serving, saved, since, kept>>

----------------------------------------------------------------------------
(* Windows of minutes.                                                     *)

Minutes(w) == w.start .. (w.end - 1)

(* Variant with a defect: an event that has begun before is missed.        *)
OverlapsFromStart(w, horizon) == w.start >= horizon.start /\ w.start < horizon.end

(* The condition of FixedEventRepository.list.                             *)
Overlaps(w, horizon) == w.end > horizon.start /\ w.start < horizon.end

Inside(w, horizon) == horizon.start <= w.start /\ w.end <= horizon.end

(* ORDER BY starts_at, id.                                                 *)
Before(e, f) ==
    \/ events[e].window.start < events[f].window.start
    \/ events[e].window.start = events[f].window.start /\ e < f

(* planning_events: the first EventLimit rows of the horizon.              *)
PlanningEvents(horizon) ==
    LET found == {e \in DOMAIN events : Overlaps(events[e].window, horizon)}
    IN  {e \in found : Cardinality({f \in found : Before(f, e)}) < EventLimit}

Stored == {<<e, events[e].window>> : e \in DOMAIN events}

----------------------------------------------------------------------------
(* The account changes: patches and deletions of tasks, preferences, and   *)
(* the four routes of fixed events.  The expected version of a call is the *)
(* one in the WHERE clause of its only writing statement.                  *)

PatchTask(t) ==
    /\ t \notin sources.deleted /\ sources.version[t] < SourceLimit
    /\ sources' = [sources EXCEPT !.version[t] = @ + 1]
    /\ UNCHANGED <<events, spent>>

DeleteTask(t) ==
    /\ t \notin sources.deleted /\ sources.version[t] < SourceLimit
    /\ sources' = [sources EXCEPT !.version[t] = @ + 1, !.deleted = @ \cup {t}]
    /\ UNCHANGED <<events, spent>>

UpdatePreferences ==
    /\ sources.preferences < SourceLimit
    /\ sources' = [sources EXCEPT !.preferences = @ + 1]
    /\ UNCHANGED <<events, spent>>

Put(e, row) == events' = [f \in DOMAIN events \cup {e} |-> IF f = e THEN row ELSE events[f]]

CreateEvent(e, w) ==
    /\ e \notin spent
    /\ Put(e, [window |-> w, version |-> 1])
    /\ spent' = spent \cup {e}
    /\ UNCHANGED sources

ReplaceEvent(e, w, expected) ==
    /\ e \in DOMAIN events /\ events[e].version = expected /\ expected < VersionLimit
    /\ Put(e, [window |-> w, version |-> expected + 1])
    /\ UNCHANGED <<sources, spent>>

DeleteEvent(e, expected) ==
    /\ e \in DOMAIN events /\ events[e].version = expected
    /\ events' = [f \in DOMAIN events \ {e} |-> events[f]]
    /\ UNCHANGED <<sources, spent>>

Edit ==
    /\ \/ UpdatePreferences
       \/ \E t \in Task : PatchTask(t) \/ DeleteTask(t)
       \/ \E e \in Event, v \in 1..VersionLimit :
             DeleteEvent(e, v) \/ \E w \in Window : ReplaceEvent(e, w, v)
       \/ \E e \in Event, w \in Window : CreateEvent(e, w)
    /\ UNCHANGED <<serving, saved>>

----------------------------------------------------------------------------
(* preview_schedule.  A request that finds no slot is refused (429) and    *)
(* changes nothing.                                                        *)

Nothing == [sources |-> None, events |-> {}]

Begin(w, r) ==
    /\ pc[w] = "idle" /\ free > 0
    /\ free' = free - 1
    /\ request' = [request EXCEPT ![w] = r]
    /\ pc' = [pc EXCEPT ![w] = "begun"]
    /\ read' = [read EXCEPT ![w] = Nothing]
    /\ shown' = [shown EXCEPT ![w] = None]

Go(w, place, value) ==
    /\ pc' = [pc EXCEPT ![w] = place]
    /\ read' = [read EXCEPT ![w] = value]
    /\ UNCHANGED <<free, request, shown>>

(* The end of the request, in whatever way: "finally" returns the slot.    *)
Leave(w) ==
    /\ free' = free + 1
    /\ pc' = [pc EXCEPT ![w] = "idle"]
    /\ request' = [request EXCEPT ![w] = None]
    /\ read' = [read EXCEPT ![w] = Nothing]

(* Variant with a defect: the slot is returned only with an answer.        *)
RefuseKeepingSlot(w) ==
    /\ pc' = [pc EXCEPT ![w] = "idle"]
    /\ request' = [request EXCEPT ![w] = None]
    /\ read' = [read EXCEPT ![w] = Nothing]
    /\ UNCHANGED <<free, shown>>

Refuse(w) == Leave(w) /\ UNCHANGED shown

(* planning_inputs: the first statement of a REPEATABLE READ transaction   *)
(* takes the snapshot that the second one reads from.                      *)
ReadPreferences(w) ==
    /\ pc[w] = "begun"
    /\ Go(w, "snapshot", [sources |-> sources, events |-> {}])

(* Variant with a defect: each statement reads what is committed.          *)
ReadTasksNow(w) ==
    /\ pc[w] = "snapshot"
    /\ IF request[w].tasks \cap sources.deleted = {}
       THEN Go(w, "inputs", [read[w] EXCEPT !.sources.version = sources.version])
       ELSE Refuse(w)

ReadTasks(w) ==
    /\ pc[w] = "snapshot"
    /\ IF request[w].tasks \cap read[w].sources.deleted = {}
       THEN Go(w, "inputs", read[w])
       ELSE Refuse(w)

TooMany(w, found) == Cardinality(found) + Cardinality(request[w].own) > EventLimit

ReadEvents(w) ==
    /\ pc[w] = "inputs"
    /\ LET found == PlanningEvents(request[w].horizon)
       IN  IF TooMany(w, found) THEN Refuse(w)
           ELSE Go(w, "merged", [sources |-> read[w].sources,
                                 events |-> {<<e, events[e].window>> : e \in found}])

(* build_preview refuses own events outside the horizon and events that    *)
(* overlap; otherwise it places up to all tasks in minutes that are free.  *)
(* Here a task lasts one minute; module Planner is about the placing.      *)
Clash(v, w, horizon) == Minutes(v) \cap Minutes(w) \cap Minutes(horizon) # {}
Conflict(r, found) ==
    \/ \E w \in r.own : ~Overlaps(w, r.horizon)
    \/ \E v, w \in r.own : v # w /\ Clash(v, w, r.horizon)
    \/ \E e \in found, w \in r.own : Clash(e[2], w, r.horizon)
    \/ \E e, f \in found : e # f /\ Clash(e[2], f[2], r.horizon)

Taken(windows) == UNION {Minutes(v) : v \in windows}
Placements(r, windows) ==
    {b \in SUBSET (Minutes(r.horizon) \ Taken(windows)) : Cardinality(b) <= Cardinality(r.tasks)}

Answer(w, blocks, windows) ==
    [horizon |-> request[w].horizon, blocks |-> blocks, events |-> windows,
     preferences |-> read[w].sources.preferences,
     versions |-> [t \in request[w].tasks |-> read[w].sources.version[t]]]

Plan(w) ==
    /\ pc[w] = "merged"
    /\ LET r == request[w]
           windows == r.own \cup {e[2] : e \in read[w].events}
       IN  IF Conflict(r, read[w].events) THEN Refuse(w)
           ELSE /\ Leave(w)
                /\ \E b \in Placements(r, windows) : shown' = [shown EXCEPT ![w] = Answer(w, b, windows)]

(* A statement fails or runs out of time; the planner refuses otherwise.   *)
Fail(w) == pc[w] # "idle" /\ Refuse(w)

(* The process ends and another one starts with all its slots.             *)
Restart ==
    /\ free' = Slots
    /\ request' = [w \in Worker |-> None]
    /\ pc' = [w \in Worker |-> "idle"]
    /\ read' = [w \in Worker |-> Nothing]
    /\ UNCHANGED shown

Handle(w) == ReadPreferences(w) \/ ReadTasks(w) \/ ReadEvents(w) \/ Plan(w)

Serve ==
    /\ \/ \E w \in Worker : Handle(w) \/ Fail(w) \/ \E r \in Request : Begin(w, r)
       \/ Restart
    /\ UNCHANGED <<account, saved>>

(* ScheduleRepository.create with the client's content: the events are the *)
(* ones of the preview, and have to lie in the horizon.  The rest of what  *)
(* a save does is module ScheduleHistory.                                  *)
Save(w) ==
    LET p == shown[w]
    IN  /\ p # None /\ pc[w] = "idle"
        /\ p.preferences = sources.preferences
        /\ \A t \in DOMAIN p.versions : t \notin sources.deleted /\ p.versions[t] = sources.version[t]
        /\ \A v \in p.events : Inside(v, p.horizon)
        /\ \A s \in saved : ~Overlaps(s.horizon, p.horizon)
        /\ saved' = saved \cup {[horizon |-> p.horizon, blocks |-> p.blocks]}
        /\ UNCHANGED <<account, serving>>

----------------------------------------------------------------------------
(* The history variables change with every step.                           *)
Remember ==
    /\ since' = [w \in Worker |-> IF pc'[w] = "idle" THEN {} ELSE since[w] \cup {sources'}]
    /\ kept' = [w \in Worker |->
          IF pc'[w] = "idle" THEN {}
          ELSE IF pc[w] = "idle" THEN Stored ELSE kept[w] \cap Stored']

Init ==
    /\ sources = [preferences |-> 1, version |-> [t \in Task |-> 1], deleted |-> {}]
    /\ events = [e \in {} |-> None]
    /\ spent = {} /\ saved = {}
    /\ free = Slots
    /\ request = [w \in Worker |-> None]
    /\ pc = [w \in Worker |-> "idle"]
    /\ read = [w \in Worker |-> Nothing]
    /\ shown = [w \in Worker |-> None]
    /\ since = [w \in Worker |-> {}]
    /\ kept = [w \in Worker |-> {}]

Next == (Edit \/ Serve \/ \E w \in Worker : Save(w)) /\ Remember

Spec == Init /\ [][Next]_vars

(* A handler is synchronous and each of its statements ends, by its time   *)
(* limit if not otherwise.                                                 *)
FairSpec == Spec /\ \A w \in Worker : WF_vars(Handle(w) /\ UNCHANGED <<account, saved>> /\ Remember)

----------------------------------------------------------------------------
Answers(w) == shown'[w] # shown[w] /\ shown'[w] # None

(* test_storage_api.py, the snapshot of preview inputs: the versions in an *)
(* answer were current together at one moment of the request, and none of  *)
(* its tasks was deleted then.                                             *)
OneSnapshot ==
    [][\A w \in Worker : Answers(w) =>
          \E s \in since[w] :
             /\ s.preferences = shown'[w].preferences
             /\ \A t \in DOMAIN shown'[w].versions :
                   t \notin s.deleted /\ s.version[t] = shown'[w].versions[t]]_vars

Avoids(p, stored) == \A e \in stored : Minutes(e[2]) \cap p.blocks = {}

(* While they are fewer than EventLimit, the events that were stored when  *)
(* the request began and stayed as they were are all avoided, whatever     *)
(* happens to others meanwhile.                                            *)
FewStoredAreKept ==
    [][\A w \in Worker : Answers(w) /\ Cardinality(shown'[w].events) < EventLimit
          => Avoids(shown'[w], kept[w])]_vars

(* web/index.html:96: stored fixed events are taken into account           *)
(* automatically.  The code reads EventLimit of them, and the check that   *)
(* there are not more can see no more than were read.                      *)
AllStoredAreKept ==
    [][\A w \in Worker : Answers(w) => Avoids(shown'[w], kept[w])]_vars

(* SmartPlanner_Step_05.md, decision 1: a save judges the layout again     *)
(* with the account's actual data.  Of stored events the code asks nothing.*)
SavedAvoidStored ==
    [][\A s \in saved' \ saved : Avoids(s, Stored)]_vars

(* A planner that is busy becomes free again (test_36 "and recovers").     *)
BusyPlannerRecovers == free = 0 ~> free > 0
=============================================================================
