--------------------------- MODULE Preview_proofs ---------------------------
(***************************************************************************)
(* Proofs about Preview for every value of its constants.                  *)
(***************************************************************************)
EXTENDS Preview, FiniteSetTheorems, WellFoundedInduction, TLAPS

(* What the statements of a preview rely on: the variables of each         *)
(* connection have values, and a connection that is not idle serves a      *)
(* request.                                                                *)
Serving ==
    /\ pc \in [Worker -> {"idle", "begun", "snapshot", "inputs", "merged"}]
    /\ request \in [Worker -> Request \cup {None}]
    /\ read = [w \in Worker |-> [sources |-> read[w].sources, events |-> read[w].events]]
    /\ shown = [w \in Worker |-> shown[w]]
    /\ since = [w \in Worker |-> since[w]]
    /\ \A w \in Worker : pc[w] = "idle" <=> request[w] = None

(* What planning_inputs has read was the account's state at some moment of *)
(* the request, with none of the selected tasks deleted.                   *)
ReadTogether ==
    \A w \in Worker :
        /\ pc[w] \in {"snapshot", "inputs", "merged"} => read[w].sources \in since[w]
        /\ pc[w] \in {"inputs", "merged"} => request[w].tasks \cap read[w].sources.deleted = {}

SnapshotInv == Serving /\ ReadTogether

LEMMA RequestIsRecord == \A r \in Request : r # None
<1> SUFFICES ASSUME NEW r \in Request PROVE r # None
  OBVIOUS
<1>1. r \in [horizon : [start : Nat, end : Nat], tasks : SUBSET Task, own : SUBSET Window]
  BY PreviewAssumption
<1> QED BY <1>1 DEF None

LEMMA InitSnapshotInv == Init => SnapshotInv
BY DEF Init, SnapshotInv, Serving, ReadTogether, Nothing

(* Each step of a connection, and what it leaves of the others.            *)
LEMMA BeginKeeps ==
    ASSUME SnapshotInv, NEW w \in Worker, NEW r \in Request, Begin(w, r), Remember,
           UNCHANGED sources
    PROVE  SnapshotInv'
<1>1. Serving'
  BY RequestIsRecord DEF SnapshotInv, Serving, Begin, Remember, Nothing
<1>2. ReadTogether'
  <2> SUFFICES ASSUME NEW v \in Worker
               PROVE  /\ pc'[v] \in {"snapshot", "inputs", "merged"} => read'[v].sources \in since'[v]
                      /\ pc'[v] \in {"inputs", "merged"} =>
                            request'[v].tasks \cap read'[v].sources.deleted = {}
    BY DEF ReadTogether
  <2>1. CASE v = w
    BY <2>1 DEF SnapshotInv, Serving, Begin
  <2>2. CASE v # w
    BY <2>2 DEF SnapshotInv, Serving, ReadTogether, Begin, Remember
  <2> QED BY <2>1, <2>2
<1> QED BY <1>1, <1>2 DEF SnapshotInv

LEMMA GoKeeps ==
    ASSUME SnapshotInv, NEW w \in Worker, NEW place \in {"snapshot", "inputs", "merged"},
           NEW value, value = [sources |-> value.sources, events |-> value.events],
           pc[w] # "idle", Go(w, place, value), Remember, UNCHANGED sources,
           value.sources \in since'[w],
           place \in {"inputs", "merged"} => request[w].tasks \cap value.sources.deleted = {}
    PROVE  SnapshotInv'
<1>1. Serving'
  BY DEF SnapshotInv, Serving, Go, Remember
<1>2. ReadTogether'
  <2> SUFFICES ASSUME NEW v \in Worker
               PROVE  /\ pc'[v] \in {"snapshot", "inputs", "merged"} => read'[v].sources \in since'[v]
                      /\ pc'[v] \in {"inputs", "merged"} =>
                            request'[v].tasks \cap read'[v].sources.deleted = {}
    BY DEF ReadTogether
  <2>1. CASE v = w
    BY <2>1 DEF SnapshotInv, Serving, Go
  <2>2. CASE v # w
    BY <2>2 DEF SnapshotInv, Serving, ReadTogether, Go, Remember
  <2> QED BY <2>1, <2>2
<1> QED BY <1>1, <1>2 DEF SnapshotInv

LEMMA LeaveKeeps ==
    ASSUME SnapshotInv, NEW w \in Worker, Leave(w), Remember,
           shown' = [v \in Worker |-> shown'[v]]
    PROVE  SnapshotInv'
<1>1. Serving'
  BY DEF SnapshotInv, Serving, Leave, Remember, Nothing
<1>2. ReadTogether'
  BY DEF SnapshotInv, Serving, ReadTogether, Leave, Remember
<1> QED BY <1>1, <1>2 DEF SnapshotInv

LEMMA StandKeeps ==
    ASSUME SnapshotInv, UNCHANGED <<request, pc, read, shown>>, Remember
    PROVE  SnapshotInv'
<1>1. Serving'
  BY DEF SnapshotInv, Serving, Remember
<1>2. ReadTogether'
  BY DEF SnapshotInv, Serving, ReadTogether, Remember
<1> QED BY <1>1, <1>2 DEF SnapshotInv

LEMMA RestartKeeps == SnapshotInv /\ Restart /\ Remember => SnapshotInv'
BY DEF SnapshotInv, Serving, ReadTogether, Restart, Remember, Nothing

LEMMA NextSnapshotInv == SnapshotInv /\ [Next]_vars => SnapshotInv'
<1> SUFFICES ASSUME SnapshotInv, [Next]_vars PROVE SnapshotInv'
  OBVIOUS
<1>1. CASE Edit /\ Remember
  BY <1>1, StandKeeps DEF Edit, serving
<1>2. CASE (\E w \in Worker : Save(w)) /\ Remember
  BY <1>2, StandKeeps DEF Save, serving
<1>3. CASE Serve /\ Remember
  <2>0. UNCHANGED sources
    BY <1>3 DEF Serve, account
  <2>1. CASE Restart
    BY <1>3, <2>1, RestartKeeps
  <2>2. ASSUME NEW w \in Worker, NEW r \in Request, Begin(w, r) PROVE SnapshotInv'
    BY <1>3, <2>0, <2>2, BeginKeeps
  <2>3. ASSUME NEW w \in Worker, Refuse(w) PROVE SnapshotInv'
    BY <1>3, <2>3, LeaveKeeps DEF Refuse, SnapshotInv, Serving
  <2>4. ASSUME NEW w \in Worker, ReadPreferences(w) PROVE SnapshotInv'
    <3> DEFINE value == [sources |-> sources, events |-> {}]
    <3>1. value = [sources |-> value.sources, events |-> value.events] /\ value.sources = sources
      OBVIOUS
    <3>2. sources \in since'[w]
      BY <1>3, <2>0, <2>4 DEF ReadPreferences, Go, Remember, SnapshotInv, Serving
    <3>3. pc[w] # "idle" /\ Go(w, "snapshot", value)
      BY <2>4 DEF ReadPreferences
    <3> QED BY <1>3, <2>0, <3>1, <3>2, <3>3, GoKeeps
  <2>5. ASSUME NEW w \in Worker, ReadTasks(w) PROVE SnapshotInv'
    <3>1. CASE Go(w, "inputs", read[w]) /\ request[w].tasks \cap read[w].sources.deleted = {}
      <4>1. pc[w] = "snapshot"
        BY <2>5 DEF ReadTasks
      <4>2. read[w] = [sources |-> read[w].sources, events |-> read[w].events]
        BY DEF SnapshotInv, Serving
      <4>3. read[w].sources \in since'[w]
        BY <1>3, <4>1, <3>1 DEF SnapshotInv, Serving, ReadTogether, Go, Remember
      <4> QED BY <1>3, <2>0, <3>1, <4>1, <4>2, <4>3, GoKeeps
    <3> QED BY <2>3, <2>5, <3>1 DEF ReadTasks
  <2>6. ASSUME NEW w \in Worker, ReadEvents(w) PROVE SnapshotInv'
    <3> DEFINE found == PlanningEvents(request[w].horizon)
               value == [sources |-> read[w].sources,
                         events |-> {<<e, events[e].window>> : e \in found}]
    <3>1. CASE Go(w, "merged", value)
      <4>1. pc[w] = "inputs"
        BY <2>6 DEF ReadEvents
      <4>2. value = [sources |-> value.sources, events |-> value.events]
            /\ value.sources = read[w].sources
        OBVIOUS
      <4>3. read[w].sources \in since'[w]
        BY <1>3, <4>1, <3>1 DEF SnapshotInv, Serving, ReadTogether, Go, Remember
      <4>4. request[w].tasks \cap read[w].sources.deleted = {}
        BY <4>1 DEF SnapshotInv, ReadTogether
      <4> HIDE DEF value
      <4> QED BY <1>3, <2>0, <3>1, <4>1, <4>2, <4>3, <4>4, GoKeeps
    <3> QED BY <2>3, <2>6, <3>1 DEF ReadEvents
  <2>7. ASSUME NEW w \in Worker, Plan(w) PROVE SnapshotInv'
    <3>1. CASE Leave(w) /\ \E p : shown' = [shown EXCEPT ![w] = p]
      <4>1. shown' = [v \in Worker |-> shown'[v]]
        BY <3>1 DEF SnapshotInv, Serving
      <4> QED BY <1>3, <3>1, <4>1, LeaveKeeps
    <3> QED BY <2>3, <2>7, <3>1 DEF Plan
  <2> QED BY <1>3, <2>1, <2>2, <2>3, <2>4, <2>5, <2>6, <2>7 DEF Serve, Handle, Fail
<1>4. CASE UNCHANGED vars
  BY <1>4 DEF vars, serving, SnapshotInv, Serving, ReadTogether
<1> QED BY <1>1, <1>2, <1>3, <1>4 DEF Next

(* The only step that answers is Plan.                                     *)
LEMMA OnlyPlanAnswers ==
    ASSUME SnapshotInv, Next, NEW w \in Worker, Answers(w)
    PROVE  Plan(w) /\ pc[w] = "merged" /\ ~Refuse(w)
<1>1. shown' # shown /\ ~ UNCHANGED serving
  BY DEF Answers, serving
<1>2. Serve
  BY <1>1 DEF Next, Edit, Save
<1>3. ~ Restart /\ \A v \in Worker : ~ Refuse(v)
  BY <1>1 DEF Restart, Refuse
<1>4. \A v \in Worker : ~ReadPreferences(v) /\ ~ReadTasks(v) /\ ~ReadEvents(v) /\ ~Fail(v)
  BY <1>1, <1>3 DEF ReadPreferences, ReadTasks, ReadEvents, Fail, Go
<1>5. \A v \in Worker, r \in Request : ~ Begin(v, r)
  BY DEF Answers, Begin, SnapshotInv, Serving
<1>6. PICK v \in Worker : Plan(v)
  BY <1>2, <1>3, <1>4, <1>5 DEF Serve, Handle
<1>7. v = w
  <2>1. PICK p : shown' = [shown EXCEPT ![v] = p]
    BY <1>3, <1>6 DEF Plan
  <2> QED BY <2>1 DEF Answers, SnapshotInv, Serving
<1> QED BY <1>3, <1>6, <1>7 DEF Plan

(* planning_inputs: what an answer names was current together at one       *)
(* moment of its request, for all tasks, requests, connections and limits. *)
THEOREM PreviewOneSnapshot == Spec => OneSnapshot
<1> DEFINE Named(w) ==
        Answers(w) =>
          \E s \in since[w] :
             /\ s.preferences = shown'[w].preferences
             /\ \A t \in DOMAIN shown'[w].versions :
                   t \notin s.deleted /\ s.version[t] = shown'[w].versions[t]
<1>1. ASSUME SnapshotInv, [Next]_vars, NEW w \in Worker PROVE Named(w)
  <2> SUFFICES ASSUME Answers(w)
               PROVE  \E s \in since[w] :
                         /\ s.preferences = shown'[w].preferences
                         /\ \A t \in DOMAIN shown'[w].versions :
                               t \notin s.deleted /\ s.version[t] = shown'[w].versions[t]
    OBVIOUS
  <2>1. Next
    BY <1>1 DEF vars, serving, Answers
  <2>2. Plan(w) /\ pc[w] = "merged" /\ ~Refuse(w)
    BY <1>1, <2>1, OnlyPlanAnswers
  <2>3. PICK blocks, windows : shown' = [shown EXCEPT ![w] = Answer(w, blocks, windows)]
    BY <2>2 DEF Plan
  <2>4. shown'[w] = Answer(w, blocks, windows)
    BY <1>1, <2>3 DEF SnapshotInv, Serving
  <2>5. /\ read[w].sources \in since[w]
        /\ request[w].tasks \cap read[w].sources.deleted = {}
    BY <1>1, <2>2 DEF SnapshotInv, ReadTogether
  <2> QED BY <2>4, <2>5 DEF Answer
<1>2. SnapshotInv /\ [Next]_vars => [\A w \in Worker : Named(w)]_vars
  BY <1>1
<1> QED BY <1>2, InitSnapshotInv, NextSnapshotInv, PTL DEF Spec, OneSnapshot

----------------------------------------------------------------------------
(* The planning slots.                                                     *)

Busy == {w \in Worker : pc[w] # "idle"}
SlotsHeld == free \in 0..Slots /\ IsFiniteSet(Busy) /\ free + Cardinality(Busy) = Slots

LEMMA InitSlots == Init => SlotsHeld
<1> SUFFICES ASSUME Init PROVE SlotsHeld
  OBVIOUS
<1>1. Busy = {}
  BY DEF Init, Busy
<1> QED BY <1>1, FS_EmptySet, PreviewAssumption DEF Init, SlotsHeld

LEMMA SameSlots ==
    ASSUME SlotsHeld, free' = free, Busy' = Busy
    PROVE  SlotsHeld'
BY DEF SlotsHeld

LEMMA BeginSlots ==
    ASSUME SnapshotInv, SlotsHeld, NEW w \in Worker, NEW r \in Request, Begin(w, r)
    PROVE  SlotsHeld'
<1>1. w \notin Busy /\ Busy' = Busy \cup {w}
  BY DEF Busy, Begin, SnapshotInv, Serving
<1>2. IsFiniteSet(Busy') /\ Cardinality(Busy') = Cardinality(Busy) + 1
  BY <1>1, FS_AddElement DEF SlotsHeld
<1>3. free \in 1..Slots /\ free' = free - 1 /\ Cardinality(Busy) \in Nat /\ Slots \in Nat
  BY FS_CardinalityType, PreviewAssumption DEF SlotsHeld, Begin
<1> QED BY <1>2, <1>3 DEF SlotsHeld

LEMMA LeaveSlots ==
    ASSUME SnapshotInv, SlotsHeld, NEW w \in Worker, pc[w] # "idle", Leave(w)
    PROVE  SlotsHeld'
<1>1. w \in Busy /\ Busy' = Busy \ {w}
  BY DEF Busy, Leave, SnapshotInv, Serving
<1>2. IsFiniteSet(Busy') /\ Cardinality(Busy') = Cardinality(Busy) - 1
  BY <1>1, FS_RemoveElement DEF SlotsHeld
<1>3. /\ free \in 0..Slots /\ free' = free + 1 /\ Slots \in Nat
      /\ Cardinality(Busy) \in Nat /\ Cardinality(Busy') \in Nat
  BY <1>2, FS_CardinalityType, PreviewAssumption DEF SlotsHeld, Leave
<1> QED BY <1>2, <1>3 DEF SlotsHeld

LEMMA GoSlots ==
    ASSUME SnapshotInv, SlotsHeld, NEW w \in Worker, pc[w] # "idle",
           NEW place \in {"snapshot", "inputs", "merged"}, NEW value, Go(w, place, value)
    PROVE  SlotsHeld'
<1>1. Busy' = Busy
  BY DEF Busy, Go, SnapshotInv, Serving
<1> QED BY <1>1, SameSlots DEF Go

LEMMA RestartSlots == Restart => SlotsHeld'
<1> SUFFICES ASSUME Restart PROVE SlotsHeld'
  OBVIOUS
<1>1. Busy' = {}
  BY DEF Restart, Busy
<1> QED BY <1>1, FS_EmptySet, PreviewAssumption DEF Restart, SlotsHeld

LEMMA NextSlots == SnapshotInv /\ SlotsHeld /\ [Next]_vars => SlotsHeld'
<1> SUFFICES ASSUME SnapshotInv, SlotsHeld, [Next]_vars PROVE SlotsHeld'
  OBVIOUS
<1>1. CASE UNCHANGED <<free, pc>>
  <2>1. Busy' = Busy
    BY <1>1 DEF Busy
  <2> QED BY <1>1, <2>1, SameSlots
<1>2. CASE Serve
  <2>1. ASSUME NEW w \in Worker, NEW r \in Request, Begin(w, r) PROVE SlotsHeld'
    BY <2>1, BeginSlots
  <2>2. ASSUME NEW w \in Worker, pc[w] # "idle", Refuse(w) PROVE SlotsHeld'
    BY <2>2, LeaveSlots DEF Refuse
  <2>3. ASSUME NEW w \in Worker, ReadPreferences(w) PROVE SlotsHeld'
    BY <2>3, GoSlots DEF ReadPreferences
  <2>4. ASSUME NEW w \in Worker, ReadTasks(w) PROVE SlotsHeld'
    BY <2>2, <2>4, GoSlots DEF ReadTasks
  <2>5. ASSUME NEW w \in Worker, ReadEvents(w) PROVE SlotsHeld'
    BY <2>2, <2>5, GoSlots DEF ReadEvents
  <2>6. ASSUME NEW w \in Worker, Plan(w) PROVE SlotsHeld'
    BY <2>2, <2>6, LeaveSlots DEF Plan
  <2>7. ASSUME NEW w \in Worker, Fail(w) PROVE SlotsHeld'
    BY <2>2, <2>7 DEF Fail
  <2> QED BY <1>2, <2>1, <2>3, <2>4, <2>5, <2>6, <2>7, RestartSlots DEF Serve, Handle
<1> QED BY <1>1, <1>2 DEF Next, Edit, Save, serving, vars

(* Every planning slot is free or with one request, through failures,      *)
(* refusals and restarts, for any number of connections and slots.         *)
THEOREM PreviewSlotsHeld == Spec => []SlotsHeld
<1>1. Init => SnapshotInv /\ SlotsHeld
  BY InitSnapshotInv, InitSlots
<1>2. SnapshotInv /\ SlotsHeld /\ [Next]_vars => (SnapshotInv /\ SlotsHeld)'
  BY NextSnapshotInv, NextSlots
<1> QED BY <1>1, <1>2, PTL DEF Spec

----------------------------------------------------------------------------
(* The stored events.  Rows that LIMIT leaves out come after EventLimit    *)
(* others.                                                                 *)

LEMMA LeastNumber ==
    ASSUME NEW S, S \subseteq Nat, S # {}
    PROVE  \E m \in S : \A n \in S : m <= n
<1>1. \E R : IsWellFoundedOn(R, Nat) /\ \A m, n \in Nat : m < n => <<m, n>> \in R
  <2>1. \A m, n \in Nat : m < n => <<m, n>> \in OpToRel(<, Nat)
    BY DEF OpToRel
  <2> WITNESS OpToRel(<, Nat)
  <2> QED BY <2>1, NatLessThanWellFounded
<1>2. PICK R : IsWellFoundedOn(R, Nat) /\ \A m, n \in Nat : m < n => <<m, n>> \in R
  BY <1>1
<1>3. PICK m \in S : \A n \in S : <<n, m>> \notin R
  <2>1. IsWellFoundedOn(R, Nat)
    BY <1>2
  <2> QED BY ONLY <2>1, WFMin, S \subseteq Nat, S # {}
<1>4. \A n \in S : m \in Nat /\ n \in Nat /\ ~(n < m)
  BY <1>2, <1>3
<1>5. \A n \in S : m <= n
  BY <1>4
<1> QED BY <1>5

EventsFit == DOMAIN events \subseteq Event /\ \A e \in DOMAIN events : events[e].window \in Window

(* If a row of the horizon is left out, EventLimit rows are read: those    *)
(* before the first one that is left out.                                  *)
LEMMA LimitIsUsed ==
    ASSUME EventsFit, NEW horizon, NEW e \in DOMAIN events,
           Overlaps(events[e].window, horizon), e \notin PlanningEvents(horizon)
    PROVE  /\ IsFiniteSet(PlanningEvents(horizon))
           /\ Cardinality(PlanningEvents(horizon)) >= EventLimit
<1> DEFINE found == {f \in DOMAIN events : Overlaps(events[f].window, horizon)}
           earlier(f) == {g \in found : Before(g, f)}
           out == found \ PlanningEvents(horizon)
           numbers == {Cardinality(earlier(f)) : f \in out}
<1>1. IsFiniteSet(DOMAIN events) /\ IsFiniteSet(found) /\ EventLimit \in Nat
  <2>1. IsFiniteSet(DOMAIN events)
    BY PreviewAssumption, FS_Subset DEF EventsFit
  <2> QED BY <2>1, PreviewAssumption, FS_Subset
<1>2. \A f \in found : IsFiniteSet(earlier(f)) /\ Cardinality(earlier(f)) \in Nat
  <2> TAKE f \in found
  <2>1. earlier(f) \subseteq found
    OBVIOUS
  <2> HIDE DEF found, earlier
  <2> QED BY <1>1, <2>1, FS_Subset, FS_CardinalityType
<1>3. PlanningEvents(horizon) = {f \in found : Cardinality(earlier(f)) < EventLimit}
  BY DEF PlanningEvents
<1>4. \A f \in found : /\ f \in Nat
                       /\ events[f].window.start \in Nat
  BY PreviewAssumption DEF EventsFit
<1>5. \A f, g, k \in found : Before(f, g) /\ Before(g, k) => Before(f, k)
  BY <1>4 DEF Before
<1>6. \A f \in found : ~Before(f, f)
  BY <1>4 DEF Before
<1>7. PICK f \in out : \A g \in out : Cardinality(earlier(f)) <= Cardinality(earlier(g))
  <2>1. e \in out
    OBVIOUS
  <2>2. numbers # {} /\ numbers \subseteq Nat
    BY <1>2, <2>1
  <2>3. PICK m \in numbers : \A n \in numbers : m <= n
    <3> HIDE DEF numbers
    <3> QED BY <2>2, LeastNumber
  <2> QED BY <2>3
<1>8. earlier(f) \subseteq PlanningEvents(horizon)
  <2> SUFFICES ASSUME NEW g \in found, Before(g, f), g \in out PROVE FALSE
    OBVIOUS
  <2>1. earlier(g) \subseteq earlier(f) \ {g} /\ g \in earlier(f) /\ f \in found
    BY <1>5, <1>6
  <2> HIDE DEF earlier
  <2>2. Cardinality(earlier(f) \ {g}) = Cardinality(earlier(f)) - 1 /\ IsFiniteSet(earlier(f) \ {g})
    BY <1>2, <2>1, FS_RemoveElement
  <2>3. Cardinality(earlier(g)) <= Cardinality(earlier(f) \ {g})
    BY <2>1, <2>2, FS_Subset
  <2>4. Cardinality(earlier(f)) <= Cardinality(earlier(g))
    BY <1>7
  <2>5. Cardinality(earlier(f)) \in Nat /\ Cardinality(earlier(g)) \in Nat
    BY <1>2, <2>1
  <2> QED BY <2>2, <2>3, <2>4, <2>5
<1>9. IsFiniteSet(PlanningEvents(horizon))
  BY <1>1, <1>3, FS_Subset
<1>10. Cardinality(earlier(f)) <= Cardinality(PlanningEvents(horizon))
  BY <1>8, <1>9, FS_Subset
<1>11. Cardinality(earlier(f)) >= EventLimit
  BY <1>1, <1>2, <1>3
<1>12. Cardinality(PlanningEvents(horizon)) \in Nat /\ Cardinality(earlier(f)) \in Nat
  BY <1>2, <1>9, FS_CardinalityType
<1> QED BY <1>1, <1>9, <1>10, <1>11, <1>12

LEMMA ReadIsFinite ==
    ASSUME EventsFit, NEW horizon
    PROVE  IsFiniteSet(PlanningEvents(horizon))
<1>1. PlanningEvents(horizon) \subseteq Event
  BY DEF EventsFit, PlanningEvents
<1> QED BY <1>1, PreviewAssumption, FS_Subset

LEMMA InitEventsFit == Init => EventsFit
BY DEF Init, EventsFit

LEMMA NextEventsFit == EventsFit /\ [Next]_vars => EventsFit'
<1> SUFFICES ASSUME EventsFit, [Next]_vars PROVE EventsFit'
  OBVIOUS
<1>1. CASE UNCHANGED events
  BY <1>1 DEF EventsFit
<1>2. ASSUME NEW e \in Event, NEW w \in Window, NEW n, Put(e, [window |-> w, version |-> n])
      PROVE  EventsFit'
  BY <1>2 DEF Put, EventsFit
<1>3. ASSUME NEW e \in Event, NEW v, DeleteEvent(e, v)
      PROVE  EventsFit'
  BY <1>3 DEF DeleteEvent, EventsFit
<1>4. CASE Edit
  BY <1>1, <1>2, <1>3, <1>4 DEF Edit, UpdatePreferences, PatchTask, DeleteTask, ReplaceEvent, CreateEvent
<1> QED BY <1>1, <1>4 DEF Next, Serve, Save, account, vars

(* What a connection has read of the events leaves out none that it should *)
(* keep, unless it has read as many as it may.                             *)
Enough(w) ==
    /\ kept[w] \subseteq Stored
    /\ pc[w] = "merged" =>
          /\ IsFiniteSet(read[w].events)
          /\ \A e \in read[w].events : e[2] \in Window /\ Overlaps(e[2], request[w].horizon)
          /\ \A e \in kept[w] : Overlaps(e[2], request[w].horizon) /\ e \notin read[w].events
                => Cardinality(read[w].events) >= EventLimit
AllEnough == \A w \in Worker : Enough(w)

KeptInv == SnapshotInv /\ EventsFit /\ AllEnough

LEMMA InitAllEnough == Init => AllEnough
BY DEF Init, AllEnough, Enough

(* A step may let time pass for a connection: its kept events are among    *)
(* those it had.                                                           *)
LEMMA OtherEnough ==
    ASSUME KeptInv, Remember, NEW w \in Worker,
           pc'[w] = pc[w] /\ request'[w] = request[w] /\ read'[w] = read[w]
    PROVE  Enough(w)'
<1>1. Enough(w)
  BY DEF KeptInv, AllEnough
<1>2. kept'[w] = IF pc'[w] = "idle" THEN {}
                 ELSE IF pc[w] = "idle" THEN Stored ELSE kept[w] \cap Stored'
  BY DEF Remember
<1>3. kept'[w] \subseteq Stored' /\ (pc[w] = "merged" => kept'[w] \subseteq kept[w])
  BY <1>2
<1> QED BY <1>1, <1>3 DEF Enough

LEMMA MovedEnough ==
    ASSUME KeptInv, Remember, UNCHANGED events, NEW w \in Worker, pc'[w] # "merged"
    PROVE  Enough(w)'
<1>1. Stored' = Stored
  BY DEF Stored
<1>2. kept'[w] = IF pc'[w] = "idle" THEN {}
                 ELSE IF pc[w] = "idle" THEN Stored ELSE kept[w] \cap Stored'
  BY DEF Remember
<1>3. kept'[w] \subseteq Stored'
  BY <1>1, <1>2
<1> QED BY <1>3 DEF Enough

LEMMA ReadEventsEnough ==
    ASSUME KeptInv, Remember, UNCHANGED events, NEW w \in Worker, pc[w] = "inputs",
           LET found == PlanningEvents(request[w].horizon)
           IN  Go(w, "merged", [sources |-> read[w].sources,
                                events |-> {<<e, events[e].window>> : e \in found}])
    PROVE  Enough(w)'
<1> DEFINE horizon == request[w].horizon
           found == PlanningEvents(horizon)
           taken == {<<e, events[e].window>> : e \in found}
<1>1. /\ pc'[w] = "merged" /\ request'[w].horizon = horizon
      /\ read'[w].events = taken
  BY DEF Go, KeptInv, SnapshotInv, Serving
<1>2. kept'[w] \subseteq Stored /\ Stored' = Stored
  BY DEF Remember, Go, KeptInv, SnapshotInv, Serving, Stored
<1>3. IsFiniteSet(found) /\ found \subseteq DOMAIN events
  BY ReadIsFinite DEF KeptInv, PlanningEvents
<1>4. IsFiniteSet(taken) /\ Cardinality(taken) = Cardinality(found)
  <2> DEFINE f == [e \in found |-> <<e, events[e].window>>]
  <2>1. f \in Bijection(found, taken)
    BY DEF Bijection, Injection, Surjection, IsInjective
  <2> HIDE DEF f, found, taken
  <2> QED BY <1>3, <2>1, FS_Bijection DEF ExistsBijection
<1>5. \A e \in taken : e[2] \in Window /\ Overlaps(e[2], horizon)
  <2>1. \A k \in found : events[k].window \in Window /\ Overlaps(events[k].window, horizon)
    BY <1>3 DEF KeptInv, EventsFit, PlanningEvents
  <2> HIDE DEF found
  <2> QED BY <2>1
<1>6. ASSUME NEW e \in kept'[w], Overlaps(e[2], horizon), e \notin taken
      PROVE  Cardinality(taken) >= EventLimit
  <2>1. PICK k \in DOMAIN events : e = <<k, events[k].window>>
    BY <1>2 DEF Stored
  <2>2. k \notin found /\ Overlaps(events[k].window, horizon)
    BY <1>6, <2>1
  <2>3. Cardinality(found) >= EventLimit
    BY <2>2, LimitIsUsed DEF KeptInv
  <2> QED BY <1>4, <2>3
<1> HIDE DEF horizon, found, taken
<1>7. kept'[w] \subseteq Stored'
  BY <1>2
<1> QED BY <1>1, <1>4, <1>5, <1>6, <1>7 DEF Enough

LEMMA NextAllEnough == KeptInv /\ [Next]_vars => AllEnough'
<1> SUFFICES ASSUME KeptInv, [Next]_vars, NEW w \in Worker PROVE Enough(w)'
  BY DEF AllEnough
<1>1. CASE UNCHANGED vars
  BY <1>1 DEF vars, serving, account, KeptInv, AllEnough, Enough, Stored
<1>2. CASE (Edit \/ \E v \in Worker : Save(v)) /\ Remember
  BY <1>2, OtherEnough DEF Edit, Save, serving
<1>3. CASE Serve /\ Remember
  <2>1. UNCHANGED events
    BY <1>3 DEF Serve, account
  <2>2. ASSUME NEW v \in Worker, NEW place, NEW value, Go(v, place, value),
               place # "merged" \/ v # w
        PROVE  Enough(w)'
    BY <1>3, <2>1, <2>2, OtherEnough, MovedEnough DEF Go, KeptInv, SnapshotInv, Serving
  <2>3. ASSUME NEW v \in Worker, Leave(v)
        PROVE  Enough(w)'
    BY <1>3, <2>1, <2>3, OtherEnough, MovedEnough DEF Leave, KeptInv, SnapshotInv, Serving
  <2>4. ASSUME NEW v \in Worker, NEW r \in Request, Begin(v, r)
        PROVE  Enough(w)'
    BY <1>3, <2>1, <2>4, OtherEnough, MovedEnough DEF Begin, KeptInv, SnapshotInv, Serving
  <2>5. CASE Restart
    BY <1>3, <2>1, <2>5, MovedEnough DEF Restart
  <2>6. ASSUME NEW v \in Worker, ReadPreferences(v) \/ ReadTasks(v)
        PROVE  Enough(w)'
    BY <2>2, <2>3, <2>6 DEF ReadPreferences, ReadTasks, Refuse
  <2>7. ASSUME NEW v \in Worker, ReadEvents(v)
        PROVE  Enough(w)'
    <3>1. CASE v # w \/ Refuse(v)
      BY <2>2, <2>3, <2>7, <3>1 DEF ReadEvents, Refuse
    <3>2. CASE v = w /\ ~Refuse(v)
      BY <1>3, <2>1, <2>7, <3>2, ReadEventsEnough DEF ReadEvents
    <3> QED BY <3>1, <3>2
  <2>8. ASSUME NEW v \in Worker, Plan(v) \/ Fail(v)
        PROVE  Enough(w)'
    BY <2>3, <2>8 DEF Plan, Fail, Refuse
  <2> QED BY <1>3, <2>4, <2>5, <2>6, <2>7, <2>8 DEF Serve, Handle
<1> QED BY <1>1, <1>2, <1>3 DEF Next

LEMMA KeptInvAlways == Spec => []KeptInv
<1>1. Init => KeptInv
  BY InitSnapshotInv, InitEventsFit, InitAllEnough DEF KeptInv
<1>2. KeptInv /\ [Next]_vars => KeptInv'
  BY NextSnapshotInv, NextEventsFit, NextAllEnough DEF KeptInv
<1> QED BY <1>1, <1>2, PTL DEF Spec

(* Events without a clash within the horizon have windows of their own.    *)
LEMMA NoClashNoSharing ==
    ASSUME NEW r \in Request, NEW found, IsFiniteSet(found), ~Conflict(r, found),
           \A e \in found : e[2] \in Window /\ Overlaps(e[2], r.horizon),
           r.horizon.start < r.horizon.end
    PROVE  LET windows == r.own \cup {e[2] : e \in found}
           IN  /\ IsFiniteSet(windows) /\ Cardinality(windows) \in Nat
               /\ Cardinality(found) <= Cardinality(windows)
<1> DEFINE theirs == {e[2] : e \in found}
           f == [e \in found |-> e[2]]
<1>1. /\ r.horizon.start \in Nat /\ r.horizon.end \in Nat /\ IsFiniteSet(r.own)
      /\ \A w \in Window : w.start \in Nat /\ w.end \in Nat /\ w.start < w.end
  BY PreviewAssumption
<1>2. ASSUME NEW w \in Window, Overlaps(w, r.horizon)
      PROVE  Clash(w, w, r.horizon)
  <2>1. w.start \in Minutes(w) \cap Minutes(r.horizon) \/ r.horizon.start \in Minutes(w) \cap Minutes(r.horizon)
    BY <1>1, <1>2 DEF Overlaps, Minutes
  <2> QED BY <2>1 DEF Clash
<1>3. \A d, e \in found : d[2] = e[2] => d = e
  BY <1>2 DEF Conflict
<1>4. f \in Bijection(found, theirs)
  BY <1>3 DEF Bijection, Injection, Surjection, IsInjective
<1> HIDE DEF f, theirs
<1>5. IsFiniteSet(theirs) /\ Cardinality(theirs) = Cardinality(found)
  BY <1>4, FS_Bijection DEF ExistsBijection
<1>6. IsFiniteSet(r.own \cup theirs) /\ theirs \subseteq r.own \cup theirs
  BY <1>1, <1>5, FS_Union
<1>7. Cardinality(theirs) <= Cardinality(r.own \cup theirs) /\ Cardinality(r.own \cup theirs) \in Nat
  BY <1>6, FS_Subset, FS_CardinalityType
<1> QED BY <1>5, <1>6, <1>7 DEF theirs

LEMMA PlanKeepsFew ==
    ASSUME KeptInv, NEW w \in Worker, Plan(w), pc[w] = "merged", ~Refuse(w),
           Cardinality(shown'[w].events) < EventLimit
    PROVE  Avoids(shown'[w], kept[w])
<1> DEFINE r == request[w]
           found == read[w].events
           windows == r.own \cup {e[2] : e \in found}
<1>1. r \in Request /\ pc[w] # "idle"
  BY DEF KeptInv, SnapshotInv, Serving
<1>2. ~Conflict(r, found) /\ \E b \in Placements(r, windows) : shown' = [shown EXCEPT ![w] = Answer(w, b, windows)]
  BY DEF Plan
<1>3. PICK b \in Placements(r, windows) : shown'[w] = Answer(w, b, windows)
  BY <1>2 DEF KeptInv, SnapshotInv, Serving
<1>4. shown'[w].events = windows /\ shown'[w].blocks = b
  BY <1>3 DEF Answer
<1>5. b \subseteq Minutes(r.horizon) /\ \A v \in windows : Minutes(v) \cap b = {}
  BY DEF Placements, Taken
<1>6. Enough(w) /\ EventsFit
  BY DEF KeptInv, AllEnough
<1>7. SUFFICES ASSUME NEW e \in kept[w] PROVE Minutes(e[2]) \cap b = {}
  BY <1>4 DEF Avoids
<1>8. e[2] \in Window
  BY <1>6 DEF Enough, Stored, EventsFit
<1>9. CASE e \in found
  BY <1>5, <1>9
<1>10. CASE e \notin found /\ Overlaps(e[2], r.horizon) /\ r.horizon.start < r.horizon.end
  <2>1. Cardinality(found) >= EventLimit /\ IsFiniteSet(found)
    BY <1>6, <1>10 DEF Enough
  <2>2. \A d \in found : d[2] \in Window /\ Overlaps(d[2], r.horizon)
    BY <1>6 DEF Enough
  <2>3. Cardinality(found) <= Cardinality(windows) /\ Cardinality(windows) \in Nat
    <3> HIDE DEF found, r
    <3> QED BY <1>1, <1>2, <1>10, <2>1, <2>2, NoClashNoSharing
  <2>4. Cardinality(found) \in Nat /\ EventLimit \in Nat
    BY <2>1, FS_CardinalityType, PreviewAssumption
  <2>5. Cardinality(windows) < EventLimit
    BY <1>4
  <2> QED BY <2>1, <2>3, <2>4, <2>5
<1>11. CASE ~Overlaps(e[2], r.horizon) \/ ~(r.horizon.start < r.horizon.end)
  <2>1. r.horizon.start \in Nat /\ r.horizon.end \in Nat /\ e[2].start \in Nat /\ e[2].end \in Nat
    BY <1>1, <1>8, PreviewAssumption
  <2>2. Minutes(e[2]) \cap Minutes(r.horizon) = {}
    BY <1>11, <2>1 DEF Overlaps, Minutes
  <2> QED BY <1>5, <2>2
<1> QED BY <1>9, <1>10, <1>11

(* While they are fewer than the limit, the events that were stored when   *)
(* the request began and stayed as they were are all avoided: whatever is  *)
(* created, moved or deleted between the statements, and in whatever order *)
(* the rows come.                                                          *)
THEOREM PreviewFewStoredAreKept == Spec => FewStoredAreKept
<1> DEFINE Kept(w) == Answers(w) /\ Cardinality(shown'[w].events) < EventLimit
                        => Avoids(shown'[w], kept[w])
<1>1. ASSUME KeptInv, [Next]_vars, NEW w \in Worker, Answers(w),
             Cardinality(shown'[w].events) < EventLimit
      PROVE  Avoids(shown'[w], kept[w])
  <2>1. Next /\ SnapshotInv
    BY <1>1 DEF vars, serving, Answers, KeptInv
  <2> QED BY <1>1, <2>1, OnlyPlanAnswers, PlanKeepsFew
<1>2. KeptInv /\ [Next]_vars => [\A w \in Worker : Kept(w)]_vars
  BY <1>1
<1> QED BY <1>2, KeptInvAlways, PTL DEF Spec, FewStoredAreKept
=============================================================================
