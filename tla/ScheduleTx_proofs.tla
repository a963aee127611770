-------------------------- MODULE ScheduleTx_proofs --------------------------
(***************************************************************************)
(* Proofs about ScheduleTx for every value of its constants.  Past is the  *)
(* ScheduleHistory whose clock stands where the last command read it: each *)
(* step of the transactions is a step of it or leaves it alone, so all     *)
(* that is proved of atomic commands holds of the transactions as well.    *)
(***************************************************************************)
EXTENDS ScheduleTx, TLAPS

Past == INSTANCE ScheduleHistory_proofs WITH now <- sampled

(* Past has the constants, and so the assumptions, of ScheduleHistory.     *)
LEMMA PastAssumptions ==
    /\ Past!TimeAssumption /\ Past!LimitAssumption /\ Past!ShapeAssumption
    /\ Past!HorizonAssumption /\ Past!LayoutAssumption
BY TimeAssumption, LimitAssumption, ShapeAssumption, HorizonAssumption, LayoutAssumption
   DEF Past!TimeAssumption, Past!LimitAssumption, Past!ShapeAssumption,
       Past!HorizonAssumption, Past!LayoutAssumption, Past!Block, Block

(* What does not look at the clock is the same in Past.                    *)
LEMMA SameSets ==
    /\ Past!Block = Block /\ Past!SavedState = SavedState /\ Past!Candidate = Candidate
    /\ Past!Digest = Digest
BY DEF Past!Block, Block, Past!SavedState, SavedState, Past!Candidate, Candidate, Past!Digest, Digest

LEMMA SameReads ==
    /\ \A s : Past!Rows(s) = Rows(s)
    /\ \A s : Past!CurrentRow(s) = CurrentRow(s)
    /\ \A s : Past!CurrentState(s) = CurrentState(s)
    /\ \A b : Past!Key(b) = Key(b)
    /\ \A blocks : Past!Keys(blocks) = Keys(blocks)
    /\ \A state : Past!Selected(state) = Selected(state)
    /\ \A state : Past!Scheduled(state) = Scheduled(state)
    /\ \A t : Past!Active(t) = Active(t)
    /\ \A state : Past!Fresh(state) = Fresh(state)
<1>1. \A s : Past!Rows(s) = Rows(s)
  BY DEF Past!Rows, Rows
<1>2. \A s : Past!CurrentRow(s) = CurrentRow(s)
  BY DEF Past!CurrentRow, CurrentRow, Past!Rows, Rows
<1>3. \A s : Past!CurrentState(s) = CurrentState(s)
  BY <1>2 DEF Past!CurrentState, CurrentState
<1>4. \A b : Past!Key(b) = Key(b)
  BY DEF Past!Key, Key
<1>5. \A blocks : Past!Keys(blocks) = Keys(blocks)
  BY <1>4 DEF Past!Keys, Keys
<1>6. \A state : Past!Selected(state) = Selected(state)
  BY DEF Past!Selected, Selected
<1>7. \A state : Past!Scheduled(state) = Scheduled(state)
  BY DEF Past!Scheduled, Scheduled
<1>8. \A t : Past!Active(t) = Active(t)
  BY DEF Past!Active, Active
<1>9. \A state : Past!Fresh(state) = Fresh(state)
  BY <1>6 DEF Past!Fresh, Fresh
<1> QED BY <1>1, <1>2, <1>3, <1>4, <1>5, <1>6, <1>7, <1>8, <1>9

LEMMA SameLayouts ==
    /\ \A blocks, t : Past!FitsTask(blocks, t) = FitsTask(blocks, t)
    /\ \A state : Past!ValidLayout(state) = ValidLayout(state)
<1>1. \A blocks : Past!Minutes(blocks) = Minutes(blocks)
  BY DEF Past!Minutes, Minutes, Past!MapThenSumSet, MapThenSumSet, Past!MapThenFoldSet, MapThenFoldSet
<1>2. \A blocks, t : Past!FitsTask(blocks, t) = FitsTask(blocks, t)
  BY <1>1 DEF Past!FitsTask, FitsTask, Past!Cardinality, Cardinality
<1>3. \A state : Past!ValidLayout(state) = ValidLayout(state)
  BY <1>2, SameReads DEF Past!ValidLayout, ValidLayout
<1> QED BY <1>2, <1>3

(* The abstract specification names Past's actions.                        *)
LEMMA SameNext == Atomic!Next = Past!Next
BY DEF Past!Next, Atomic!Next, Past!Create, Atomic!Create, Past!Replace, Atomic!Replace, Past!Travel, Atomic!Travel,
 Past!UpdateTask, Atomic!UpdateTask, Past!DeleteTask, Atomic!DeleteTask, Past!UpdatePreferences, Atomic!UpdatePreferences, Past!Tick, Atomic!Tick,
 Past!Unused, Atomic!Unused, Past!NextVersion, Atomic!NextVersion, Past!Candidate, Atomic!Candidate, Past!CurrentState, Atomic!CurrentState,
 Past!CurrentRow, Atomic!CurrentRow, Past!Rows, Atomic!Rows, Past!Validate, Atomic!Validate, Past!Fresh, Atomic!Fresh, Past!Selected, Atomic!Selected,
 Past!ProtectPlacements, Atomic!ProtectPlacements, Past!Active, Atomic!Active, Past!Key, Atomic!Key, Past!Keys, Atomic!Keys,
 Past!ValidLayout, Atomic!ValidLayout, Past!Scheduled, Atomic!Scheduled, Past!FitsTask, Atomic!FitsTask, Past!Minutes, Atomic!Minutes, Past!Cardinality, Atomic!Cardinality,
 Past!MapThenSumSet, Atomic!MapThenSumSet, Past!MapThenFoldSet, Atomic!MapThenFoldSet, Past!Unallocated, Atomic!Unallocated, Past!Allocate, Atomic!Allocate, Past!Finish, Atomic!Finish,
 Past!Trim, Atomic!Trim, Past!Kept, Atomic!Kept, Past!Revision, Atomic!Revision, Past!SetHeader, Atomic!SetHeader, Past!UndoTarget, Atomic!UndoTarget,
 Past!RedoTarget, Atomic!RedoTarget, Past!Apart, Atomic!Apart, Past!Today, Atomic!Today
----------------------------------------------------------------------------
(* The inductive invariant.                                                *)

Locking == {"owner", "found", "sources", "tasks", "checked"}

TxTypes ==
    /\ owner \subseteq Worker
    /\ step \in [Worker -> {"idle", "begun"} \cup Locking]
    /\ DOMAIN command = Worker /\ DOMAIN held = Worker /\ DOMAIN answer = Worker
    /\ \A w \in Worker : step[w] # "idle" => command[w] \in Command
    /\ now \in 0..LastMinute /\ sampled <= now

(* The lock on the account row: a command past it holds it, alone.         *)
OneOwner ==
    /\ \A w \in Worker : w \in owner <=> step[w] \in Locking
    /\ \A v, w \in owner : v = w

(* What a request has been found to be, and what has been checked of it.   *)
Admitted(c) == Admissible(c) /\ Receipts(c.id) = {}

Checked(c) ==
    /\ Fresh(Data(c)) /\ ValidLayout(Data(c))
    /\ Past!ProtectPlacements(Previous(c), Data(c).blocks)
    /\ IF c.op = "create" THEN c.data.horizon.start >= Past!Today
       ELSE Data(c).horizon = CurrentState(c.schedule).horizon

(* What a transaction can rely on at each of its steps.                    *)
Grounds(w) ==
    /\ step[w] \in Locking \ {"owner"} => Admitted(command[w])
    /\ step[w] \in {"tasks", "checked"} => Wanted(command[w]) \subseteq held[w]
    /\ step[w] = "checked" => Checked(command[w])

(* An answer is a receipt.                                                 *)
AnswersStored == \A w \in Worker : answer[w] = NoAnswer \/ answer[w] \in commands

(* A stored layout places no task but those whose versions it names, so a  *)
(* command that locks these locks every task its checks look at.           *)
SourcesNamed == \A h \in history : Scheduled(h.state) \subseteq Selected(h.state)

TxInv ==
    /\ TxTypes /\ OneOwner
    /\ \A w \in Worker : Grounds(w)
    /\ AnswersStored /\ SourcesNamed
    /\ Past!IInv

(* The tables that a command reads and writes.                             *)
tables == <<schedules, history, allocations, commands, tasks, preferences>>

----------------------------------------------------------------------------
(* What a transaction relies on stays while the tables stay.               *)

LEMMA DataKept ==
    ASSUME NEW c, UNCHANGED <<schedules, history>>
    PROVE  /\ Data(c)' = Data(c) /\ Previous(c)' = Previous(c)
           /\ CurrentState(c.schedule)' = CurrentState(c.schedule)
           /\ Wanted(c)' = Wanted(c)
<1>1. \A s : Rows(s)' = Rows(s)
  BY DEF Rows
<1>2. \A s : CurrentState(s)' = CurrentState(s)
  BY <1>1 DEF CurrentState, CurrentRow
<1>3. Targets(c)' = Targets(c)
  BY <1>1 DEF Targets, UndoTarget, RedoTarget
<1>4. Data(c)' = Data(c)
  BY <1>3 DEF Data, Target
<1>5. Wanted(c)' = Wanted(c)
  BY <1>2, <1>4 DEF Wanted, Selected
<1> QED BY <1>2, <1>4, <1>5 DEF Previous

LEMMA AdmittedKept ==
    ASSUME NEW c, Admitted(c), UNCHANGED <<schedules, history, commands>>
    PROVE  Admitted(c)'
<1>1. \A s : Rows(s)' = Rows(s)
  BY DEF Rows
<1>2. Targets(c)' = Targets(c)
  BY <1>1 DEF Targets, UndoTarget, RedoTarget
<1> QED BY <1>2 DEF Admitted, Admissible, NextVersion, Receipts

LEMMA LayoutKept ==
    ASSUME NEW state, ValidLayout(state), Fresh(state), preferences' = preferences,
           \A t \in Selected(state) : tasks'[t] = tasks[t]
    PROVE  ValidLayout(state)' /\ Fresh(state)'
<1>1. \A t \in Scheduled(state) : t \in Selected(state)
  BY DEF ValidLayout, Scheduled
<1>2. \A t \in Scheduled(state) : FitsTask(state.blocks, t)'
  BY <1>1 DEF ValidLayout, FitsTask
<1>3. Scheduled(state)' = Scheduled(state) /\ Selected(state)' = Selected(state)
  BY DEF Scheduled, Selected
<1>4. ValidLayout(state)'
  BY <1>2, <1>3 DEF ValidLayout
<1>5. Fresh(state)'
  BY <1>3 DEF Fresh
<1> QED BY <1>4, <1>5

LEMMA CheckedKept ==
    ASSUME NEW c, Checked(c), UNCHANGED <<schedules, history, preferences, sampled>>,
           \A t \in Selected(Data(c)) : tasks'[t] = tasks[t],
           \A b \in Previous(c) : tasks'[b.task] = tasks[b.task]
    PROVE  Checked(c)'
<1>1. PICK state : state = Data(c)
  OBVIOUS
<1>2. PICK previous : previous = Previous(c)
  OBVIOUS
<1>3. /\ Data(c)' = state /\ Previous(c)' = previous
      /\ CurrentState(c.schedule)' = CurrentState(c.schedule)
  BY <1>1, <1>2, DataKept
<1>4. ValidLayout(state)' /\ Fresh(state)'
  BY <1>1, LayoutKept DEF Checked
<1>5. Past!ProtectPlacements(previous, state.blocks)'
  BY <1>1, <1>2 DEF Checked, Past!ProtectPlacements, Past!Active, Past!Key, Past!Keys
<1>6. Past!Today' = Past!Today
  BY DEF Past!Today
<1> QED BY <1>1, <1>3, <1>4, <1>5, <1>6 DEF Checked

LEMMA GroundsKept ==
    ASSUME NEW w \in Worker, Grounds(w), UNCHANGED <<tables, sampled>>,
           step'[w] = step[w], command'[w] = command[w], held'[w] = held[w]
    PROVE  Grounds(w)'
<1>1. PICK c : c = command[w]
  OBVIOUS
<1>2. UNCHANGED <<schedules, history, commands, tasks, preferences, sampled>>
  BY DEF tables
<1>3. Admitted(c) => Admitted(c)'
  BY <1>2, AdmittedKept
<1>4. Wanted(c)' = Wanted(c)
  BY <1>2, DataKept
<1>5. Checked(c) => Checked(c)'
  BY <1>2, CheckedKept
<1> QED BY <1>1, <1>3, <1>4, <1>5 DEF Grounds

(* A transaction that has not locked the account row relies on nothing.    *)
LEMMA NoGrounds ==
    ASSUME NEW w \in Worker, step[w] \in {"idle", "begun", "owner"}
    PROVE  Grounds(w)
BY DEF Grounds, Locking

LEMMA NoGroundsNext ==
    ASSUME NEW w \in Worker, step'[w] \in {"idle", "begun", "owner"}
    PROVE  Grounds(w)'
BY DEF Grounds, Locking

----------------------------------------------------------------------------
(* Steps that write no table: to Past they are no step.                    *)

QuietStep(w) ==
    \/ \E c \in Command : Begin(w, c)
    \/ LockOwner(w) \/ Lookup(w) \/ LockPreferences(w) \/ LockTasks(w)
    \/ Conflict(w) \/ Abort(w)

LEMMA QuietTables ==
    ASSUME NEW w \in Worker, QuietStep(w)
    PROVE  UNCHANGED <<tables, now, begun, sampled>>
<1>1. CASE \E c \in Command : Begin(w, c)
  BY <1>1 DEF Begin, vars, tables
<1>2. CASE LockOwner(w)
  BY <1>2 DEF LockOwner, vars, tables
<1>3. CASE Lookup(w)
  BY <1>3 DEF Lookup, Refuse, vars, tables
<1>4. CASE LockPreferences(w)
  BY <1>4 DEF LockPreferences, vars, tables
<1>5. CASE LockTasks(w)
  BY <1>5 DEF LockTasks, vars, tables
<1>6. CASE Conflict(w)
  BY <1>6 DEF Conflict, Refuse, tables
<1>7. CASE Abort(w)
  BY <1>7 DEF Abort, Refuse, tables
<1> QED BY <1>1, <1>2, <1>3, <1>4, <1>5, <1>6, <1>7 DEF QuietStep

(* A step of one transaction leaves the control state of the others alone. *)
Aside(w) ==
    \A v \in Worker \ {w} : /\ step'[v] = step[v] /\ command'[v] = command[v]
                            /\ held'[v] = held[v]

(* The locks and the program counters after a step of connection w.        *)
LEMMA ReleaseControl ==
    ASSUME NEW w \in Worker, TxTypes, OneOwner, Release(w), DOMAIN answer' = Worker,
           now' = now, now \in 0..LastMinute, sampled' <= now
    PROVE  TxTypes' /\ OneOwner' /\ Aside(w) /\ step'[w] = "idle"
<1>1. /\ step' = [step EXCEPT ![w] = "idle"]
      /\ command' = [command EXCEPT ![w] = NoCommand]
      /\ held' = [held EXCEPT ![w] = {}]
      /\ owner' = owner \ {w}
  BY DEF Release
<1>2. /\ step' \in [Worker -> {"idle", "begun"} \cup Locking] /\ step'[w] = "idle"
      /\ DOMAIN command' = Worker /\ DOMAIN held' = Worker
      /\ Aside(w)
  BY <1>1 DEF TxTypes, Aside
<1>3. TxTypes'
  BY <1>1, <1>2 DEF TxTypes, Aside
<1>4. OneOwner'
  BY <1>1, <1>2 DEF OneOwner, TxTypes, Locking, Aside
<1> QED BY <1>2, <1>3, <1>4

(* A transaction goes from one place to another and keeps its lock.        *)
LEMMA GoControl ==
    ASSUME NEW w \in Worker, TxTypes, OneOwner, NEW place \in Locking, step[w] \in Locking,
           Go(w, place), UNCHANGED <<owner, command>>, DOMAIN held' = Worker,
           \A v \in Worker \ {w} : held'[v] = held[v], DOMAIN answer' = Worker,
           now' = now, now \in 0..LastMinute, sampled' <= now
    PROVE  TxTypes' /\ OneOwner' /\ Aside(w) /\ step'[w] = place
<1>1. step' = [step EXCEPT ![w] = place]
  BY DEF Go
<1>2. step' \in [Worker -> {"idle", "begun"} \cup Locking] /\ step'[w] = place /\ Aside(w)
  BY <1>1 DEF TxTypes, Aside
<1>3. TxTypes'
  BY <1>2 DEF TxTypes, Aside, Locking
<1>4. OneOwner'
  BY <1>2 DEF OneOwner, TxTypes, Aside
<1> QED BY <1>2, <1>3, <1>4

LEMMA BeginControl ==
    ASSUME NEW w \in Worker, TxTypes, OneOwner, NEW c \in Command, Begin(w, c)
    PROVE  TxTypes' /\ OneOwner' /\ Aside(w) /\ step'[w] = "begun"
<1>1. /\ step' = [step EXCEPT ![w] = "begun"]
      /\ command' = [command EXCEPT ![w] = c]
      /\ answer' = [answer EXCEPT ![w] = NoAnswer]
      /\ UNCHANGED <<owner, held, now, sampled>>
      /\ step[w] = "idle"
  BY DEF Begin, Go, vars
<1>2. /\ step' \in [Worker -> {"idle", "begun"} \cup Locking] /\ step'[w] = "begun"
      /\ DOMAIN command' = Worker /\ command'[w] = c
      /\ Aside(w)
  BY <1>1 DEF TxTypes, Aside
<1>3. TxTypes'
  BY <1>1, <1>2 DEF TxTypes, Aside
<1>4. OneOwner'
  BY <1>1, <1>2 DEF OneOwner, TxTypes, Locking, Aside
<1> QED BY <1>2, <1>3, <1>4

LEMMA LockOwnerControl ==
    ASSUME NEW w \in Worker, TxTypes, OneOwner, LockOwner(w)
    PROVE  TxTypes' /\ OneOwner' /\ Aside(w) /\ step'[w] = "owner"
<1>1. /\ step' = [step EXCEPT ![w] = "owner"]
      /\ UNCHANGED <<command, held, answer, now, sampled>>
      /\ step[w] = "begun" /\ owner = {} /\ owner' = {w}
  BY DEF LockOwner, Go, vars
<1>2. /\ step' \in [Worker -> {"idle", "begun"} \cup Locking] /\ step'[w] = "owner"
      /\ Aside(w)
  BY <1>1 DEF TxTypes, Aside, Locking
<1>3. TxTypes'
  BY <1>1, <1>2 DEF TxTypes, Aside
<1>4. OneOwner'
  BY <1>1, <1>2 DEF OneOwner, TxTypes, Locking, Aside
<1> QED BY <1>2, <1>3, <1>4

(* The others keep what they rely on when the tables stay.                 *)
LEMMA OthersGrounds ==
    ASSUME TxInv, NEW w \in Worker, Aside(w), UNCHANGED <<tables, sampled>>, Grounds(w)'
    PROVE  \A v \in Worker : Grounds(v)'
<1> SUFFICES ASSUME NEW v \in Worker, v # w PROVE Grounds(v)'
  OBVIOUS
<1>1. Grounds(v) /\ step'[v] = step[v] /\ command'[v] = command[v] /\ held'[v] = held[v]
  BY DEF TxInv, Aside
<1> QED BY <1>1, GroundsKept

(* While one transaction holds the account row the others rely on nothing. *)
LEMMA OthersWait ==
    ASSUME TxInv, NEW w \in Worker, step[w] \in Locking, Aside(w), step'[w] = "idle"
    PROVE  \A v \in Worker : Grounds(v)'
<1> SUFFICES ASSUME NEW v \in Worker PROVE Grounds(v)'
  OBVIOUS
<1>1. v # w => step[v] \in {"idle", "begun"}
  BY DEF TxInv, TxTypes, OneOwner
<1>2. step'[v] \in {"idle", "begun"}
  BY <1>1 DEF Aside
<1> QED BY <1>2, NoGroundsNext

LEMMA QuietControl ==
    ASSUME TxInv, NEW w \in Worker, QuietStep(w)
    PROVE  /\ TxTypes' /\ OneOwner' /\ Aside(w) /\ AnswersStored'
           /\ Grounds(w)'
<1>1. /\ UNCHANGED <<tables, now, sampled>> /\ commands' = commands
      /\ TxTypes /\ OneOwner /\ AnswersStored /\ Grounds(w)
      /\ now \in 0..LastMinute /\ sampled' <= now
      /\ DOMAIN answer = Worker /\ DOMAIN held = Worker
  BY QuietTables DEF tables, TxInv, TxTypes
<1>2. PICK c : c = command[w]
  OBVIOUS
<1>3. Aside(w) /\ (UNCHANGED answer \/ answer' = [answer EXCEPT ![w] = NoAnswer])
         => AnswersStored'
  BY <1>1 DEF AnswersStored
<1>4. ASSUME Refuse(w)
      PROVE  TxTypes' /\ OneOwner' /\ Aside(w) /\ AnswersStored' /\ Grounds(w)'
  <2>1. Release(w) /\ UNCHANGED answer
    BY <1>4 DEF Refuse
  <2>2. TxTypes' /\ OneOwner' /\ Aside(w) /\ step'[w] = "idle"
    BY <1>1, <2>1, ReleaseControl
  <2> QED BY <1>3, <2>1, <2>2, NoGroundsNext
<1>5. CASE \E d \in Command : Begin(w, d)
  <2>1. PICK d \in Command : Begin(w, d)
    BY <1>5
  <2>2. TxTypes' /\ OneOwner' /\ Aside(w) /\ step'[w] = "begun"
    BY <1>1, <2>1, BeginControl
  <2>3. answer' = [answer EXCEPT ![w] = NoAnswer]
    BY <2>1 DEF Begin
  <2> QED BY <1>3, <2>2, <2>3, NoGroundsNext
<1>6. CASE LockOwner(w)
  <2>1. TxTypes' /\ OneOwner' /\ Aside(w) /\ step'[w] = "owner"
    BY <1>1, <1>6, LockOwnerControl
  <2>2. UNCHANGED answer
    BY <1>6 DEF LockOwner
  <2> QED BY <1>3, <2>1, <2>2, NoGroundsNext
<1>7. CASE Lookup(w)
  <2>1. step[w] = "owner" /\ step[w] \in Locking
    BY <1>7 DEF Lookup, Locking
  <2>2. CASE Refuse(w)
    BY <1>4, <2>2
  <2>3. CASE Known(c) /\ Receipts(c.id) # {} /\ ~Refuse(w)
    <3>1. PICK r \in Receipts(c.id) :
             /\ r.digest = DigestOf(c)
             /\ Answer(w, r.schedule, Applied(r))
             /\ Release(w)
      BY <1>2, <1>7, <2>3 DEF Lookup
    <3>2. r \in commands /\ r.id = c.id
      BY DEF Receipts
    <3>3. r = [id |-> c.id, digest |-> DigestOf(c), schedule |-> r.schedule,
               applied |-> r.applied]
      BY <3>1, <3>2 DEF TxInv, Past!IInv, Past!TypeOK
    <3>4. answer' = [answer EXCEPT ![w] = r]
      BY <1>2, <3>1, <3>3 DEF Answer, Applied
    <3>5. DOMAIN answer' = Worker
      BY <1>1, <3>4
    <3>6. TxTypes' /\ OneOwner' /\ Aside(w) /\ step'[w] = "idle"
      BY <1>1, <3>1, <3>5, ReleaseControl
    <3>7. AnswersStored'
      BY <1>1, <3>2, <3>4 DEF AnswersStored
    <3> QED BY <3>6, <3>7, NoGroundsNext
  <2>4. CASE ~(Known(c) /\ Receipts(c.id) # {}) /\ ~Refuse(w)
    <3>1. Admissible(c) /\ Go(w, "found") /\ UNCHANGED <<owner, command, held, answer>>
      BY <1>2, <1>7, <2>4 DEF Lookup
    <3>2. "found" \in Locking
      BY DEF Locking
    <3>3. TxTypes' /\ OneOwner' /\ Aside(w) /\ step'[w] = "found"
      BY <1>1, <2>1, <3>1, <3>2, GoControl
    <3>4. Admitted(c)
      BY <2>4, <3>1 DEF Admitted, Admissible, Known
    <3>5. Admitted(c)'
      BY <1>1, <3>4, AdmittedKept DEF tables
    <3>6. Grounds(w)'
      BY <1>2, <3>1, <3>3, <3>5 DEF Grounds
    <3> QED BY <1>3, <3>1, <3>3, <3>6
  <2> QED BY <2>2, <2>3, <2>4
<1>8. CASE LockPreferences(w)
  <2>1. /\ step[w] = "found" /\ step[w] \in Locking /\ "sources" \in Locking
        /\ Go(w, "sources") /\ UNCHANGED <<owner, command, held, answer>>
    BY <1>8 DEF LockPreferences, Locking
  <2>2. TxTypes' /\ OneOwner' /\ Aside(w) /\ step'[w] = "sources"
    BY <1>1, <2>1, GoControl
  <2>3. Admitted(c)'
    BY <1>1, <1>2, <2>1, AdmittedKept DEF tables, Grounds, Locking
  <2>4. Grounds(w)'
    BY <1>2, <2>1, <2>2, <2>3 DEF Grounds
  <2> QED BY <1>3, <2>1, <2>2, <2>4
<1>9. CASE LockTasks(w)
  <2>1. /\ step[w] = "sources" /\ step[w] \in Locking /\ "tasks" \in Locking
        /\ UNCHANGED <<owner, command, answer>>
    BY <1>9 DEF LockTasks, Locking
  <2>2. Admitted(c)'
    BY <1>1, <1>2, <2>1, AdmittedKept DEF tables, Grounds, Locking
  <2>3. Wanted(c)' = Wanted(c)
    BY <1>1, DataKept DEF tables
  <2>4. CASE Wanted(c) \ held[w] = {}
    <3>1. Go(w, "tasks") /\ UNCHANGED held
      BY <1>2, <1>9, <2>4 DEF LockTasks
    <3>2. TxTypes' /\ OneOwner' /\ Aside(w) /\ step'[w] = "tasks"
      BY <1>1, <2>1, <3>1, GoControl
    <3>3. Grounds(w)'
      BY <1>2, <2>1, <2>2, <2>3, <2>4, <3>1, <3>2 DEF Grounds
    <3> QED BY <1>3, <2>1, <3>2, <3>3
  <2>5. CASE Wanted(c) \ held[w] # {}
    <3>1. /\ held' = [held EXCEPT ![w] = @ \cup {Min(Wanted(c) \ held[w])}]
          /\ UNCHANGED step
      BY <1>2, <1>9, <2>5 DEF LockTasks
    <3>2. /\ DOMAIN held' = Worker /\ DOMAIN answer' = Worker
          /\ \A v \in Worker \ {w} : held'[v] = held[v]
      BY <1>1, <2>1, <3>1
    <3>3. Go(w, "sources") /\ "sources" \in Locking
      BY <1>1, <2>1, <3>1 DEF Go, TxTypes, Locking
    <3>4. TxTypes' /\ OneOwner' /\ Aside(w) /\ step'[w] = "sources"
      BY <1>1, <2>1, <3>2, <3>3, GoControl
    <3>5. Grounds(w)'
      BY <1>2, <2>1, <2>2, <3>4 DEF Grounds
    <3> QED BY <1>3, <2>1, <3>4, <3>5
  <2> QED BY <2>4, <2>5
<1>10. CASE Conflict(w)
  BY <1>4, <1>10 DEF Conflict
<1>11. CASE Abort(w)
  BY <1>4, <1>11 DEF Abort
<1> QED BY <1>5, <1>6, <1>7, <1>8, <1>9, <1>10, <1>11 DEF QuietStep

(* The abstract invariant is kept by what Past does and by what it is not. *)
LEMMA PastKept ==
    ASSUME Past!IInv, [Past!Next]_(Past!vars)
    PROVE  Past!IInv'
BY PastAssumptions, Past!NextIInv

LEMMA PastStutters ==
    ASSUME UNCHANGED <<tables, begun, sampled>>
    PROVE  [Past!Next]_(Past!vars)
BY DEF tables, Past!vars

LEMMA QuietSteps ==
    ASSUME TxInv, NEW w \in Worker, QuietStep(w)
    PROVE  TxInv' /\ [Past!Next]_(Past!vars)
<1>1. UNCHANGED <<tables, begun, sampled>>
  BY QuietTables
<1>2. [Past!Next]_(Past!vars)
  BY <1>1, PastStutters
<1>3. Past!IInv'
  BY <1>2, PastKept DEF TxInv
<1>4. TxTypes' /\ OneOwner' /\ Aside(w) /\ AnswersStored' /\ Grounds(w)'
  BY QuietControl
<1>5. \A v \in Worker : Grounds(v)'
  BY <1>1, <1>4, OthersGrounds
<1>6. SourcesNamed'
  BY <1>1 DEF tables, TxInv, SourcesNamed, Scheduled, Selected
<1> QED BY <1>2, <1>3, <1>4, <1>5, <1>6 DEF TxInv

----------------------------------------------------------------------------
(* The check: Past's clock catches up with the clock.                      *)

LEMMA SampleTicks ==
    ASSUME TxInv, Sample, UNCHANGED tables
    PROVE  [Past!Next]_(Past!vars)
<1>1. /\ now \in 0..LastMinute /\ sampled \in 0..LastMinute /\ sampled <= now
      /\ sampled' = now
  BY DEF Sample, TxInv, TxTypes, Past!IInv, Past!TypeOK
<1>2. begun' = begun \cup
          UNION {{[schedule |-> s, key |-> Past!Key(b)] :
                     b \in {c \in Past!CurrentState(s).blocks :
                               sampled <= c.start /\ c.start < now}} :
                 s \in DOMAIN schedules}
  BY SameReads DEF Sample
<1>3. CASE sampled < now
  <2>1. Past!Tick(now)
    BY <1>1, <1>2, <1>3 DEF Past!Tick, tables
  <2> QED BY <1>1, <2>1 DEF Past!Next
<1>4. CASE sampled = now
  <2>1. Past!CurrentFact
    BY PastAssumptions, Past!CurrentIsUnique DEF TxInv, Past!IInv
  <2>2. \A s \in DOMAIN schedules : \A b \in Past!CurrentState(s).blocks : b.start \in Nat
    BY <2>1 DEF Past!CurrentFact, Past!SavedState, Past!Block
  <2>3. \A s \in DOMAIN schedules :
           {c \in Past!CurrentState(s).blocks : sampled <= c.start /\ c.start < now} = {}
    BY <1>1, <1>4, <2>2
  <2>4. begun' = begun
    BY <1>2, <2>3
  <2> QED BY <1>1, <1>4, <2>4, PastStutters
<1> QED BY <1>1, <1>3, <1>4

LEMMA CheckSteps ==
    ASSUME TxInv, NEW w \in Worker, Check(w)
    PROVE  TxInv' /\ [Past!Next]_(Past!vars)
<1>1. PICK c : c = command[w]
  OBVIOUS
<1>2. /\ step[w] = "tasks" /\ step[w] \in Locking /\ "checked" \in Locking
      /\ Sample /\ sampled' = now
      /\ UNCHANGED <<tables, now, answer>> /\ commands' = commands
  BY DEF Check, Refuse, Sample, Locking, tables
<1>3. [Past!Next]_(Past!vars)
  BY <1>2, SampleTicks
<1>4. Past!IInv'
  BY <1>3, PastKept DEF TxInv
<1>5. SourcesNamed' /\ AnswersStored'
  BY <1>2 DEF tables, TxInv, SourcesNamed, Scheduled, Selected, AnswersStored
<1>6. /\ TxTypes /\ OneOwner /\ now \in 0..LastMinute /\ sampled' <= now
      /\ DOMAIN answer' = Worker /\ DOMAIN held = Worker
  BY <1>2 DEF TxInv, TxTypes
<1>7. CASE Refuse(w)
  <2>1. TxTypes' /\ OneOwner' /\ Aside(w) /\ step'[w] = "idle"
    BY <1>2, <1>6, <1>7, ReleaseControl DEF Refuse
  <2>2. \A v \in Worker : Grounds(v)'
    BY <1>2, <2>1, OthersWait
  <2> QED BY <1>3, <1>4, <1>5, <2>1, <2>2 DEF TxInv
<1>8. CASE ~Refuse(w)
  <2>1. /\ Validate(Data(c), Previous(c))
        /\ IF c.op = "create" THEN c.data.horizon.start >= Today
           ELSE Data(c).horizon = CurrentState(c.schedule).horizon
        /\ Go(w, "checked") /\ UNCHANGED <<owner, command, held>>
    BY <1>1, <1>8 DEF Check
  <2>2. TxTypes' /\ OneOwner' /\ Aside(w) /\ step'[w] = "checked"
    BY <1>2, <1>6, <2>1, GoControl
  <2>3. Admitted(c) /\ Wanted(c) \subseteq held[w]
    BY <1>1, <1>2 DEF TxInv, Grounds, Locking
  <2>4. Admitted(c)' /\ Wanted(c)' = Wanted(c)
    BY <1>2, <2>3, AdmittedKept, DataKept DEF tables
  <2>5. Checked(c)'
    <3>1. PICK state : state = Data(c)
      OBVIOUS
    <3>2. PICK previous : previous = Previous(c)
      OBVIOUS
    <3>3. /\ Data(c)' = state /\ Previous(c)' = previous
          /\ CurrentState(c.schedule)' = CurrentState(c.schedule)
      BY <1>2, <3>1, <3>2, DataKept DEF tables
    <3>4. ValidLayout(state)' /\ Fresh(state)'
      BY <1>2, <2>1, <3>1, LayoutKept DEF Validate, tables
    <3>5. Past!ProtectPlacements(previous, state.blocks)'
      BY <1>2, <2>1, <3>1, <3>2
         DEF Validate, ProtectPlacements, Active, Keys, Key, tables,
             Past!ProtectPlacements, Past!Active, Past!Keys, Past!Key
    <3>6. Past!Today' = Today
      BY <1>2 DEF Past!Today, Today
    <3> QED BY <2>1, <3>1, <3>3, <3>4, <3>5, <3>6 DEF Checked
  <2>6. Grounds(w)'
    BY <1>1, <2>1, <2>2, <2>3, <2>4, <2>5 DEF Grounds
  <2>7. \A v \in Worker \ {w} : Grounds(v)'
    <3> SUFFICES ASSUME NEW v \in Worker \ {w} PROVE Grounds(v)'
      OBVIOUS
    <3>1. step[v] \in {"idle", "begun"}
      BY <1>2, <1>6 DEF TxTypes, OneOwner
    <3> QED BY <2>2, <3>1, NoGroundsNext DEF Aside
  <2> QED BY <1>3, <1>4, <1>5, <2>2, <2>6, <2>7 DEF TxInv
<1> QED BY <1>7, <1>8

----------------------------------------------------------------------------
(* The commits: each one is the atomic command at the time of the check.   *)

(* What a transaction that is about to write knows.                        *)
LEMMA ReadyToCommit ==
    ASSUME TxInv, NEW w \in Worker, NEW c, c = command[w], step[w] = "checked"
    PROVE  /\ c \in Command /\ step[w] \in Locking
           /\ Admissible(c) /\ Past!Unused(c.id)
           /\ Past!Validate(Data(c), Previous(c))
           /\ ValidLayout(Data(c))
           /\ IF c.op = "create" THEN c.data.horizon.start >= Past!Today
              ELSE Data(c).horizon = Past!CurrentState(c.schedule).horizon
<1>1. c \in Command /\ Admitted(c) /\ Checked(c) /\ step[w] \in Locking
  BY DEF TxInv, TxTypes, Grounds, Locking
<1>2. Past!Unused(c.id)
  BY <1>1 DEF Admitted, Receipts, Past!Unused
<1>3. Past!Validate(Data(c), Previous(c))
  BY <1>1, SameReads, SameLayouts DEF Checked, Past!Validate
<1> QED BY <1>1, <1>2, <1>3, SameReads DEF Admitted, Checked

LEMMA CreateSimulates ==
    ASSUME TxInv, NEW w \in Worker, NEW s \in Schedule, CommitCreate(w, s)
    PROVE  Past!Next
<1>1. PICK c : c = command[w]
  OBVIOUS
<1>2. step[w] = "checked" /\ c.op = "create" /\ NoConflict(c)
  BY <1>1 DEF CommitCreate
<1>3. /\ c \in Command /\ Past!Unused(c.id) /\ c.data.horizon.start >= Past!Today
      /\ Past!Validate(c.data, {})
  BY <1>1, <1>2, ReadyToCommit DEF Data, Previous
<1>4. c.id \in RequestId /\ c.data \in Past!Candidate
  BY <1>2, <1>3, CommandAssumption, SameSets
<1>5. /\ \A o \in DOMAIN schedules : Past!Apart(c.data.horizon, schedules[o].horizon)
      /\ Past!Unallocated(s, c.data)
  BY <1>2, SameReads DEF NoConflict, Apart, Past!Apart, Past!Unallocated
<1>6. DigestOf(c) = [op |-> "create", data |-> c.data]
  BY <1>2 DEF DigestOf
<1>7. /\ s \notin DOMAIN schedules
      /\ schedules' = [x \in DOMAIN schedules \cup {s} |->
            IF x = s THEN [version |-> 1, current |-> 1, horizon |-> c.data.horizon]
                     ELSE schedules[x]]
      /\ history' = history \cup {[schedule |-> s, revision |-> 1, state |-> c.data]}
      /\ UNCHANGED <<tasks, preferences, sampled, begun>>
  BY <1>1 DEF CommitCreate
<1>8. Past!Allocate(s, c.data)
  BY <1>1, SameReads DEF CommitCreate, Allocate, Past!Allocate
<1>9. Past!Finish(s, c.id, [op |-> "create", data |-> c.data], 1)
  BY <1>1, <1>6 DEF CommitCreate, Finish, Past!Finish
<1>10. Past!Create(s, c.id)
  BY <1>3, <1>4, <1>5, <1>7, <1>8, <1>9 DEF Past!Create
<1> QED BY <1>4, <1>10 DEF Past!Next

LEMMA ReplaceSimulates ==
    ASSUME TxInv, NEW w \in Worker, CommitReplace(w)
    PROVE  Past!Next
<1>1. PICK c : c = command[w]
  OBVIOUS
<1>2. step[w] = "checked" /\ c.op = "replace" /\ NoConflict(c)
  BY <1>1 DEF CommitReplace
<1>3. PICK s : s = c.schedule
  OBVIOUS
<1>4. /\ c \in Command /\ Past!Unused(c.id) /\ Admissible(c)
      /\ c.data.horizon = Past!CurrentState(s).horizon
      /\ Past!Validate(c.data, Past!CurrentState(s).blocks)
  BY <1>1, <1>2, <1>3, ReadyToCommit, SameReads DEF Data, Previous
<1>5. /\ c.id \in RequestId /\ c.data \in Past!Candidate
      /\ s \in Schedule /\ c.expected \in 1..VersionLimit
  BY <1>2, <1>3, <1>4, CommandAssumption, SameSets
<1>6. s \in DOMAIN schedules /\ Past!NextVersion(s, c.expected)
  BY <1>2, <1>3, <1>4 DEF Admissible, NextVersion, Past!NextVersion
<1>7. Past!Unallocated(s, c.data)
  BY <1>2, <1>3, SameReads DEF NoConflict, Data, Unallocated, Past!Unallocated
<1>8. DigestOf(c) = [op |-> "replace", schedule |-> s, expected |-> c.expected, data |-> c.data]
  BY <1>2, <1>3 DEF DigestOf
<1>9. UNCHANGED <<tasks, preferences, sampled, begun>>
  BY DEF CommitReplace
<1>10. Past!Allocate(s, c.data)
  BY <1>1, <1>3, SameReads DEF CommitReplace, Allocate, Past!Allocate
<1>11. history' = Past!Trim(Past!Kept(s) \cup {Past!Revision(s, c.expected, c.data)}, s)
  BY <1>1, <1>3
     DEF CommitReplace, Trim, Kept, Revision, Cardinality,
         Past!Trim, Past!Kept, Past!Revision, Past!Cardinality
<1>12. Past!Finish(s, c.id, [op |-> "replace", schedule |-> s, expected |-> c.expected,
                             data |-> c.data], c.expected + 1)
  BY <1>1, <1>3, <1>8 DEF CommitReplace, Finish, Past!Finish
<1>13. Past!SetHeader(s, c.expected + 1, c.expected + 1)
  BY <1>1, <1>3 DEF CommitReplace, SetHeader, Past!SetHeader
<1>14. Past!Replace(s, c.id, c.expected)
  BY <1>4, <1>5, <1>6, <1>7, <1>9, <1>10, <1>11, <1>12, <1>13 DEF Past!Replace
<1> QED BY <1>5, <1>14 DEF Past!Next

LEMMA TravelSimulates ==
    ASSUME TxInv, NEW w \in Worker, CommitTravel(w)
    PROVE  Past!Next
<1>1. PICK c : c = command[w]
  OBVIOUS
<1>2. step[w] = "checked" /\ c.op \in {"undo", "redo"} /\ NoConflict(c)
  BY <1>1 DEF CommitTravel
<1>3. PICK s : s = c.schedule
  OBVIOUS
<1>4. PICK target : target = Target(c)
  OBVIOUS
<1>5. /\ c \in Command /\ Past!Unused(c.id) /\ Admissible(c)
      /\ target.state.horizon = Past!CurrentState(s).horizon
      /\ Past!Validate(target.state, Past!CurrentState(s).blocks)
  BY <1>1, <1>2, <1>3, <1>4, ReadyToCommit, SameReads DEF Data, Previous
<1>6. c.id \in RequestId /\ s \in Schedule /\ c.expected \in 1..VersionLimit
  BY <1>2, <1>3, <1>5, CommandAssumption
<1>7. s \in DOMAIN schedules /\ Past!NextVersion(s, c.expected) /\ Targets(c) # {}
  BY <1>2, <1>3, <1>5 DEF Admissible, NextVersion, Past!NextVersion
<1>8. target \in Targets(c)
  BY <1>4, <1>7 DEF Target
<1>9. /\ target \in Past!Rows(s)
      /\ IF c.op = "undo" THEN Past!UndoTarget(s, target) ELSE Past!RedoTarget(s, target)
  BY <1>3, <1>8, SameReads DEF Targets, UndoTarget, RedoTarget, Past!UndoTarget, Past!RedoTarget
<1>10. Past!Unallocated(s, target.state)
  BY <1>2, <1>3, <1>4, SameReads DEF NoConflict, Data, Unallocated, Past!Unallocated
<1>11. DigestOf(c) = [op |-> c.op, schedule |-> s, expected |-> c.expected]
  BY <1>2, <1>3 DEF DigestOf
<1>12. UNCHANGED <<history, tasks, preferences, sampled, begun>>
  BY DEF CommitTravel
<1>13. Past!Allocate(s, target.state)
  BY <1>1, <1>2, <1>3, <1>4, SameReads DEF CommitTravel, Data, Allocate, Past!Allocate
<1>14. Past!SetHeader(s, c.expected + 1, target.revision)
  BY <1>1, <1>3, <1>4 DEF CommitTravel, SetHeader, Past!SetHeader
<1>15. Past!Finish(s, c.id, [op |-> c.op, schedule |-> s, expected |-> c.expected],
                   c.expected + 1)
  BY <1>1, <1>3, <1>11 DEF CommitTravel, Finish, Past!Finish
<1>16. Past!Travel(s, c.id, c.expected, c.op)
  BY <1>5, <1>7, <1>9, <1>10, <1>12, <1>13, <1>14, <1>15 DEF Past!Travel
<1> QED BY <1>2, <1>6, <1>16 DEF Past!Next

CommitStep(w) == CommitReplace(w) \/ CommitTravel(w) \/ \E s \in Schedule : CommitCreate(w, s)

(* What the commits have in common: the answer is the receipt.             *)
LEMMA CommitWrites ==
    ASSUME TxInv, NEW w \in Worker, CommitStep(w)
    PROVE  /\ step[w] = "checked" /\ step[w] \in Locking /\ Release(w)
           /\ UNCHANGED <<tasks, preferences, now, sampled>>
           /\ \E r : commands' = commands \cup {r} /\ answer' = [answer EXCEPT ![w] = r]
           /\ \A h \in history' : h \in history \/ h.state = Data(command[w])
<1>1. PICK c : c = command[w]
  OBVIOUS
<1>2. CASE CommitReplace(w)
  <2>1. /\ step[w] = "checked" /\ Release(w) /\ c.op = "replace"
        /\ UNCHANGED <<tasks, preferences, now, sampled>>
        /\ Finish(c.schedule, c.id, DigestOf(c), c.expected + 1)
        /\ Answer(w, c.schedule, c.expected + 1)
        /\ history' = Trim(Kept(c.schedule) \cup {Revision(c.schedule, c.expected, c.data)},
                           c.schedule)
    BY <1>1, <1>2 DEF CommitReplace
  <2>2. \A h \in history' : h \in history \/ h.state = Data(c)
    BY <2>1 DEF Trim, Kept, Revision, Data
  <2> QED BY <1>1, <2>1, <2>2 DEF Finish, Answer, Locking
<1>3. CASE CommitTravel(w)
  <2>1. /\ step[w] = "checked" /\ Release(w)
        /\ UNCHANGED <<history, tasks, preferences, now, sampled>>
        /\ Finish(c.schedule, c.id, DigestOf(c), c.expected + 1)
        /\ Answer(w, c.schedule, c.expected + 1)
    BY <1>1, <1>3 DEF CommitTravel
  <2> QED BY <1>1, <2>1 DEF Finish, Answer, Locking
<1>4. CASE \E s \in Schedule : CommitCreate(w, s)
  <2>1. PICK s \in Schedule : CommitCreate(w, s)
    BY <1>4
  <2>2. /\ step[w] = "checked" /\ Release(w) /\ c.op = "create"
        /\ UNCHANGED <<tasks, preferences, now, sampled>>
        /\ Finish(s, c.id, DigestOf(c), 1)
        /\ Answer(w, s, 1)
        /\ history' = history \cup {[schedule |-> s, revision |-> 1, state |-> c.data]}
    BY <1>1, <2>1 DEF CommitCreate
  <2>3. \A h \in history' : h \in history \/ h.state = Data(c)
    BY <2>2 DEF Data
  <2> QED BY <1>1, <2>2, <2>3 DEF Finish, Answer, Locking
<1> QED BY <1>2, <1>3, <1>4 DEF CommitStep

LEMMA CommitSteps ==
    ASSUME TxInv, NEW w \in Worker, CommitStep(w)
    PROVE  TxInv' /\ [Past!Next]_(Past!vars)
<1>1. Past!Next
  BY CreateSimulates, ReplaceSimulates, TravelSimulates DEF CommitStep
<1>2. Past!IInv'
  BY <1>1, PastKept DEF TxInv
<1>3. /\ step[w] = "checked" /\ step[w] \in Locking /\ Release(w)
      /\ UNCHANGED <<tasks, preferences, now, sampled>>
      /\ \A h \in history' : h \in history \/ h.state = Data(command[w])
  BY CommitWrites
<1>4. PICK r : commands' = commands \cup {r} /\ answer' = [answer EXCEPT ![w] = r]
  BY CommitWrites
<1>5. /\ TxTypes /\ OneOwner /\ now \in 0..LastMinute /\ sampled' <= now
      /\ DOMAIN answer' = Worker
  BY <1>3, <1>4 DEF TxInv, TxTypes
<1>6. TxTypes' /\ OneOwner' /\ Aside(w) /\ step'[w] = "idle"
  BY <1>3, <1>5, ReleaseControl
<1>7. \A v \in Worker : Grounds(v)'
  BY <1>3, <1>6, OthersWait
<1>8. AnswersStored'
  BY <1>4, <1>5 DEF TxInv, TxTypes, AnswersStored
<1>9. SourcesNamed'
  <2>1. PICK state : state = Data(command[w])
    OBVIOUS
  <2>2. ValidLayout(state)
    BY <1>3, <2>1, ReadyToCommit
  <2>3. Scheduled(state) \subseteq Selected(state)
    BY <2>2 DEF ValidLayout, Scheduled
  <2>4. \A h \in history' : Scheduled(h.state) \subseteq Selected(h.state)
    BY <1>3, <2>1, <2>3 DEF TxInv, SourcesNamed
  <2> QED BY <2>4 DEF SourcesNamed, Scheduled, Selected
<1> QED BY <1>1, <1>2, <1>6, <1>7, <1>8, <1>9 DEF TxInv

----------------------------------------------------------------------------
(* The other writers.                                                      *)

(* The tasks a checked command looks at are locked, those it has placed    *)
(* before included.                                                        *)
LEMMA LockedTasks ==
    ASSUME TxInv, NEW w \in Worker, NEW c, c = command[w], step[w] = "checked"
    PROVE  /\ Selected(Data(c)) \subseteq held[w]
           /\ \A b \in Previous(c) : b.task \in held[w]
<1>1. Wanted(c) \subseteq held[w] /\ Admitted(c)
  BY DEF TxInv, Grounds, Locking
<1>2. Selected(Data(c)) \subseteq held[w]
  BY <1>1 DEF Wanted
<1>3. CASE c.op = "create"
  BY <1>2, <1>3 DEF Previous
<1>4. CASE c.op # "create"
  <2>1. c.schedule \in DOMAIN schedules
    BY <1>1, <1>4 DEF Admitted, Admissible
  <2>2. Past!CurrentFact
    BY PastAssumptions, Past!CurrentIsUnique DEF TxInv, Past!IInv
  <2>3. \E h \in history : CurrentState(c.schedule) = h.state
    BY <2>1, <2>2, SameReads DEF Past!CurrentFact, CurrentState
  <2>4. Scheduled(CurrentState(c.schedule)) \subseteq Selected(CurrentState(c.schedule))
    BY <2>3 DEF TxInv, SourcesNamed
  <2>5. \A b \in Previous(c) : b.task \in Selected(CurrentState(c.schedule))
    BY <1>4, <2>4 DEF Previous, Scheduled
  <2> QED BY <1>1, <1>2, <1>4, <2>5 DEF Wanted
<1> QED BY <1>3, <1>4

(* A change of a task or of the preferences keeps all that is relied on.   *)
LEMMA SourcesGrounds ==
    ASSUME TxInv, UNCHANGED <<schedules, history, commands, txVars>>, NEW T,
           \A t \in Task \ T : tasks'[t] = tasks[t],
           \A w \in Worker : step[w] = "checked" =>
               held[w] \cap T = {} /\ preferences' = preferences
    PROVE  \A w \in Worker : Grounds(w)'
<1> SUFFICES ASSUME NEW w \in Worker PROVE Grounds(w)'
  OBVIOUS
<1>1. PICK c : c = command[w]
  OBVIOUS
<1>2. step' = step /\ command' = command /\ held' = held /\ sampled' = sampled
  BY DEF txVars
<1>3. Admitted(c) => Admitted(c)'
  BY AdmittedKept
<1>4. Wanted(c)' = Wanted(c)
  BY DataKept
<1>5. ASSUME step[w] = "checked" PROVE Checked(c)'
  <2>1. Checked(c)
    BY <1>1, <1>5 DEF TxInv, Grounds
  <2>2. /\ Selected(Data(c)) \subseteq held[w]
        /\ \A b \in Previous(c) : b.task \in held[w]
    BY <1>1, <1>5, LockedTasks
  <2>3. \A b \in Previous(c) : b.task \in Task
    <3>1. CASE c.op = "create"
      BY <3>1 DEF Previous
    <3>2. CASE c.op # "create"
      <4>1. c.schedule \in DOMAIN schedules
        BY <1>1, <1>5, <3>2 DEF TxInv, Grounds, Locking, Admitted, Admissible
      <4>2. Past!CurrentFact
        BY PastAssumptions, Past!CurrentIsUnique DEF TxInv, Past!IInv
      <4>3. CurrentState(c.schedule) \in SavedState
        BY <4>1, <4>2, SameReads, SameSets DEF Past!CurrentFact
      <4> QED BY <3>2, <4>3 DEF Previous, SavedState, Block
    <3> QED BY <3>1, <3>2
  <2>4. \A t \in Selected(Data(c)) : tasks'[t] = tasks[t]
    BY <1>5, <2>2 DEF Selected
  <2>5. \A b \in Previous(c) : tasks'[b.task] = tasks[b.task]
    BY <1>5, <2>2, <2>3
  <2> QED BY <1>2, <1>5, <2>1, <2>4, <2>5, CheckedKept
<1>6. Grounds(w)
  BY DEF TxInv
<1> QED BY <1>1, <1>2, <1>3, <1>4, <1>5, <1>6 DEF Grounds

LEMMA OutsideControl ==
    ASSUME TxInv, UNCHANGED <<commands, history, txVars>>,
           now' \in 0..LastMinute, now <= now'
    PROVE  TxTypes' /\ OneOwner' /\ AnswersStored' /\ SourcesNamed'
<1>1. sampled \in Int /\ now \in Int
  BY DEF TxInv, TxTypes, Past!IInv, Past!TypeOK
<1>2. TxTypes'
  BY <1>1 DEF TxInv, TxTypes, txVars
<1>3. OneOwner' /\ AnswersStored'
  BY DEF TxInv, OneOwner, AnswersStored, txVars
<1>4. SourcesNamed'
  BY DEF TxInv, SourcesNamed, Scheduled, Selected
<1> QED BY <1>2, <1>3, <1>4

LEMMA PatchTaskSteps ==
    ASSUME TxInv, NEW t \in Task, PatchTask(t)
    PROVE  TxInv' /\ [Past!Next]_(Past!vars)
<1>1. /\ \/ \E pending \in BOOLEAN, shape \in Shape : Past!UpdateTask(t, pending, shape)
         \/ Past!DeleteTask(t)
      /\ UNCHANGED <<schedules, history, commands, preferences, now, txVars>>
      /\ \A u \in Task \ {t} : tasks'[u] = tasks[u]
  <2>1. UNCHANGED txVars /\ sampled' = sampled
    BY DEF PatchTask, txVars
  <2>2. tasks \in [Task -> [version : 1..SourceLimit, pending : BOOLEAN,
                            deleted : BOOLEAN, shape : Shape]]
    BY DEF TxInv, Past!IInv, Past!TypeOK
  <2>3. CASE \E pending \in BOOLEAN, shape \in Shape : UpdateTask(t, pending, shape)
    BY <2>1, <2>2, <2>3 DEF UpdateTask, Past!UpdateTask
  <2>4. CASE DeleteTask(t)
    BY <2>1, <2>2, <2>4 DEF DeleteTask, Past!DeleteTask
  <2> QED BY <2>3, <2>4 DEF PatchTask
<1>2. Past!Next
  BY <1>1 DEF Past!Next
<1>3. Past!IInv'
  BY <1>2, PastKept DEF TxInv
<1>4. now \in 0..LastMinute
  BY DEF TxInv, TxTypes
<1>5. TxTypes' /\ OneOwner' /\ AnswersStored' /\ SourcesNamed'
  BY <1>1, <1>4, OutsideControl
<1>6. \A w \in Worker : held[w] \cap {t} = {}
  BY DEF PatchTask
<1>7. \A w \in Worker : Grounds(w)'
  BY <1>1, <1>6, SourcesGrounds
<1> QED BY <1>2, <1>3, <1>5, <1>7 DEF TxInv

LEMMA PatchPreferencesSteps ==
    ASSUME TxInv, PatchPreferences
    PROVE  TxInv' /\ [Past!Next]_(Past!vars)
<1>1. /\ Past!UpdatePreferences
      /\ UNCHANGED <<schedules, history, commands, tasks, now, txVars>>
  BY DEF PatchPreferences, UpdatePreferences, Past!UpdatePreferences, txVars
<1>2. Past!Next
  BY <1>1 DEF Past!Next
<1>3. Past!IInv'
  BY <1>2, PastKept DEF TxInv
<1>4. now \in 0..LastMinute
  BY DEF TxInv, TxTypes
<1>5. TxTypes' /\ OneOwner' /\ AnswersStored' /\ SourcesNamed'
  BY <1>1, <1>4, OutsideControl
<1>6. \A w \in Worker : step[w] # "checked"
  BY DEF PatchPreferences
<1>7. \A w \in Worker : Grounds(w)'
  BY <1>1, <1>6, SourcesGrounds
<1> QED BY <1>2, <1>3, <1>5, <1>7 DEF TxInv

LEMMA TimePassesSteps ==
    ASSUME TxInv, TimePasses
    PROVE  TxInv' /\ [Past!Next]_(Past!vars)
<1>1. /\ UNCHANGED <<schedules, history, allocations, commands, tasks, preferences, begun, txVars>>
      /\ now < LastMinute /\ now' = now + 1 /\ now \in 0..LastMinute
  BY DEF TimePasses, TxInv, TxTypes
<1>2. UNCHANGED <<tables, begun, sampled>>
  BY <1>1 DEF tables, txVars
<1>3. [Past!Next]_(Past!vars)
  BY <1>2, PastStutters
<1>4. Past!IInv'
  BY <1>3, PastKept DEF TxInv
<1>5. now' \in 0..LastMinute /\ now <= now'
  BY <1>1, TimeAssumption
<1>6. TxTypes' /\ OneOwner' /\ AnswersStored' /\ SourcesNamed'
  BY <1>1, <1>5, OutsideControl
<1>7. /\ \A t \in Task \ {} : tasks'[t] = tasks[t]
      /\ \A w \in Worker : step[w] = "checked" =>
            held[w] \cap {} = {} /\ preferences' = preferences
  BY <1>1
<1>8. \A w \in Worker : Grounds(w)'
  BY <1>1, <1>7, SourcesGrounds
<1> QED BY <1>3, <1>4, <1>6, <1>8 DEF TxInv

----------------------------------------------------------------------------
LEMMA InitPast == TxInit => Past!Init
BY DEF TxInit, Init, Past!Init

LEMMA InitTxInv == TxInit => TxInv
<1> SUFFICES ASSUME TxInit PROVE TxInv
  OBVIOUS
<1>1. Past!IInv
  BY PastAssumptions, Past!InitIInv, InitPast
<1>2. /\ owner = {} /\ step = [w \in Worker |-> "idle"] /\ history = {} /\ commands = {}
      /\ command = [w \in Worker |-> NoCommand] /\ held = [w \in Worker |-> {}]
      /\ answer = [w \in Worker |-> NoAnswer] /\ now = 0 /\ sampled = 0
  BY DEF TxInit, Init
<1>3. TxTypes /\ OneOwner /\ AnswersStored /\ SourcesNamed
  BY <1>2, TimeAssumption DEF TxTypes, OneOwner, AnswersStored, SourcesNamed, Locking
<1>4. \A w \in Worker : Grounds(w)
  BY <1>2, NoGrounds
<1> QED BY <1>1, <1>3, <1>4 DEF TxInv

(* One step of the transactions.                                           *)
LEMMA TxSteps ==
    ASSUME TxInv, [TxNext]_allVars
    PROVE  TxInv' /\ [Past!Next]_(Past!vars)
<1>1. ASSUME NEW w \in Worker,
             LockOwner(w) \/ Advance(w) \/ Abort(w) \/ \E c \in Command : Begin(w, c)
      PROVE  TxInv' /\ [Past!Next]_(Past!vars)
  <2>1. QuietStep(w) \/ Check(w) \/ CommitStep(w)
    BY <1>1 DEF Advance, QuietStep, CommitStep
  <2> QED BY <2>1, QuietSteps, CheckSteps, CommitSteps
<1>2. CASE \E t \in Task : PatchTask(t)
  BY <1>2, PatchTaskSteps
<1>3. CASE PatchPreferences
  BY <1>3, PatchPreferencesSteps
<1>4. CASE TimePasses
  BY <1>4, TimePassesSteps
<1>5. CASE UNCHANGED allVars
  <2>1. UNCHANGED <<tables, begun, sampled, now, txVars>>
    BY <1>5 DEF allVars, tables, txVars
  <2>2. UNCHANGED <<schedules, history, commands, tasks, preferences, txVars>>
    BY <2>1 DEF tables
  <2>3. [Past!Next]_(Past!vars)
    BY <2>1, PastStutters
  <2>4. Past!IInv'
    BY <2>3, PastKept DEF TxInv
  <2>5. now' \in 0..LastMinute /\ now <= now'
    BY <2>1 DEF TxInv, TxTypes
  <2>6. TxTypes' /\ OneOwner' /\ AnswersStored' /\ SourcesNamed'
    BY <2>2, <2>5, OutsideControl
  <2>7. /\ \A t \in Task \ {} : tasks'[t] = tasks[t]
        /\ \A w \in Worker : step[w] = "checked" =>
              held[w] \cap {} = {} /\ preferences' = preferences
    BY <2>2
  <2>8. \A w \in Worker : Grounds(w)'
    BY <2>2, <2>7, SourcesGrounds
  <2> QED BY <2>3, <2>4, <2>6, <2>8 DEF TxInv
<1> QED BY <1>1, <1>2, <1>3, <1>4, <1>5 DEF TxNext

(* Whatever the interleaving, all parts of the invariant hold; with Past's *)
(* part, everything proved of ScheduleHistory holds of the tables that the *)
(* transactions leave behind.                                              *)
THEOREM TxInvariant == TxSafety => []TxInv
<1>1. TxInit => TxInv
  BY InitTxInv
<1>2. TxInv /\ [TxNext]_allVars => TxInv'
  BY TxSteps
<1> QED BY <1>1, <1>2, PTL DEF TxSafety

(* No patch of a task or of the preferences and no other command comes     *)
(* between a command's checks and its writes: _sources holds FOR SHARE     *)
(* locks on all that _validate has looked at.                              *)
THEOREM TxCheckedStaysTrue == TxSafety => []CheckedStaysTrue
<1>1. TxInv => CheckedStaysTrue
  BY SameReads
     DEF TxInv, Grounds, Checked, CheckedStaysTrue, Past!ProtectPlacements
<1> QED BY <1>1, TxInvariant, PTL

(* All answers to one request, however often and by whichever connection   *)
(* it is carried out, are its one receipt in schedule_commands.            *)
THEOREM TxRepliesAgree == TxSafety => []RepliesAgree
<1>1. TxInv => RepliesAgree
  BY DEF TxInv, AnswersStored, RepliesAgree, Past!IInv, Past!OneReceiptPerVersion
<1> QED BY <1>1, TxInvariant, PTL

(* The transactions implement the atomic commands: each of them takes      *)
(* place at one moment, the one at which it read the clock.                *)
THEOREM TxAtomicCommands == TxSafety => AtomicCommands
<1>1. TxInit => Atomic!Init
  BY DEF TxInit, Init, Atomic!Init
<1>2. TxInv /\ [TxNext]_allVars => [Atomic!Next]_(Atomic!vars)
  BY TxSteps, SameNext DEF Past!vars, Atomic!vars
<1>3. TxSafety => []TxInv
  BY TxInvariant
<1> QED BY <1>1, <1>2, <1>3, PTL DEF TxSafety, AtomicCommands, Atomic!Spec
=============================================================================
