----------------------- MODULE ScheduleHistory_proofs -----------------------
(***************************************************************************)
(* Proofs about ScheduleHistory for every value of its constants.          *)
(***************************************************************************)
EXTENDS ScheduleHistory, FiniteSetTheorems, WellFoundedInduction, TLAPS

(* What a client can send is a state that can be stored.                   *)
LEMMA CandidateIsState == Candidate \subseteq SavedState
<1> SUFFICES ASSUME NEW c \in Candidate PROVE c \in SavedState
  OBVIOUS
<1>1. c.blocks \in SUBSET Block
  BY LayoutAssumption DEF Candidate
<1>2. c.taskVersions \in [Task -> Nat] /\ c.preferenceVersion \in Nat
  BY LimitAssumption DEF Candidate
<1> QED BY <1>1, <1>2 DEF Candidate, SavedState

(* The current row of a schedule exists and is the only one of its number. *)
CurrentFact ==
    \A s \in DOMAIN schedules :
        /\ CurrentRow(s) \in history
        /\ CurrentRow(s).schedule = s
        /\ CurrentRow(s).revision = schedules[s].current
        /\ CurrentState(s) \in SavedState
        /\ \A h \in history :
              h.schedule = s /\ h.revision = schedules[s].current => CurrentState(s) = h.state

LEMMA CurrentIsUnique == TypeOK /\ CurrentIsStored => CurrentFact
<1> SUFFICES ASSUME TypeOK, CurrentIsStored, NEW s \in DOMAIN schedules
             PROVE  /\ CurrentRow(s) \in history
                    /\ CurrentRow(s).schedule = s
                    /\ CurrentRow(s).revision = schedules[s].current
                    /\ CurrentState(s) \in SavedState
                    /\ \A h \in history :
                          h.schedule = s /\ h.revision = schedules[s].current
                             => CurrentState(s) = h.state
  BY DEF CurrentFact
<1>1. PICK row \in history : row.schedule = s /\ row.revision = schedules[s].current
  BY DEF CurrentIsStored, Revisions, Rows
<1>2. /\ CurrentRow(s) \in Rows(s)
      /\ CurrentRow(s).revision = schedules[s].current
  BY <1>1 DEF CurrentRow, Rows
<1>3. CurrentRow(s) \in history /\ CurrentRow(s).schedule = s
  BY <1>2 DEF Rows
<1>4. \A h \in history : h.schedule = s /\ h.revision = schedules[s].current
                            => h = CurrentRow(s)
  BY <1>2, <1>3 DEF CurrentIsStored
<1>5. CurrentState(s) \in SavedState
  BY <1>3 DEF CurrentState, TypeOK
<1> QED BY <1>2, <1>3, <1>4, <1>5 DEF CurrentState

LEMMA CurrentIsUniqueNext == TypeOK' /\ CurrentIsStored' => CurrentFact'
BY CurrentIsUnique, PTL

----------------------------------------------------------------------------
(* Types.                                                                  *)

LEMMA InitTypeOK == Init => TypeOK
<1> SUFFICES ASSUME Init PROVE TypeOK
  OBVIOUS
<1>1. /\ DOMAIN schedules \subseteq Schedule
      /\ schedules \in [DOMAIN schedules ->
                          [version : 1..VersionLimit, current : Nat, horizon : Horizon]]
  BY DEF Init
<1>2. tasks \in [Task -> [version : 1..SourceLimit, pending : BOOLEAN,
                          deleted : BOOLEAN, shape : Shape]]
  <2>1. 1 \in 1..SourceLimit
    BY LimitAssumption
  <2> QED BY <2>1 DEF Init
<1> QED BY <1>1, <1>2, LimitAssumption, TimeAssumption DEF Init, TypeOK

LEMMA FinishType ==
    ASSUME NEW s \in Schedule, NEW id \in RequestId, NEW digest \in Digest,
           NEW version \in Nat, TypeOK, Finish(s, id, digest, version)
    PROVE  commands' \subseteq [id : RequestId, digest : Digest, schedule : Schedule, applied : Nat]
BY DEF Finish, TypeOK

LEMMA AllocateType ==
    ASSUME NEW s \in Schedule, NEW state \in SavedState, TypeOK, Allocate(s, state)
    PROVE  allocations' \subseteq [task : Task, schedule : Schedule]
<1>1. Scheduled(state) \subseteq Task
  BY DEF Scheduled, SavedState, Block
<1> QED BY <1>1 DEF Allocate, TypeOK

LEMMA CreateTypeOK ==
    ASSUME NEW s \in Schedule, NEW id \in RequestId, TypeOK, Create(s, id)
    PROVE  TypeOK'
<1>1. PICK state \in Candidate :
          /\ schedules' = [x \in DOMAIN schedules \cup {s} |->
                IF x = s THEN [version |-> 1, current |-> 1, horizon |-> state.horizon]
                         ELSE schedules[x]]
          /\ history' = history \cup {[schedule |-> s, revision |-> 1, state |-> state]}
          /\ Allocate(s, state)
          /\ Finish(s, id, [op |-> "create", data |-> state], 1)
  BY DEF Create
<1>2. state \in SavedState /\ state.horizon \in Horizon
  BY CandidateIsState DEF SavedState
<1>3. [op |-> "create", data |-> state] \in Digest
  BY <1>2 DEF Digest
<1>4. commands' \subseteq [id : RequestId, digest : Digest, schedule : Schedule, applied : Nat]
  BY <1>1, <1>3, FinishType
<1>5. allocations' \subseteq [task : Task, schedule : Schedule]
  BY <1>1, <1>2, AllocateType
<1>6. history' \subseteq [schedule : Schedule, revision : Nat, state : SavedState]
  BY <1>1, <1>2 DEF TypeOK
<1>7. /\ DOMAIN schedules' \subseteq Schedule
      /\ schedules' \in [DOMAIN schedules' ->
                           [version : 1..VersionLimit, current : Nat, horizon : Horizon]]
  BY <1>1, <1>2, LimitAssumption DEF TypeOK
<1> QED BY <1>4, <1>5, <1>6, <1>7 DEF Create, TypeOK

LEMMA SetHeaderType ==
    ASSUME NEW s \in DOMAIN schedules, NEW version \in 1..VersionLimit, NEW current \in Nat,
           TypeOK, SetHeader(s, version, current)
    PROVE  /\ DOMAIN schedules' = DOMAIN schedules
           /\ schedules' \in [DOMAIN schedules' ->
                                [version : 1..VersionLimit, current : Nat, horizon : Horizon]]
           /\ schedules'[s].version = version /\ schedules'[s].current = current
           /\ schedules'[s].horizon = schedules[s].horizon
           /\ \A o \in DOMAIN schedules : o # s => schedules'[o] = schedules[o]
BY DEF SetHeader, TypeOK

LEMMA ReplaceTypeOK ==
    ASSUME NEW s \in Schedule, NEW id \in RequestId, NEW expected \in 1..VersionLimit,
           TypeOK, Replace(s, id, expected)
    PROVE  TypeOK'
<1>1. PICK state \in Candidate :
          /\ Allocate(s, state)
          /\ history' = Trim(Kept(s) \cup {Revision(s, expected, state)}, s)
          /\ Finish(s, id, [op |-> "replace", schedule |-> s, expected |-> expected,
                            data |-> state], expected + 1)
  BY DEF Replace
<1>2. state \in SavedState
  BY CandidateIsState
<1>3. [op |-> "replace", schedule |-> s, expected |-> expected, data |-> state] \in Digest
  BY <1>2, LimitAssumption DEF Digest
<1>4. commands' \subseteq [id : RequestId, digest : Digest, schedule : Schedule, applied : Nat]
  BY <1>1, <1>3, FinishType, LimitAssumption
<1>5. allocations' \subseteq [task : Task, schedule : Schedule]
  BY <1>1, <1>2, AllocateType
<1>6. history' \subseteq [schedule : Schedule, revision : Nat, state : SavedState]
  BY <1>1, <1>2, LimitAssumption DEF TypeOK, Trim, Kept, Revision
<1>7. expected + 1 \in 1..VersionLimit /\ s \in DOMAIN schedules
  BY LimitAssumption DEF Replace, NextVersion
<1>8. /\ DOMAIN schedules' \subseteq Schedule
      /\ schedules' \in [DOMAIN schedules' ->
                           [version : 1..VersionLimit, current : Nat, horizon : Horizon]]
  BY <1>7, SetHeaderType, LimitAssumption DEF Replace, TypeOK
<1> QED BY <1>4, <1>5, <1>6, <1>8 DEF Replace, TypeOK

LEMMA TravelTypeOK ==
    ASSUME NEW s \in Schedule, NEW id \in RequestId, NEW expected \in 1..VersionLimit,
           NEW direction \in {"undo", "redo"}, TypeOK, Travel(s, id, expected, direction)
    PROVE  TypeOK'
<1>1. PICK target \in Rows(s) : /\ Allocate(s, target.state)
                                /\ SetHeader(s, expected + 1, target.revision)
  BY DEF Travel
<1>2. target.state \in SavedState /\ target.revision \in Nat
  BY DEF Rows, TypeOK
<1>3. [op |-> direction, schedule |-> s, expected |-> expected] \in Digest
  BY LimitAssumption DEF Digest
<1>4. commands' \subseteq [id : RequestId, digest : Digest, schedule : Schedule, applied : Nat]
  BY <1>3, FinishType, LimitAssumption DEF Travel
<1>5. allocations' \subseteq [task : Task, schedule : Schedule]
  BY <1>1, <1>2, AllocateType
<1>6. expected + 1 \in 1..VersionLimit /\ s \in DOMAIN schedules
  BY LimitAssumption DEF Travel, NextVersion
<1>7. /\ DOMAIN schedules' \subseteq Schedule
      /\ schedules' \in [DOMAIN schedules' ->
                           [version : 1..VersionLimit, current : Nat, horizon : Horizon]]
  BY <1>1, <1>2, <1>6, SetHeaderType, LimitAssumption DEF TypeOK
<1> QED BY <1>4, <1>5, <1>7 DEF Travel, TypeOK

LEMMA TickTypeOK ==
    ASSUME TypeOK, CurrentFact, NEW minute \in 0..LastMinute, Tick(minute)
    PROVE  TypeOK'
<1>1. ASSUME NEW s \in DOMAIN schedules, NEW b \in CurrentState(s).blocks
      PROVE  [schedule |-> s, key |-> Key(b)]
                \in [schedule : Schedule, key : [task : Task, start : Nat, end : Nat]]
  BY <1>1 DEF CurrentFact, SavedState, Block, Key, TypeOK
<1>2. begun' \subseteq [schedule : Schedule, key : [task : Task, start : Nat, end : Nat]]
  BY <1>1 DEF Tick, TypeOK
<1> QED BY <1>2 DEF Tick, TypeOK

LEMMA SourcesTypeOK ==
    ASSUME TypeOK,
           \/ \E t \in Task, pending \in BOOLEAN, shape \in Shape : UpdateTask(t, pending, shape)
           \/ \E t \in Task : DeleteTask(t)
           \/ UpdatePreferences
    PROVE  TypeOK'
<1>1. CASE \E t \in Task, pending \in BOOLEAN, shape \in Shape : UpdateTask(t, pending, shape)
  BY <1>1, LimitAssumption DEF UpdateTask, TypeOK
<1>2. CASE \E t \in Task : DeleteTask(t)
  BY <1>2, LimitAssumption DEF DeleteTask, TypeOK
<1>3. CASE UpdatePreferences
  BY <1>3, LimitAssumption DEF UpdatePreferences, TypeOK
<1> QED BY <1>1, <1>2, <1>3

----------------------------------------------------------------------------
(* The stored history: each command keeps a current revision.              *)

LEMMA TrimKeepsNewest ==
    ASSUME NEW rows, NEW s, NEW row \in rows,
           \A g \in rows : g.schedule = s => ~(g.revision > row.revision)
    PROVE  row \in Trim(rows, s)
<1>1. {g \in rows : g.schedule = s /\ g.revision > row.revision} = {}
  OBVIOUS
<1>2. Cardinality({g \in rows : g.schedule = s /\ g.revision > row.revision}) = 0
  BY <1>1, FS_EmptySet
<1> QED BY <1>2, LimitAssumption DEF Trim

LEMMA CreateStored ==
    ASSUME NEW s \in Schedule, NEW id \in RequestId, TypeOK, CurrentIsStored, Create(s, id)
    PROVE  CurrentIsStored'
<1>1. PICK state \in Candidate :
          /\ schedules' = [x \in DOMAIN schedules \cup {s} |->
                IF x = s THEN [version |-> 1, current |-> 1, horizon |-> state.horizon]
                         ELSE schedules[x]]
          /\ history' = history \cup {[schedule |-> s, revision |-> 1, state |-> state]}
  BY DEF Create
<1>2. s \notin DOMAIN schedules
  BY DEF Create
<1>3. \A h \in history : h.schedule # s
  BY <1>2 DEF CurrentIsStored
<1>4. \A o \in DOMAIN schedules' : \E h \in history' :
          h.schedule = o /\ h.revision = schedules'[o].current
  <2> SUFFICES ASSUME NEW o \in DOMAIN schedules'
               PROVE  \E h \in history' : h.schedule = o /\ h.revision = schedules'[o].current
    OBVIOUS
  <2>1. CASE o = s
    <3>1. schedules'[s].current = 1
      BY <1>1
    <3>2. [schedule |-> s, revision |-> 1, state |-> state] \in history'
      BY <1>1
    <3> QED BY <2>1, <3>1, <3>2
  <2>2. CASE o # s
    <3>1. o \in DOMAIN schedules /\ schedules'[o] = schedules[o]
      BY <1>1, <2>2
    <3> QED BY <1>1, <3>1 DEF CurrentIsStored, Revisions, Rows
  <2> QED BY <2>1, <2>2
<1>5. \A h \in history' : /\ h.schedule \in DOMAIN schedules'
                           /\ h.revision \in 1..schedules'[h.schedule].version
  BY <1>1, <1>3 DEF CurrentIsStored
<1>6. \A g, h \in history' :
          g.schedule = h.schedule /\ g.revision = h.revision => g = h
  BY <1>1, <1>3 DEF CurrentIsStored
<1>7. \A o \in DOMAIN schedules' : schedules'[o].current \in Revisions(o)'
  BY <1>4 DEF Revisions, Rows
<1> QED BY <1>5, <1>6, <1>7 DEF CurrentIsStored

LEMMA ReplaceStored ==
    ASSUME NEW s \in Schedule, NEW id \in RequestId, NEW expected \in 1..VersionLimit,
           TypeOK, CurrentIsStored, Replace(s, id, expected)
    PROVE  CurrentIsStored'
<1>1. PICK state \in Candidate :
          history' = Trim(Kept(s) \cup {Revision(s, expected, state)}, s)
  BY DEF Replace
<1> DEFINE row == Revision(s, expected, state)
           rows == Kept(s) \cup {row}
<1>2. /\ expected + 1 \in 1..VersionLimit /\ s \in DOMAIN schedules
      /\ schedules[s].version = expected
  BY LimitAssumption DEF Replace, NextVersion
<1>3. /\ DOMAIN schedules' = DOMAIN schedules
      /\ schedules'[s].version = expected + 1 /\ schedules'[s].current = expected + 1
      /\ \A o \in DOMAIN schedules : o # s => schedules'[o] = schedules[o]
  BY <1>2, SetHeaderType, LimitAssumption DEF Replace
<1>4. row.schedule = s /\ row.revision = expected + 1
  BY DEF Revision
<1>5. \A g \in Kept(s) : g.schedule = s => g.revision \in 1..expected
  BY <1>2 DEF Kept, CurrentIsStored
<1>6. row \in history'
  <2>1. \A g \in rows : g.schedule = s => ~(g.revision > row.revision)
    BY <1>4, <1>5, LimitAssumption
  <2> QED BY <1>1, <2>1, TrimKeepsNewest
<1>7. history' \subseteq history \cup {row}
  BY <1>1 DEF Trim, Kept
<1>8. \A h \in history : h.schedule # s => h \in history'
  BY <1>1 DEF Trim, Kept
<1>9. \A h \in history' : h.schedule = s => h = row \/ h.revision \in 1..expected
  BY <1>1, <1>5 DEF Trim
<1>10. \A o \in DOMAIN schedules' : schedules'[o].current \in Revisions(o)'
  <2>1. SUFFICES ASSUME NEW o \in DOMAIN schedules'
                 PROVE  \E h \in history' : h.schedule = o /\ h.revision = schedules'[o].current
    BY DEF Revisions, Rows
  <2>2. CASE o = s
    BY <2>2, <1>3, <1>4, <1>6
  <2>3. CASE o # s
    BY <2>3, <1>3, <1>8 DEF CurrentIsStored, Revisions, Rows
  <2> QED BY <2>2, <2>3
<1>11. \A h \in history' : /\ h.schedule \in DOMAIN schedules'
                            /\ h.revision \in 1..schedules'[h.schedule].version
  <2> SUFFICES ASSUME NEW h \in history'
               PROVE  /\ h.schedule \in DOMAIN schedules'
                      /\ h.revision \in 1..schedules'[h.schedule].version
    OBVIOUS
  <2>1. CASE h.schedule = s
    BY <2>1, <1>2, <1>3, <1>4, <1>9
  <2>2. CASE h.schedule # s
    BY <2>2, <1>3, <1>4, <1>7 DEF CurrentIsStored
  <2> QED BY <2>1, <2>2
<1>12. \A g, h \in history' :
          g.schedule = h.schedule /\ g.revision = h.revision => g = h
  BY <1>4, <1>7, <1>9, LimitAssumption DEF CurrentIsStored
<1> QED BY <1>10, <1>11, <1>12 DEF CurrentIsStored

LEMMA TravelStored ==
    ASSUME NEW s \in Schedule, NEW id \in RequestId, NEW expected \in 1..VersionLimit,
           NEW direction \in {"undo", "redo"},
           TypeOK, CurrentIsStored, Travel(s, id, expected, direction)
    PROVE  CurrentIsStored'
<1>1. PICK target \in Rows(s) : SetHeader(s, expected + 1, target.revision)
  BY DEF Travel
<1>2. /\ expected + 1 \in 1..VersionLimit /\ s \in DOMAIN schedules
      /\ schedules[s].version = expected
  BY LimitAssumption DEF Travel, NextVersion
<1>3. target \in history /\ target.schedule = s /\ target.revision \in Nat
  BY DEF Rows, TypeOK
<1>4. /\ DOMAIN schedules' = DOMAIN schedules
      /\ schedules'[s].version = expected + 1 /\ schedules'[s].current = target.revision
      /\ \A o \in DOMAIN schedules : o # s => schedules'[o] = schedules[o]
  BY <1>1, <1>2, <1>3, SetHeaderType
<1>5. history' = history
  BY DEF Travel
<1>6. \A o \in DOMAIN schedules' : schedules'[o].current \in Revisions(o)'
  BY <1>3, <1>4, <1>5 DEF CurrentIsStored, Revisions, Rows
<1>7. \A h \in history : /\ h.schedule \in DOMAIN schedules'
                          /\ h.revision \in 1..schedules'[h.schedule].version
  BY <1>2, <1>4 DEF CurrentIsStored
<1> QED BY <1>5, <1>6, <1>7 DEF CurrentIsStored

LEMMA OthersStored ==
    CurrentIsStored /\ UNCHANGED <<schedules, history>> => CurrentIsStored'
BY DEF CurrentIsStored, Revisions, Rows

----------------------------------------------------------------------------
(* What every command has in common: it puts one layout in one schedule's  *)
(* place and leaves the other schedules alone.                             *)

Previous(s) == IF s \in DOMAIN schedules THEN CurrentState(s).blocks ELSE {}

Saves(s, state) ==
    /\ DOMAIN schedules' = DOMAIN schedules \cup {s}
    /\ CurrentState(s)' = state
    /\ \A o \in DOMAIN schedules \ {s} : CurrentState(o)' = CurrentState(o)
    /\ Fresh(state)
    /\ ValidLayout(state)
    /\ ProtectPlacements(Previous(s), state.blocks)
    /\ Unallocated(s, state)
    /\ Allocate(s, state)
    /\ UNCHANGED <<tasks, preferences, now, begun>>

LEMMA CreateSaves ==
    ASSUME NEW s \in Schedule, NEW id \in RequestId, TypeOK, CurrentIsStored, Create(s, id)
    PROVE  \E state \in SavedState : Saves(s, state)
<1>1. PICK state \in Candidate :
          /\ Validate(state, {})
          /\ Unallocated(s, state)
          /\ schedules' = [x \in DOMAIN schedules \cup {s} |->
                IF x = s THEN [version |-> 1, current |-> 1, horizon |-> state.horizon]
                         ELSE schedules[x]]
          /\ history' = history \cup {[schedule |-> s, revision |-> 1, state |-> state]}
          /\ Allocate(s, state)
  BY DEF Create
<1>2. state \in SavedState
  BY CandidateIsState
<1>3. s \notin DOMAIN schedules
  BY DEF Create
<1>4. CurrentFact /\ CurrentFact'
  BY CurrentIsUnique, CurrentIsUniqueNext, CreateTypeOK, CreateStored
<1>5. /\ DOMAIN schedules' = DOMAIN schedules \cup {s}
      /\ schedules'[s].current = 1
  BY <1>1
<1>6. CurrentState(s)' = state
  <2>1. [schedule |-> s, revision |-> 1, state |-> state] \in history'
    BY <1>1
  <2> QED BY <1>4, <1>5, <2>1 DEF CurrentFact
<1>7. ASSUME NEW o \in DOMAIN schedules \ {s} PROVE CurrentState(o)' = CurrentState(o)
  <2>1. o \in DOMAIN schedules' /\ schedules'[o] = schedules[o]
    BY <1>1
  <2>2. CurrentRow(o) \in history'
    BY <1>1, <1>4 DEF CurrentFact
  <2> QED BY <1>4, <2>1, <2>2 DEF CurrentFact, CurrentState
<1>8. Previous(s) = {}
  BY <1>3 DEF Previous
<1>9. UNCHANGED <<tasks, preferences, now, begun>>
  BY DEF Create
<1> QED BY <1>1, <1>2, <1>5, <1>6, <1>7, <1>8, <1>9 DEF Saves, Validate

LEMMA ReplaceSaves ==
    ASSUME NEW s \in Schedule, NEW id \in RequestId, NEW expected \in 1..VersionLimit,
           TypeOK, CurrentIsStored, Replace(s, id, expected)
    PROVE  \E state \in SavedState : Saves(s, state)
<1>1. PICK state \in Candidate :
          /\ Validate(state, CurrentState(s).blocks)
          /\ Unallocated(s, state)
          /\ Allocate(s, state)
          /\ history' = Trim(Kept(s) \cup {Revision(s, expected, state)}, s)
  BY DEF Replace
<1> DEFINE row == Revision(s, expected, state)
<1>2. state \in SavedState
  BY CandidateIsState
<1>3. /\ expected + 1 \in 1..VersionLimit /\ s \in DOMAIN schedules
      /\ schedules[s].version = expected
  BY LimitAssumption DEF Replace, NextVersion
<1>4. /\ DOMAIN schedules' = DOMAIN schedules
      /\ schedules'[s].current = expected + 1
      /\ \A o \in DOMAIN schedules : o # s => schedules'[o] = schedules[o]
  BY <1>3, SetHeaderType, LimitAssumption DEF Replace
<1>5. CurrentFact /\ CurrentFact'
  BY CurrentIsUnique, CurrentIsUniqueNext, ReplaceTypeOK, ReplaceStored
<1>6. CurrentState(s)' = state
  <2>1. \A g \in Kept(s) : g.schedule = s => g.revision \in 1..expected
    BY <1>3 DEF Kept, CurrentIsStored
  <2>2. CurrentRow(s)' \in history' /\ CurrentRow(s)'.schedule = s
        /\ CurrentRow(s)'.revision = expected + 1
    BY <1>3, <1>4, <1>5 DEF CurrentFact
  <2>3. CurrentRow(s)' \in Kept(s) \cup {row}
    BY <1>1, <2>2 DEF Trim
  <2>4. CurrentRow(s)' = row
    BY <2>1, <2>2, <2>3, LimitAssumption
  <2> QED BY <2>4 DEF CurrentState, Revision
<1>7. ASSUME NEW o \in DOMAIN schedules \ {s} PROVE CurrentState(o)' = CurrentState(o)
  <2>1. o \in DOMAIN schedules' /\ schedules'[o] = schedules[o]
    BY <1>4
  <2>2. CurrentRow(o) \in history'
    BY <1>1, <1>5 DEF CurrentFact, Trim, Kept
  <2> QED BY <1>5, <2>1, <2>2 DEF CurrentFact, CurrentState
<1>8. Previous(s) = CurrentState(s).blocks
  BY <1>3 DEF Previous
<1>9. UNCHANGED <<tasks, preferences, now, begun>>
  BY DEF Replace
<1>10. DOMAIN schedules' = DOMAIN schedules \cup {s}
  BY <1>3, <1>4
<1> QED BY <1>1, <1>2, <1>6, <1>7, <1>8, <1>9, <1>10 DEF Saves, Validate

LEMMA TravelSaves ==
    ASSUME NEW s \in Schedule, NEW id \in RequestId, NEW expected \in 1..VersionLimit,
           NEW direction \in {"undo", "redo"},
           TypeOK, CurrentIsStored, Travel(s, id, expected, direction)
    PROVE  \E state \in SavedState : Saves(s, state)
<1>1. PICK target \in Rows(s) :
          /\ Validate(target.state, CurrentState(s).blocks)
          /\ Unallocated(s, target.state)
          /\ Allocate(s, target.state)
          /\ SetHeader(s, expected + 1, target.revision)
  BY DEF Travel
<1>2. /\ target \in history /\ target.schedule = s
      /\ target.revision \in Nat /\ target.state \in SavedState
  BY DEF Rows, TypeOK
<1>3. expected + 1 \in 1..VersionLimit /\ s \in DOMAIN schedules
  BY LimitAssumption DEF Travel, NextVersion
<1>4. /\ DOMAIN schedules' = DOMAIN schedules
      /\ schedules'[s].current = target.revision
      /\ \A o \in DOMAIN schedules : o # s => schedules'[o] = schedules[o]
  BY <1>1, <1>2, <1>3, SetHeaderType
<1>5. CurrentFact /\ CurrentFact'
  BY CurrentIsUnique, CurrentIsUniqueNext, TravelTypeOK, TravelStored
<1>6. history' = history
  BY DEF Travel
<1>7. CurrentState(s)' = target.state
  BY <1>2, <1>3, <1>4, <1>5, <1>6 DEF CurrentFact
<1>8. ASSUME NEW o \in DOMAIN schedules \ {s} PROVE CurrentState(o)' = CurrentState(o)
  <2>1. o \in DOMAIN schedules' /\ schedules'[o] = schedules[o]
    BY <1>4
  <2> QED BY <1>5, <1>6, <2>1 DEF CurrentFact, CurrentState
<1>9. Previous(s) = CurrentState(s).blocks
  BY <1>3 DEF Previous
<1>10. UNCHANGED <<tasks, preferences, now, begun>>
  BY DEF Travel
<1>11. DOMAIN schedules' = DOMAIN schedules \cup {s}
  BY <1>3, <1>4
<1> QED BY <1>1, <1>2, <1>7, <1>8, <1>9, <1>10, <1>11 DEF Saves, Validate

LEMMA OthersKeepStates ==
    ASSUME TypeOK, CurrentIsStored, UNCHANGED <<schedules, history>>,
           NEW s \in DOMAIN schedules
    PROVE  CurrentState(s)' = CurrentState(s)
BY DEF CurrentState, CurrentRow, Rows

----------------------------------------------------------------------------
(* One plan per task.                                                      *)

LEMMA SavesOnePlan ==
    ASSUME NEW s \in Schedule, NEW state \in SavedState, TypeOK, OnePlanPerTask, Saves(s, state)
    PROVE  OnePlanPerTask'
<1>1. /\ DOMAIN schedules' = DOMAIN schedules \cup {s}
      /\ CurrentState(s)' = state
      /\ \A o \in DOMAIN schedules \ {s} : CurrentState(o)' = CurrentState(o)
      /\ allocations' = {a \in allocations : a.schedule # s}
                        \cup [task : Scheduled(state), schedule : {s}]
  BY DEF Saves, Allocate
<1>2. Scheduled(state) \subseteq Task
  BY DEF Scheduled, SavedState, Block
<1>3. \A a \in [task : Task, schedule : DOMAIN schedules'] :
         a \in allocations' <=> a.task \in Scheduled(CurrentState(a.schedule)')
  <2> SUFFICES ASSUME NEW a \in [task : Task, schedule : DOMAIN schedules']
               PROVE  a \in allocations' <=> a.task \in Scheduled(CurrentState(a.schedule)')
    OBVIOUS
  <2>1. CASE a.schedule = s
    BY <1>1, <2>1
  <2>2. CASE a.schedule # s
    BY <1>1, <2>2 DEF OnePlanPerTask
  <2> QED BY <2>1, <2>2
<1>4. allocations' \subseteq [task : Task, schedule : DOMAIN schedules']
  BY <1>1, <1>2 DEF OnePlanPerTask
<1>5. allocations' = {a \in [task : Task, schedule : DOMAIN schedules'] :
                         a.task \in Scheduled(CurrentState(a.schedule)')}
  BY <1>3, <1>4
<1>6. \A a, b \in allocations' : a.task = b.task => a = b
  <2>1. \A a \in allocations : a.task \in Scheduled(state) => a.schedule = s
    BY DEF Saves, Unallocated
  <2> QED BY <1>1, <2>1 DEF OnePlanPerTask
<1> QED BY <1>5, <1>6 DEF OnePlanPerTask, Scheduled

----------------------------------------------------------------------------
(* The past is as it was.                                                  *)

LEMMA SavesHonestPast ==
    ASSUME NEW s \in Schedule, NEW state \in SavedState, TypeOK, HonestPast, Saves(s, state)
    PROVE  HonestPast'
<1> SUFFICES ASSUME NEW o \in DOMAIN schedules', NEW b \in CurrentState(o)'.blocks,
                    b.start < now'
             PROVE  [schedule |-> o, key |-> Key(b)] \in begun'
  BY DEF HonestPast, Key
<1>1. now' = now /\ begun' = begun
  BY DEF Saves
<1>2. CASE o # s
  BY <1>1, <1>2 DEF Saves, HonestPast
<1>3. CASE o = s
  <2>1. b \in state.blocks /\ b.start < now
    BY <1>1, <1>3 DEF Saves
  <2>2. Key(b) \in Keys(Previous(s))
    BY <2>1 DEF Saves, ProtectPlacements
  <2>3. s \in DOMAIN schedules /\ Key(b) \in Keys(CurrentState(s).blocks)
    BY <2>2 DEF Previous, Keys
  <2>4. PICK c \in CurrentState(s).blocks : Key(c) = Key(b)
    BY <2>3 DEF Keys
  <2>5. c.start = b.start
    BY <2>4 DEF Key
  <2> QED BY <1>1, <1>3, <2>1, <2>3, <2>4, <2>5 DEF HonestPast
<1> QED BY <1>2, <1>3

LEMMA TickHonestPast ==
    ASSUME TypeOK, CurrentIsStored, CurrentFact, HonestPast,
           NEW minute \in 0..LastMinute, Tick(minute)
    PROVE  HonestPast'
<1>1. UNCHANGED <<schedules, history>> /\ now' = minute
  BY DEF Tick
<1> SUFFICES ASSUME NEW o \in DOMAIN schedules, NEW b \in CurrentState(o).blocks,
                    b.start < minute
             PROVE  [schedule |-> o, key |-> Key(b)] \in begun'
  BY <1>1, OthersKeepStates DEF HonestPast, Key
<1>2. b.start \in Nat /\ now \in Nat
  BY TimeAssumption DEF CurrentFact, SavedState, Block, TypeOK
<1>3. CASE b.start < now
  BY <1>3 DEF HonestPast, Tick
<1>4. CASE now <= b.start
  BY <1>4 DEF Tick
<1> QED BY <1>2, <1>3, <1>4

----------------------------------------------------------------------------
(* A layout that is not stale is valid.                                    *)

(* No stored state names a version its source has not had yet.             *)
SourcesKnown ==
    \A h \in history : /\ h.state.preferenceVersion <= preferences
                       /\ \A t \in Task : h.state.taskVersions[t] <= tasks[t].version

LEMMA SavesFreshValid ==
    ASSUME NEW s \in Schedule, NEW state \in SavedState, TypeOK, FreshMeansValid, Saves(s, state)
    PROVE  FreshMeansValid'
<1> SUFFICES ASSUME NEW o \in DOMAIN schedules', Fresh(CurrentState(o))'
             PROVE  ValidLayout(CurrentState(o))'
  BY DEF FreshMeansValid
<1>1. tasks' = tasks /\ preferences' = preferences
  BY DEF Saves
<1>2. CASE o = s
  BY <1>1, <1>2 DEF Saves, ValidLayout, FitsTask, Selected, Scheduled
<1>3. CASE o # s
  <2>1. o \in DOMAIN schedules /\ CurrentState(o)' = CurrentState(o)
    BY <1>3 DEF Saves
  <2>2. Fresh(CurrentState(o))
    BY <1>1, <2>1 DEF Fresh, Selected
  <2>3. ValidLayout(CurrentState(o))
    BY <2>1, <2>2 DEF FreshMeansValid
  <2> QED BY <1>1, <2>1, <2>3 DEF ValidLayout, FitsTask, Selected, Scheduled
<1> QED BY <1>2, <1>3

(* What the rest of the account does between commands.                     *)
SourcesStep ==
    /\ UNCHANGED <<schedules, history, allocations, commands, now, begun>>
    /\ preferences <= preferences'
    /\ \A t \in Task : tasks'[t] = tasks[t] \/ tasks'[t].version = tasks[t].version + 1

LEMMA SourcesFreshValid ==
    ASSUME TypeOK, TypeOK', CurrentIsStored, CurrentFact, SourcesKnown, FreshMeansValid, SourcesStep
    PROVE  FreshMeansValid'
<1> SUFFICES ASSUME NEW s \in DOMAIN schedules', Fresh(CurrentState(s))'
             PROVE  ValidLayout(CurrentState(s))'
  BY DEF FreshMeansValid
<1> DEFINE state == CurrentState(s)
<1>1. s \in DOMAIN schedules /\ CurrentState(s)' = state
  BY OthersKeepStates DEF SourcesStep
<1>2. /\ state \in SavedState
      /\ state.preferenceVersion <= preferences
      /\ \A t \in Task : state.taskVersions[t] <= tasks[t].version
  BY <1>1 DEF CurrentFact, CurrentState, SourcesKnown
<1>3. \A t \in Selected(state) : /\ ~tasks'[t].deleted
                                 /\ tasks'[t].version = state.taskVersions[t]
  BY <1>1 DEF Fresh, Selected
<1>4. state.preferenceVersion = preferences'
  BY <1>1 DEF Fresh
<1>5. \A t \in Selected(state) : tasks'[t] = tasks[t]
  <2> SUFFICES ASSUME NEW t \in Selected(state), tasks'[t] # tasks[t]
               PROVE  FALSE
    OBVIOUS
  <2>1. t \in Task
    BY DEF Selected
  <2>2. tasks'[t].version = tasks[t].version + 1
    BY <2>1 DEF SourcesStep
  <2>3. tasks[t].version \in Nat /\ state.taskVersions[t] \in Nat
    BY <1>2, <2>1, LimitAssumption DEF TypeOK, SavedState
  <2> QED BY <1>2, <1>3, <2>1, <2>2, <2>3
<1>6. state.preferenceVersion = preferences
  <2>1. state.preferenceVersion \in Nat /\ preferences \in Nat /\ preferences' \in Nat
    BY <1>2, LimitAssumption DEF SavedState, TypeOK
  <2>2. preferences <= preferences'
    BY DEF SourcesStep
  <2> QED BY <1>2, <1>4, <2>1, <2>2
<1>7. Fresh(state)
  BY <1>3, <1>5, <1>6 DEF Fresh
<1>8. ValidLayout(state)
  BY <1>1, <1>7 DEF FreshMeansValid
<1>9. Scheduled(state) \subseteq Selected(state)
  BY <1>8 DEF ValidLayout, Scheduled
<1>10. \A t \in Scheduled(state) : FitsTask(state.blocks, t)'
  <2> SUFFICES ASSUME NEW t \in Scheduled(state) PROVE FitsTask(state.blocks, t)'
    OBVIOUS
  <2>1. tasks'[t] = tasks[t] /\ FitsTask(state.blocks, t)
    BY <1>5, <1>8, <1>9 DEF ValidLayout
  <2> QED BY <1>1, <2>1 DEF FitsTask
<1> QED BY <1>1, <1>5, <1>8, <1>9, <1>10 DEF ValidLayout, Selected, Scheduled

LEMMA SourcesAreSteps ==
    ASSUME TypeOK,
           \/ \E t \in Task, pending \in BOOLEAN, shape \in Shape : UpdateTask(t, pending, shape)
           \/ \E t \in Task : DeleteTask(t)
           \/ UpdatePreferences
    PROVE  SourcesStep
<1>0. preferences \in Nat
  BY LimitAssumption DEF TypeOK
<1>1. CASE \E t \in Task, pending \in BOOLEAN, shape \in Shape : UpdateTask(t, pending, shape)
  BY <1>0, <1>1 DEF UpdateTask, TypeOK, SourcesStep
<1>2. CASE \E t \in Task : DeleteTask(t)
  BY <1>0, <1>2 DEF DeleteTask, TypeOK, SourcesStep
<1>3. CASE UpdatePreferences
  BY <1>0, <1>3 DEF UpdatePreferences, SourcesStep
<1> QED BY <1>1, <1>2, <1>3

(* Every command refuses a layout whose versions are not the live ones, so *)
(* what it stores is known; later versions only grow.                      *)
LEMMA CandidateKnown ==
    ASSUME NEW state \in SavedState, TypeOK, Fresh(state)
    PROVE  /\ state.preferenceVersion <= preferences
           /\ \A t \in Task : state.taskVersions[t] <= tasks[t].version
<1>1. preferences \in Nat /\ \A t \in Task : tasks[t].version \in Nat
  BY LimitAssumption DEF TypeOK
<1>2. ASSUME NEW t \in Task PROVE state.taskVersions[t] <= tasks[t].version
  BY <1>1 DEF Fresh, Selected, SavedState
<1> QED BY <1>1, <1>2 DEF Fresh, SavedState

LEMMA CreateKnown ==
    ASSUME NEW s \in Schedule, NEW id \in RequestId, TypeOK, SourcesKnown, Create(s, id)
    PROVE  SourcesKnown'
<1>1. PICK state \in Candidate :
          /\ Fresh(state)
          /\ history' = history \cup {[schedule |-> s, revision |-> 1, state |-> state]}
  BY DEF Create, Validate
<1>2. state \in SavedState
  BY CandidateIsState
<1> QED BY <1>1, <1>2, CandidateKnown DEF Create, SourcesKnown

LEMMA ReplaceKnown ==
    ASSUME NEW s \in Schedule, NEW id \in RequestId, NEW expected \in 1..VersionLimit,
           TypeOK, SourcesKnown, Replace(s, id, expected)
    PROVE  SourcesKnown'
<1>1. PICK state \in Candidate :
          /\ Fresh(state)
          /\ history' = Trim(Kept(s) \cup {Revision(s, expected, state)}, s)
  BY DEF Replace, Validate
<1>2. state \in SavedState
  BY CandidateIsState
<1>3. Revision(s, expected, state).state = state
  BY DEF Revision
<1>4. history' \subseteq history \cup {Revision(s, expected, state)}
  BY <1>1 DEF Trim, Kept
<1> QED BY <1>1, <1>2, <1>3, <1>4, CandidateKnown DEF Replace, SourcesKnown

LEMMA SourcesStepKnown ==
    ASSUME TypeOK, TypeOK', SourcesKnown, SourcesStep
    PROVE  SourcesKnown'
<1>1. /\ preferences \in Nat /\ preferences' \in Nat
      /\ \A t \in Task : tasks[t].version \in Nat /\ tasks'[t].version \in Nat
  BY LimitAssumption DEF TypeOK
<1>2. \A h \in history : /\ h.state.preferenceVersion \in Nat
                         /\ \A t \in Task : h.state.taskVersions[t] \in Nat
  BY DEF TypeOK, SavedState
<1>3. ASSUME NEW t \in Task PROVE tasks[t].version <= tasks'[t].version
  BY <1>1 DEF SourcesStep
<1> QED BY <1>1, <1>2, <1>3 DEF SourcesKnown, SourcesStep

----------------------------------------------------------------------------
(* Horizons.                                                               *)

LEMMA CreateHorizons ==
    ASSUME NEW s \in Schedule, NEW id \in RequestId, TypeOK, CurrentIsStored, HorizonsApart,
           Create(s, id)
    PROVE  HorizonsApart'
<1>1. PICK state \in Candidate :
          /\ \A o \in DOMAIN schedules : Apart(state.horizon, schedules[o].horizon)
          /\ schedules' = [x \in DOMAIN schedules \cup {s} |->
                IF x = s THEN [version |-> 1, current |-> 1, horizon |-> state.horizon]
                         ELSE schedules[x]]
          /\ history' = history \cup {[schedule |-> s, revision |-> 1, state |-> state]}
  BY DEF Create
<1>2. /\ s \notin DOMAIN schedules
      /\ DOMAIN schedules' = DOMAIN schedules \cup {s}
      /\ schedules'[s].horizon = state.horizon
      /\ \A o \in DOMAIN schedules : schedules'[o] = schedules[o]
  BY <1>1 DEF Create
<1>3. \A h \in history : h.schedule \in DOMAIN schedules
  BY DEF CurrentIsStored
<1>4. \A h \in history' : h.state.horizon = schedules'[h.schedule].horizon
  BY <1>1, <1>2, <1>3 DEF HorizonsApart
<1>5. ASSUME NEW q \in DOMAIN schedules', NEW r \in DOMAIN schedules', q # r
      PROVE  Apart(schedules'[q].horizon, schedules'[r].horizon)
  <2>1. CASE q = s
    BY <1>1, <1>2, <1>5, <2>1
  <2>2. CASE r = s
    <3>1. Apart(state.horizon, schedules[q].horizon)
      BY <1>1, <1>2, <1>5, <2>2
    <3> QED BY <1>2, <1>5, <2>2, <3>1 DEF Apart
  <2>3. CASE q # s /\ r # s
    BY <1>2, <1>5, <2>3 DEF HorizonsApart
  <2> QED BY <2>1, <2>2, <2>3
<1> QED BY <1>4, <1>5 DEF HorizonsApart, Apart

LEMMA ReplaceHorizons ==
    ASSUME NEW s \in Schedule, NEW id \in RequestId, NEW expected \in 1..VersionLimit,
           TypeOK, CurrentIsStored, HorizonsApart, Replace(s, id, expected)
    PROVE  HorizonsApart'
<1>1. PICK state \in Candidate :
          /\ state.horizon = CurrentState(s).horizon
          /\ history' = Trim(Kept(s) \cup {Revision(s, expected, state)}, s)
  BY DEF Replace
<1>2. expected + 1 \in 1..VersionLimit /\ s \in DOMAIN schedules
  BY LimitAssumption DEF Replace, NextVersion
<1>3. /\ DOMAIN schedules' = DOMAIN schedules
      /\ \A o \in DOMAIN schedules : schedules'[o].horizon = schedules[o].horizon
  BY <1>2, SetHeaderType, LimitAssumption DEF Replace
<1>4. state.horizon = schedules[s].horizon
  BY <1>1, <1>2, CurrentIsUnique DEF CurrentFact, CurrentState, HorizonsApart
<1>5. \A h \in history' : h \in history \/ h = Revision(s, expected, state)
  BY <1>1 DEF Trim, Kept
<1>6. \A h \in history' : h.state.horizon = schedules'[h.schedule].horizon
  BY <1>2, <1>3, <1>4, <1>5 DEF HorizonsApart, Revision, CurrentIsStored
<1> QED BY <1>3, <1>6 DEF HorizonsApart, Apart

LEMMA TravelHorizons ==
    ASSUME NEW s \in Schedule, NEW id \in RequestId, NEW expected \in 1..VersionLimit,
           NEW direction \in {"undo", "redo"},
           TypeOK, CurrentIsStored, HorizonsApart, Travel(s, id, expected, direction)
    PROVE  HorizonsApart'
<1>1. PICK target \in Rows(s) : SetHeader(s, expected + 1, target.revision)
  BY DEF Travel
<1>2. expected + 1 \in 1..VersionLimit /\ s \in DOMAIN schedules
  BY LimitAssumption DEF Travel, NextVersion
<1>3. target.revision \in Nat
  BY DEF Rows, TypeOK
<1>4. /\ DOMAIN schedules' = DOMAIN schedules
      /\ \A o \in DOMAIN schedules : schedules'[o].horizon = schedules[o].horizon
  BY <1>1, <1>2, <1>3, SetHeaderType
<1>5. history' = history
  BY DEF Travel
<1> QED BY <1>4, <1>5 DEF HorizonsApart, Apart, CurrentIsStored

----------------------------------------------------------------------------
(* Receipts.                                                               *)

(* A step that writes one receipt, for the version it makes.               *)
Accepts(s, id, digest) ==
    /\ Unused(id)
    /\ DOMAIN schedules' = DOMAIN schedules \cup {s}
    /\ \A o \in DOMAIN schedules \ {s} : schedules'[o] = schedules[o]
    /\ schedules'[s].version = IF s \in DOMAIN schedules THEN schedules[s].version + 1 ELSE 1
    /\ Finish(s, id, digest, schedules'[s].version)

LEMMA AcceptsOneReceipt ==
    ASSUME NEW s \in Schedule, NEW id \in RequestId, NEW digest \in Digest,
           TypeOK, TypeOK', OneReceiptPerVersion, Accepts(s, id, digest)
    PROVE  OneReceiptPerVersion'
<1> DEFINE version == schedules'[s].version
           new == [id |-> id, digest |-> digest, schedule |-> s, applied |-> version]
<1>1. commands' = commands \cup {new}
  BY DEF Accepts, Finish
<1>2. /\ s \in DOMAIN schedules'
      /\ version \in Nat \ {0}
      /\ DOMAIN schedules \subseteq DOMAIN schedules'
      /\ \A o \in DOMAIN schedules' : schedules'[o].version \in Nat
  BY DEF Accepts, TypeOK
<1>3. ASSUME NEW c \in commands, c.schedule = s
      PROVE  s \in DOMAIN schedules /\ version = schedules[s].version + 1
             /\ c.applied \in 1..schedules[s].version
  BY <1>3 DEF OneReceiptPerVersion, Accepts
<1>4. \A c \in commands' : /\ c.schedule \in DOMAIN schedules'
                           /\ c.applied \in 1..schedules'[c.schedule].version
  <2> SUFFICES ASSUME NEW c \in commands'
               PROVE  /\ c.schedule \in DOMAIN schedules'
                      /\ c.applied \in 1..schedules'[c.schedule].version
    OBVIOUS
  <2>1. CASE c = new
    BY <1>2, <2>1
  <2>2. CASE c \in commands /\ c.schedule = s
    <3>1. schedules[s].version \in Nat
      BY <1>3, <2>2 DEF TypeOK
    <3> QED BY <1>2, <1>3, <2>2, <3>1
  <2>3. CASE c \in commands /\ c.schedule # s
    BY <1>2, <2>3 DEF OneReceiptPerVersion, Accepts
  <2> QED BY <1>1, <2>1, <2>2, <2>3
<1>5. ASSUME NEW o \in DOMAIN schedules', NEW v \in 1..schedules'[o].version
      PROVE  \E c \in commands' : c.schedule = o /\ c.applied = v
  <2>1. CASE o # s
    BY <1>1, <2>1 DEF OneReceiptPerVersion, Accepts
  <2>2. CASE o = s /\ v = version
    <3>1. new \in commands' /\ new.schedule = s /\ new.applied = version
      BY <1>1
    <3> QED BY <2>2, <3>1
  <2>3. CASE o = s /\ v # version
    <3>1. v \in 1..(version - 1) /\ version # 1
      BY <1>2, <2>3
    <3>2. s \in DOMAIN schedules /\ version = schedules[s].version + 1
      BY <3>1 DEF Accepts
    <3>3. schedules[s].version \in Nat
      BY <3>2 DEF TypeOK
    <3>4. v \in 1..schedules[s].version
      BY <3>1, <3>2, <3>3
    <3> QED BY <1>1, <2>3, <3>2, <3>4 DEF OneReceiptPerVersion
  <2> QED BY <2>1, <2>2, <2>3
<1>6. ASSUME NEW c \in commands PROVE c.id # id /\ ~(c.schedule = s /\ c.applied = version)
  <2>1. c.id # id
    BY DEF Accepts, Unused
  <2>2. ASSUME c.schedule = s, c.applied = version PROVE FALSE
    <3>1. schedules[s].version \in Nat
      BY <1>3, <2>2 DEF TypeOK
    <3> QED BY <1>3, <2>2, <3>1
  <2> QED BY <2>1, <2>2
<1>7. \A c, d \in commands' :
         c.id = d.id \/ (c.schedule = d.schedule /\ c.applied = d.applied) => c = d
  BY <1>1, <1>6 DEF OneReceiptPerVersion
<1> QED BY <1>4, <1>5, <1>7 DEF OneReceiptPerVersion

LEMMA CreateAccepts ==
    ASSUME NEW s \in Schedule, NEW id \in RequestId, TypeOK, Create(s, id)
    PROVE  \E state \in SavedState :
             /\ Accepts(s, id, [op |-> "create", data |-> state])
             /\ [op |-> "create", data |-> state] \in Digest
             /\ schedules'[s].version = 1
             /\ history' = history \cup {[schedule |-> s, revision |-> 1, state |-> state]}
<1>1. PICK state \in Candidate :
          /\ schedules' = [x \in DOMAIN schedules \cup {s} |->
                IF x = s THEN [version |-> 1, current |-> 1, horizon |-> state.horizon]
                         ELSE schedules[x]]
          /\ history' = history \cup {[schedule |-> s, revision |-> 1, state |-> state]}
          /\ Finish(s, id, [op |-> "create", data |-> state], 1)
  BY DEF Create
<1>2. state \in SavedState
  BY CandidateIsState
<1>3. /\ s \notin DOMAIN schedules
      /\ Unused(id)
  BY DEF Create
<1>4. /\ DOMAIN schedules' = DOMAIN schedules \cup {s}
      /\ \A o \in DOMAIN schedules \ {s} : schedules'[o] = schedules[o]
      /\ schedules'[s].version = 1
  BY <1>1
<1> QED BY <1>1, <1>2, <1>3, <1>4 DEF Accepts, Digest

LEMMA ReplaceAccepts ==
    ASSUME NEW s \in Schedule, NEW id \in RequestId, NEW expected \in 1..VersionLimit,
           TypeOK, Replace(s, id, expected)
    PROVE  \E state \in SavedState :
             LET digest == [op |-> "replace", schedule |-> s, expected |-> expected,
                            data |-> state]
             IN  /\ Accepts(s, id, digest)
                 /\ digest \in Digest
                 /\ schedules'[s].version = expected + 1
                 /\ history' = Trim(Kept(s) \cup {Revision(s, expected, state)}, s)
<1>1. PICK state \in Candidate :
          /\ history' = Trim(Kept(s) \cup {Revision(s, expected, state)}, s)
          /\ Finish(s, id, [op |-> "replace", schedule |-> s, expected |-> expected,
                            data |-> state], expected + 1)
  BY DEF Replace
<1>2. state \in SavedState
  BY CandidateIsState
<1>3. /\ expected + 1 \in 1..VersionLimit /\ s \in DOMAIN schedules
      /\ schedules[s].version = expected /\ Unused(id)
  BY LimitAssumption DEF Replace, NextVersion
<1>4. /\ DOMAIN schedules' = DOMAIN schedules
      /\ schedules'[s].version = expected + 1
      /\ \A o \in DOMAIN schedules : o # s => schedules'[o] = schedules[o]
  BY <1>3, SetHeaderType, LimitAssumption DEF Replace
<1>5. [op |-> "replace", schedule |-> s, expected |-> expected, data |-> state] \in Digest
  BY <1>2, LimitAssumption DEF Digest
<1>6. DOMAIN schedules' = DOMAIN schedules \cup {s}
  BY <1>3, <1>4
<1> QED BY <1>1, <1>2, <1>3, <1>4, <1>5, <1>6 DEF Accepts

LEMMA TravelAccepts ==
    ASSUME NEW s \in Schedule, NEW id \in RequestId, NEW expected \in 1..VersionLimit,
           NEW direction \in {"undo", "redo"}, TypeOK, Travel(s, id, expected, direction)
    PROVE  LET digest == [op |-> direction, schedule |-> s, expected |-> expected]
           IN  Accepts(s, id, digest) /\ digest \in Digest
<1>1. PICK target \in Rows(s) : SetHeader(s, expected + 1, target.revision)
  BY DEF Travel
<1>2. /\ expected + 1 \in 1..VersionLimit /\ s \in DOMAIN schedules
      /\ schedules[s].version = expected /\ Unused(id)
  BY LimitAssumption DEF Travel, NextVersion
<1>3. target.revision \in Nat
  BY DEF Rows, TypeOK
<1>4. /\ DOMAIN schedules' = DOMAIN schedules
      /\ schedules'[s].version = expected + 1
      /\ \A o \in DOMAIN schedules : o # s => schedules'[o] = schedules[o]
  BY <1>1, <1>2, <1>3, SetHeaderType
<1>5. Finish(s, id, [op |-> direction, schedule |-> s, expected |-> expected], expected + 1)
  BY DEF Travel
<1>6. [op |-> direction, schedule |-> s, expected |-> expected] \in Digest
  BY LimitAssumption DEF Digest
<1>7. DOMAIN schedules' = DOMAIN schedules \cup {s}
  BY <1>2, <1>4
<1> QED BY <1>2, <1>4, <1>5, <1>6, <1>7 DEF Accepts

LEMMA CreateWasSent ==
    ASSUME NEW s \in Schedule, NEW id \in RequestId, TypeOK, HistoryWasSent, Create(s, id)
    PROVE  HistoryWasSent'
<1>1. PICK state \in SavedState :
          /\ Accepts(s, id, [op |-> "create", data |-> state])
          /\ schedules'[s].version = 1
          /\ history' = history \cup {[schedule |-> s, revision |-> 1, state |-> state]}
  BY CreateAccepts
<1> DEFINE new == [id |-> id, digest |-> [op |-> "create", data |-> state],
                   schedule |-> s, applied |-> 1]
<1>2. commands' = commands \cup {new}
  BY <1>1 DEF Accepts, Finish
<1>3. /\ new \in commands' /\ new.schedule = s /\ new.applied = 1
      /\ new.digest.op = "create" /\ new.digest.data = state
  BY <1>2
<1> DEFINE row == [schedule |-> s, revision |-> 1, state |-> state]
<1>4. ASSUME NEW h \in history
      PROVE  \E c \in commands' : /\ c.schedule = h.schedule /\ c.applied = h.revision
                                  /\ c.digest.op \in {"create", "replace"}
                                  /\ c.digest.data = h.state
  BY <1>2 DEF HistoryWasSent
<1>5. row.schedule = s /\ row.revision = 1 /\ row.state = state
  OBVIOUS
<1> HIDE DEF new, row
<1>6. \E c \in commands' : /\ c.schedule = row.schedule /\ c.applied = row.revision
                           /\ c.digest.op \in {"create", "replace"}
                           /\ c.digest.data = row.state
  BY <1>3, <1>5
<1>7. \A h \in history' : h \in history \/ h = row
  BY <1>1 DEF row
<1> QED BY <1>4, <1>6, <1>7 DEF HistoryWasSent

LEMMA ReplaceWasSent ==
    ASSUME NEW s \in Schedule, NEW id \in RequestId, NEW expected \in 1..VersionLimit,
           TypeOK, HistoryWasSent, Replace(s, id, expected)
    PROVE  HistoryWasSent'
<1>1. PICK state \in SavedState :
          /\ Accepts(s, id, [op |-> "replace", schedule |-> s, expected |-> expected,
                             data |-> state])
          /\ schedules'[s].version = expected + 1
          /\ history' = Trim(Kept(s) \cup {Revision(s, expected, state)}, s)
  BY ReplaceAccepts
<1> DEFINE new == [id |-> id, digest |-> [op |-> "replace", schedule |-> s,
                                          expected |-> expected, data |-> state],
                   schedule |-> s, applied |-> expected + 1]
<1>2. commands' = commands \cup {new}
  BY <1>1 DEF Accepts, Finish
<1>3. /\ new \in commands' /\ new.schedule = s /\ new.applied = expected + 1
      /\ new.digest.op = "replace" /\ new.digest.data = state
  BY <1>2
<1>4. \A h \in history' : h \in history \/ h = Revision(s, expected, state)
  BY <1>1 DEF Trim, Kept
<1> DEFINE row == Revision(s, expected, state)
<1>5. ASSUME NEW h \in history
      PROVE  \E c \in commands' : /\ c.schedule = h.schedule /\ c.applied = h.revision
                                  /\ c.digest.op \in {"create", "replace"}
                                  /\ c.digest.data = h.state
  BY <1>2 DEF HistoryWasSent
<1>6. row.schedule = s /\ row.revision = expected + 1 /\ row.state = state
  BY DEF Revision
<1> HIDE DEF new, row
<1>7. \E c \in commands' : /\ c.schedule = row.schedule /\ c.applied = row.revision
                           /\ c.digest.op \in {"create", "replace"}
                           /\ c.digest.data = row.state
  BY <1>3, <1>6
<1> QED BY <1>4, <1>5, <1>7 DEF HistoryWasSent, row

----------------------------------------------------------------------------
(* The bound on the history.                                               *)

LEMMA LeastRevision ==
    ASSUME NEW S, S \subseteq Nat, S # {}
    PROVE  \E m \in S : \A n \in S : m <= n
<1>1. \E R : IsWellFoundedOn(R, Nat) /\ \A m, n \in Nat : m < n => <<m, n>> \in R
  <2>1. \A m, n \in Nat : m < n => <<m, n>> \in OpToRel(<, Nat)
    BY DEF OpToRel
  <2> WITNESS OpToRel(<, Nat)
  <2> QED BY <2>1, NatLessThanWellFounded
<1>2. PICK R : IsWellFoundedOn(R, Nat) /\ \A m, n \in Nat : m < n => <<m, n>> \in R
  BY <1>1
<1>3. PICK m \in S : \A n \in S : <<n, m>> \notin R
  <2>1. IsWellFoundedOn(R, Nat)
    BY <1>2
  <2> QED BY ONLY <2>1, WFMin, S \subseteq Nat, S # {}
<1>4. \A n \in S : m \in Nat /\ n \in Nat /\ ~(n < m)
  BY <1>2, <1>3
<1>5. \A n \in S : m <= n
  BY <1>4
<1> QED BY <1>5

(* Trimming leaves at most HistoryLimit revisions of the schedule: those   *)
(* above its least one are fewer than HistoryLimit.                        *)
LEMMA TrimBounds ==
    ASSUME NEW rows, IsFiniteSet(rows), NEW s,
           \A h \in rows : h.revision \in Nat,
           \A g, h \in rows : g.schedule = h.schedule /\ g.revision = h.revision => g = h
    PROVE  Cardinality({h \in Trim(rows, s) : h.schedule = s}) <= HistoryLimit
<1> DEFINE T == {h \in Trim(rows, s) : h.schedule = s}
           Above(g) == {h \in rows : h.schedule = s /\ h.revision > g.revision}
<1>1. T \subseteq rows
  BY DEF Trim
<1>2. IsFiniteSet(T)
  BY <1>1, FS_Subset
<1>3. CASE T = {}
  BY <1>3, FS_EmptySet, LimitAssumption
<1>4. CASE T # {}
  <2> DEFINE numbers == {h.revision : h \in T}
  <2>1. numbers \subseteq Nat /\ numbers # {}
    BY <1>1, <1>4
  <2>2. \E m \in numbers : \A n \in numbers : m <= n
    BY <2>1, LeastRevision
  <2>3. PICK g \in T : \A h \in T : g.revision <= h.revision
    BY <2>2
  <2>4. T \ {g} \subseteq Above(g)
    <3> SUFFICES ASSUME NEW h \in T, h # g PROVE h \in Above(g)
      OBVIOUS
    <3>1. g \in rows /\ h \in rows /\ g.schedule = s /\ h.schedule = s
      BY <1>1
    <3>2. g.revision # h.revision /\ g.revision <= h.revision
      BY <2>3, <3>1
    <3> QED BY <3>1, <3>2
  <2>5. IsFiniteSet(Above(g))
    BY FS_Subset
  <2>6. Cardinality(T \ {g}) <= Cardinality(Above(g))
    BY <2>4, <2>5, FS_Subset
  <2>7. Cardinality(Above(g)) < HistoryLimit
    BY DEF Trim
  <2>8. Cardinality(T \ {g}) = Cardinality(T) - 1
    BY <1>2, FS_RemoveElement
  <2>9. /\ Cardinality(T) \in Nat /\ Cardinality(T \ {g}) \in Nat
        /\ Cardinality(Above(g)) \in Nat
    BY <1>2, <2>5, FS_CardinalityType, FS_RemoveElement
  <2> QED BY <2>6, <2>7, <2>8, <2>9, LimitAssumption
<1> QED BY <1>3, <1>4

HistoryFinite == IsFiniteSet(history)

LEMMA CreateBounded ==
    ASSUME NEW s \in Schedule, NEW id \in RequestId, TypeOK, CurrentIsStored,
           HistoryFinite, HistoryBounded, Create(s, id)
    PROVE  HistoryFinite' /\ HistoryBounded'
<1>1. PICK row : row.schedule = s /\ history' = history \cup {row}
  <2>1. PICK state \in Candidate :
           history' = history \cup {[schedule |-> s, revision |-> 1, state |-> state]}
    BY DEF Create
  <2> WITNESS [schedule |-> s, revision |-> 1, state |-> state]
  <2> QED BY <2>1
<1>2. HistoryFinite'
  BY <1>1, FS_AddElement DEF HistoryFinite
<1>3. \A h \in history : h.schedule # s
  BY DEF Create, CurrentIsStored
<1>4. ASSUME NEW o \in Schedule PROVE Cardinality(Rows(o))' <= HistoryLimit
  <2>1. CASE o = s
    <3>1. Rows(o)' = {row}
      BY <1>1, <1>3, <2>1 DEF Rows
    <3> QED BY <3>1, FS_Singleton, LimitAssumption
  <2>2. CASE o # s
    <3>1. Rows(o)' = Rows(o)
      BY <1>1, <2>2 DEF Rows
    <3> QED BY <3>1 DEF HistoryBounded
  <2> QED BY <2>1, <2>2
<1> QED BY <1>2, <1>4 DEF HistoryBounded

LEMMA ReplaceBounded ==
    ASSUME NEW s \in Schedule, NEW id \in RequestId, NEW expected \in 1..VersionLimit,
           TypeOK, CurrentIsStored, HistoryFinite, HistoryBounded, Replace(s, id, expected)
    PROVE  HistoryFinite' /\ HistoryBounded'
<1>1. PICK state \in Candidate :
          history' = Trim(Kept(s) \cup {Revision(s, expected, state)}, s)
  BY DEF Replace
<1> DEFINE row == Revision(s, expected, state)
           rows == Kept(s) \cup {row}
<1>2. IsFiniteSet(rows)
  <2>1. Kept(s) \in SUBSET history
    BY DEF Kept
  <2>2. IsFiniteSet(Kept(s))
    BY <2>1, FS_Subset DEF HistoryFinite
  <2> QED BY <2>2, FS_AddElement
<1>3. history' \in SUBSET rows
  BY <1>1 DEF Trim
<1>4. HistoryFinite'
  BY <1>2, <1>3, FS_Subset DEF HistoryFinite
<1>5. \A h \in rows : h.revision \in Nat
  BY LimitAssumption DEF Kept, Revision, TypeOK
<1>6. \A g, h \in rows : g.schedule = h.schedule /\ g.revision = h.revision => g = h
  <2>1. s \in DOMAIN schedules /\ schedules[s].version = expected
    BY DEF Replace, NextVersion
  <2>2. \A h \in Kept(s) : h \in history /\ (h.schedule = s => h.revision \in 1..expected)
    BY <2>1 DEF Kept, CurrentIsStored
  <2>3. row.schedule = s /\ row.revision = expected + 1
    BY DEF Revision
  <2> QED BY <2>2, <2>3, LimitAssumption DEF CurrentIsStored
<1>7. ASSUME NEW o \in Schedule PROVE Cardinality(Rows(o))' <= HistoryLimit
  <2>1. CASE o = s
    <3>1. Rows(o)' = {h \in Trim(rows, s) : h.schedule = s}
      BY <1>1, <2>1 DEF Rows
    <3>2. Cardinality({h \in Trim(rows, s) : h.schedule = s}) <= HistoryLimit
      BY <1>2, <1>5, <1>6, TrimBounds
    <3> QED BY <3>1, <3>2
  <2>2. CASE o # s
    <3>1. Rows(o)' = Rows(o)
      BY <1>1, <2>2 DEF Rows, Trim, Kept, Revision
    <3> QED BY <3>1 DEF HistoryBounded
  <2> QED BY <2>1, <2>2
<1> QED BY <1>4, <1>7 DEF HistoryBounded

----------------------------------------------------------------------------
(* The inductive invariant.  HistoryFinite and SourcesKnown are what the   *)
(* conjuncts the runs check need beside one another: a bound on a          *)
(* cardinality says nothing of an infinite set, and a layout stays stale   *)
(* once its sources have moved on only if it never names a later version.  *)
IInv ==
    /\ TypeOK
    /\ CurrentIsStored
    /\ HistoryFinite
    /\ HistoryBounded
    /\ OneReceiptPerVersion
    /\ HistoryWasSent
    /\ SourcesKnown
    /\ FreshMeansValid
    /\ OnePlanPerTask
    /\ HorizonsApart
    /\ HonestPast

LEMMA InitIInv == Init => IInv
<1> SUFFICES ASSUME Init PROVE IInv
  OBVIOUS
<1>1. /\ DOMAIN schedules = {} /\ history = {} /\ allocations = {}
      /\ commands = {} /\ begun = {}
  BY DEF Init
<1>2. TypeOK
  BY InitTypeOK
<1>3. HistoryFinite /\ HistoryBounded
  <2>1. ASSUME NEW s \in Schedule PROVE Cardinality(Rows(s)) <= HistoryLimit
    <3>1. Rows(s) = {}
      BY <1>1 DEF Rows
    <3> QED BY <3>1, FS_EmptySet, LimitAssumption
  <2> QED BY <1>1, <2>1, FS_EmptySet DEF HistoryFinite, HistoryBounded
<1>4. CurrentIsStored /\ HistoryWasSent /\ SourcesKnown
  BY <1>1 DEF CurrentIsStored, HistoryWasSent, SourcesKnown
<1>5. OneReceiptPerVersion
  BY <1>1 DEF OneReceiptPerVersion
<1>6. FreshMeansValid /\ OnePlanPerTask /\ HorizonsApart /\ HonestPast
  BY <1>1 DEF FreshMeansValid, OnePlanPerTask, HorizonsApart, HonestPast
<1> QED BY <1>2, <1>3, <1>4, <1>5, <1>6 DEF IInv

LEMMA CreateIInv ==
    ASSUME NEW s \in Schedule, NEW id \in RequestId, IInv, Create(s, id)
    PROVE  IInv'
<1>1. TypeOK' /\ CurrentIsStored'
  BY CreateTypeOK, CreateStored DEF IInv
<1>2. HistoryFinite' /\ HistoryBounded'
  BY CreateBounded DEF IInv
<1>3. OneReceiptPerVersion'
  BY <1>1, CreateAccepts, AcceptsOneReceipt DEF IInv
<1>4. HistoryWasSent' /\ SourcesKnown' /\ HorizonsApart'
  BY CreateWasSent, CreateKnown, CreateHorizons DEF IInv
<1>5. FreshMeansValid' /\ OnePlanPerTask' /\ HonestPast'
  BY CreateSaves, SavesFreshValid, SavesOnePlan, SavesHonestPast DEF IInv
<1> QED BY <1>1, <1>2, <1>3, <1>4, <1>5 DEF IInv

LEMMA ReplaceIInv ==
    ASSUME NEW s \in Schedule, NEW id \in RequestId, NEW expected \in 1..VersionLimit,
           IInv, Replace(s, id, expected)
    PROVE  IInv'
<1>1. TypeOK' /\ CurrentIsStored'
  BY ReplaceTypeOK, ReplaceStored DEF IInv
<1>2. HistoryFinite' /\ HistoryBounded'
  BY ReplaceBounded DEF IInv
<1>3. OneReceiptPerVersion'
  BY <1>1, ReplaceAccepts, AcceptsOneReceipt DEF IInv
<1>4. HistoryWasSent' /\ SourcesKnown' /\ HorizonsApart'
  BY ReplaceWasSent, ReplaceKnown, ReplaceHorizons DEF IInv
<1>5. FreshMeansValid' /\ OnePlanPerTask' /\ HonestPast'
  BY ReplaceSaves, SavesFreshValid, SavesOnePlan, SavesHonestPast DEF IInv
<1> QED BY <1>1, <1>2, <1>3, <1>4, <1>5 DEF IInv

LEMMA TravelIInv ==
    ASSUME NEW s \in Schedule, NEW id \in RequestId, NEW expected \in 1..VersionLimit,
           NEW direction \in {"undo", "redo"}, IInv, Travel(s, id, expected, direction)
    PROVE  IInv'
<1>1. TypeOK' /\ CurrentIsStored'
  BY TravelTypeOK, TravelStored DEF IInv
<1>2. UNCHANGED <<history, tasks, preferences>> /\ commands \subseteq commands'
  BY DEF Travel, Finish
<1>3. HistoryFinite' /\ HistoryBounded' /\ SourcesKnown'
  BY <1>2 DEF IInv, HistoryFinite, HistoryBounded, Rows, SourcesKnown
<1>4. OneReceiptPerVersion'
  BY <1>1, TravelAccepts, AcceptsOneReceipt DEF IInv
<1>5. HistoryWasSent'
  BY <1>2 DEF IInv, HistoryWasSent
<1>6. HorizonsApart'
  BY TravelHorizons DEF IInv
<1>7. FreshMeansValid' /\ OnePlanPerTask' /\ HonestPast'
  BY TravelSaves, SavesFreshValid, SavesOnePlan, SavesHonestPast DEF IInv
<1> QED BY <1>1, <1>3, <1>4, <1>5, <1>6, <1>7 DEF IInv

(* The conjuncts about schedules, history and receipts alone.              *)
LEMMA TablesKept ==
    ASSUME IInv, TypeOK', UNCHANGED <<schedules, history, allocations, commands>>
    PROVE  /\ CurrentIsStored' /\ HistoryFinite' /\ HistoryBounded'
           /\ OneReceiptPerVersion' /\ HistoryWasSent'
           /\ OnePlanPerTask' /\ HorizonsApart'
<1>1. CurrentIsStored'
  BY OthersStored DEF IInv
<1>2. HistoryFinite' /\ HistoryBounded' /\ HistoryWasSent'
  BY DEF IInv, HistoryFinite, HistoryBounded, Rows, HistoryWasSent
<1>3. OneReceiptPerVersion' /\ HorizonsApart'
  BY DEF IInv, OneReceiptPerVersion, HorizonsApart
<1>4. \A s \in DOMAIN schedules : CurrentState(s)' = CurrentState(s)
  BY OthersKeepStates DEF IInv
<1>5. OnePlanPerTask'
  BY <1>4 DEF IInv, OnePlanPerTask, Scheduled
<1> QED BY <1>1, <1>2, <1>3, <1>5

LEMMA FreshKept ==
    ASSUME IInv, UNCHANGED <<schedules, history, tasks, preferences>>
    PROVE  FreshMeansValid'
<1> SUFFICES ASSUME NEW s \in DOMAIN schedules, Fresh(CurrentState(s))'
             PROVE  ValidLayout(CurrentState(s))'
  BY DEF FreshMeansValid
<1>1. CurrentState(s)' = CurrentState(s)
  BY OthersKeepStates DEF IInv
<1>2. Fresh(CurrentState(s))
  BY <1>1 DEF Fresh, Selected
<1>3. ValidLayout(CurrentState(s))
  BY <1>2 DEF IInv, FreshMeansValid
<1> QED BY <1>1, <1>3 DEF ValidLayout, FitsTask, Selected, Scheduled

LEMMA SourcesIInv ==
    ASSUME IInv,
           \/ \E t \in Task, pending \in BOOLEAN, shape \in Shape : UpdateTask(t, pending, shape)
           \/ \E t \in Task : DeleteTask(t)
           \/ UpdatePreferences
    PROVE  IInv'
<1>1. TypeOK' /\ SourcesStep
  BY SourcesTypeOK, SourcesAreSteps DEF IInv
<1>2. CurrentFact
  BY CurrentIsUnique DEF IInv
<1>3. SourcesKnown' /\ FreshMeansValid'
  BY <1>1, <1>2, SourcesStepKnown, SourcesFreshValid DEF IInv
<1>4. UNCHANGED <<schedules, history, allocations, commands, now, begun>>
  BY <1>1 DEF SourcesStep
<1>5. HonestPast'
  <2>1. \A s \in DOMAIN schedules : CurrentState(s)' = CurrentState(s)
    BY <1>4, OthersKeepStates DEF IInv
  <2> QED BY <1>4, <2>1 DEF IInv, HonestPast, Key
<1> QED BY <1>1, <1>3, <1>4, <1>5, TablesKept DEF IInv

LEMMA TickIInv ==
    ASSUME IInv, NEW minute \in 0..LastMinute, Tick(minute)
    PROVE  IInv'
<1>1. CurrentFact
  BY CurrentIsUnique DEF IInv
<1>2. TypeOK' /\ HonestPast'
  BY <1>1, TickTypeOK, TickHonestPast DEF IInv
<1>3. UNCHANGED <<schedules, history, allocations, commands, tasks, preferences>>
  BY DEF Tick
<1>4. SourcesKnown'
  BY <1>3 DEF IInv, SourcesKnown
<1>5. FreshMeansValid'
  BY <1>3, FreshKept
<1> QED BY <1>2, <1>3, <1>4, <1>5, TablesKept DEF IInv

LEMMA StutterIInv == IInv /\ UNCHANGED vars => IInv'
<1> SUFFICES ASSUME IInv, UNCHANGED vars PROVE IInv'
  OBVIOUS
<1>1. UNCHANGED <<schedules, history, allocations, commands, tasks, preferences, now, begun>>
  BY DEF vars
<1>2. TypeOK'
  BY <1>1 DEF IInv, TypeOK
<1>3. SourcesKnown'
  BY <1>1 DEF IInv, SourcesKnown
<1>4. \A s \in DOMAIN schedules : CurrentState(s)' = CurrentState(s)
  BY <1>1, OthersKeepStates DEF IInv
<1>5. FreshMeansValid'
  BY <1>1, FreshKept
<1>6. HonestPast'
  BY <1>1, <1>4 DEF IInv, HonestPast, Key
<1> QED BY <1>1, <1>2, <1>3, <1>5, <1>6, TablesKept DEF IInv

LEMMA NextIInv == IInv /\ [Next]_vars => IInv'
<1> SUFFICES ASSUME IInv, [Next]_vars PROVE IInv'
  OBVIOUS
<1>1. CASE \E s \in Schedule, id \in RequestId : Create(s, id)
  BY <1>1, CreateIInv
<1>2. CASE \E s \in Schedule, id \in RequestId, expected \in 1..VersionLimit :
              Replace(s, id, expected)
  BY <1>2, ReplaceIInv
<1>3. CASE \E s \in Schedule, id \in RequestId, expected \in 1..VersionLimit :
              \E direction \in {"undo", "redo"} : Travel(s, id, expected, direction)
  BY <1>3, TravelIInv
<1>4. CASE \/ \E t \in Task, pending \in BOOLEAN, shape \in Shape : UpdateTask(t, pending, shape)
           \/ \E t \in Task : DeleteTask(t)
           \/ UpdatePreferences
  BY <1>4, SourcesIInv
<1>5. CASE \E minute \in 0..LastMinute : Tick(minute)
  BY <1>5, TickIInv
<1>6. CASE UNCHANGED vars
  BY <1>6, StutterIInv
<1> QED BY <1>1, <1>2, <1>3, <1>4, <1>5, <1>6 DEF Next

(* All conjuncts of the inductive invariant hold of every behaviour.       *)
THEOREM ScheduleInvariant == Spec => []IInv
BY InitIInv, NextIInv, PTL DEF Spec

(* Every table keeps its type, whatever the constants: the versions of     *)
(* schedules, tasks and preferences stay within the limits of the Version  *)
(* type, and commands store only states of the request's form.             *)
THEOREM ScheduleTypes == Spec => []TypeOK
<1>1. IInv => TypeOK
  BY DEF IInv
<1> QED BY <1>1, ScheduleInvariant, PTL

(* The current revision of a schedule is always stored, once: the trimming in*)
(* replace never deletes the row the deferred foreign key points at.       *)
THEOREM ScheduleCurrentIsStored == Spec => []CurrentIsStored
<1>1. IInv => CurrentIsStored
  BY DEF IInv
<1> QED BY <1>1, ScheduleInvariant, PTL

(* No mix of edits, undos and redos stores more than HISTORY_LIMIT         *)
(* revisions of a schedule.                                                *)
THEOREM ScheduleHistoryBounded == Spec => []HistoryBounded
<1>1. IInv => HistoryBounded
  BY DEF IInv
<1> QED BY <1>1, ScheduleInvariant, PTL

(* The receipts in schedule_commands number the versions of a schedule one *)
(* to one, so a retried request is never applied twice.                    *)
THEOREM ScheduleOneReceiptPerVersion == Spec => []OneReceiptPerVersion
<1>1. IInv => OneReceiptPerVersion
  BY DEF IInv
<1> QED BY <1>1, ScheduleInvariant, PTL

(* Every revision undo and redo can reach is the layout of the accepted    *)
(* create or replace request that made the version of its number.          *)
THEOREM ScheduleHistoryWasSent == Spec => []HistoryWasSent
<1>1. IInv => HistoryWasSent
  BY DEF IInv
<1> QED BY <1>1, ScheduleInvariant, PTL

(* A schedule that _view does not report as stale satisfies every hard     *)
(* constraint of the tasks as they are now.                                *)
THEOREM ScheduleFreshMeansValid == Spec => []FreshMeansValid
<1>1. IInv => FreshMeansValid
  BY DEF IInv
<1> QED BY <1>1, ScheduleInvariant, PTL

(* schedule_allocations mirrors the current layouts, and no task is laid   *)
(* out by two schedules.                                                   *)
THEOREM ScheduleOnePlanPerTask == Spec => []OnePlanPerTask
<1>1. IInv => OnePlanPerTask
  BY DEF IInv
<1> QED BY <1>1, ScheduleInvariant, PTL

(* The horizons of the saved schedules stay apart, and undo never leaves   *)
(* the horizon a schedule was created with.                                *)
THEOREM ScheduleHorizonsApart == Spec => []HorizonsApart
<1>1. IInv => HorizonsApart
  BY DEF IInv
<1> QED BY <1>1, ScheduleInvariant, PTL

(* protect_placements keeps the past as it was: a block before the clock   *)
(* was in the layout when the clock passed its start.                      *)
THEOREM ScheduleHonestPast == Spec => []HonestPast
<1>1. IInv => HonestPast
  BY DEF IInv
<1> QED BY <1>1, ScheduleInvariant, PTL

----------------------------------------------------------------------------
(* Action properties.                                                      *)

(* A header keeps still or is set by a command that checked its version.   *)
LEMMA HeaderSteps ==
    ASSUME TypeOK, [Next]_vars
    PROVE  \/ UNCHANGED <<schedules, history>>
           \/ \E s \in Schedule :
                 /\ s \notin DOMAIN schedules
                 /\ DOMAIN schedules \subseteq DOMAIN schedules'
                 /\ \A o \in DOMAIN schedules : schedules'[o] = schedules[o] /\ Rows(o)' = Rows(o)
           \/ \E s \in DOMAIN schedules :
                 /\ DOMAIN schedules' = DOMAIN schedules
                 /\ schedules'[s].version = schedules[s].version + 1
                 /\ \A o \in DOMAIN schedules \ {s} :
                       schedules'[o] = schedules[o] /\ Rows(o)' = Rows(o)
<1>1. ASSUME NEW s \in Schedule, NEW id \in RequestId, Create(s, id)
      PROVE  /\ s \notin DOMAIN schedules
             /\ DOMAIN schedules \subseteq DOMAIN schedules'
             /\ \A o \in DOMAIN schedules : schedules'[o] = schedules[o] /\ Rows(o)' = Rows(o)
  BY <1>1 DEF Create, Rows
<1>2. ASSUME NEW s \in Schedule, NEW id \in RequestId, NEW expected \in 1..VersionLimit,
             Replace(s, id, expected)
      PROVE  /\ s \in DOMAIN schedules
             /\ DOMAIN schedules' = DOMAIN schedules
             /\ schedules'[s].version = schedules[s].version + 1
             /\ \A o \in DOMAIN schedules \ {s} :
                   schedules'[o] = schedules[o] /\ Rows(o)' = Rows(o)
  <2>1. /\ expected + 1 \in 1..VersionLimit /\ s \in DOMAIN schedules
        /\ schedules[s].version = expected
    BY <1>2, LimitAssumption DEF Replace, NextVersion
  <2>2. SetHeader(s, expected + 1, expected + 1)
    BY <1>2 DEF Replace
  <2>3. \A o \in DOMAIN schedules \ {s} : Rows(o)' = Rows(o)
    BY <1>2 DEF Replace, Rows, Trim, Kept, Revision
  <2> QED BY <2>1, <2>2, <2>3, SetHeaderType, LimitAssumption
<1>3. ASSUME NEW s \in Schedule, NEW id \in RequestId, NEW expected \in 1..VersionLimit,
             NEW direction \in {"undo", "redo"}, Travel(s, id, expected, direction)
      PROVE  /\ s \in DOMAIN schedules
             /\ DOMAIN schedules' = DOMAIN schedules
             /\ schedules'[s].version = schedules[s].version + 1
             /\ \A o \in DOMAIN schedules \ {s} :
                   schedules'[o] = schedules[o] /\ Rows(o)' = Rows(o)
  <2>1. /\ expected + 1 \in 1..VersionLimit /\ s \in DOMAIN schedules
        /\ schedules[s].version = expected
    BY <1>3, LimitAssumption DEF Travel, NextVersion
  <2>2. PICK target \in Rows(s) : SetHeader(s, expected + 1, target.revision)
    BY <1>3 DEF Travel
  <2>3. target.revision \in Nat
    BY DEF Rows, TypeOK
  <2>4. \A o \in DOMAIN schedules : Rows(o)' = Rows(o)
    BY <1>3 DEF Travel, Rows
  <2> QED BY <2>1, <2>2, <2>3, <2>4, SetHeaderType
<1>4. ASSUME \/ \E t \in Task, pending \in BOOLEAN, shape \in Shape : UpdateTask(t, pending, shape)
             \/ \E t \in Task : DeleteTask(t)
             \/ UpdatePreferences
             \/ \E minute \in 0..LastMinute : Tick(minute)
             \/ UNCHANGED vars
      PROVE  UNCHANGED <<schedules, history>>
  BY <1>4 DEF UpdateTask, DeleteTask, UpdatePreferences, Tick, vars
<1> QED BY <1>1, <1>2, <1>3, <1>4 DEF Next

(* The version is a sound optimistic token: an expected_version that still *)
(* matches means that nothing the client read has changed.                 *)
THEOREM ScheduleVersionIsToken == Spec => VersionIsToken
<1>1. ASSUME IInv, [Next]_vars, NEW s \in DOMAIN schedules
      PROVE  /\ s \in DOMAIN schedules'
             /\ schedules'[s].version >= schedules[s].version
             /\ schedules'[s].version = schedules[s].version =>
                   schedules'[s] = schedules[s] /\ Rows(s)' = Rows(s)
  <2>1. schedules[s].version \in Nat
    BY <1>1, LimitAssumption DEF IInv, TypeOK
  <2>2. UNCHANGED history => Rows(s)' = Rows(s)
    BY DEF Rows
  <2>3. TypeOK
    BY <1>1 DEF IInv
  <2> QED BY <1>1, <2>1, <2>2, <2>3, HeaderSteps
<1>2. IInv /\ [Next]_vars =>
        [\A s \in DOMAIN schedules :
            /\ s \in DOMAIN schedules'
            /\ schedules'[s].version >= schedules[s].version
            /\ schedules'[s].version = schedules[s].version =>
                  schedules'[s] = schedules[s] /\ Rows(s)' = Rows(s)]_vars
  BY <1>1
<1> QED BY <1>2, ScheduleInvariant, PTL DEF Spec, VersionIsToken

LEMMA StepsSave ==
    ASSUME TypeOK, CurrentIsStored, [Next]_vars
    PROVE  \/ UNCHANGED <<schedules, history>>
           \/ \E s \in Schedule, state \in SavedState : Saves(s, state)
<1>1. CASE \E s \in Schedule, id \in RequestId : Create(s, id)
  BY <1>1, CreateSaves
<1>2. CASE \E s \in Schedule, id \in RequestId, expected \in 1..VersionLimit :
              Replace(s, id, expected)
  BY <1>2, ReplaceSaves
<1>3. CASE \E s \in Schedule, id \in RequestId, expected \in 1..VersionLimit :
              \E direction \in {"undo", "redo"} : Travel(s, id, expected, direction)
  BY <1>3, TravelSaves
<1>4. CASE \/ \E t \in Task, pending \in BOOLEAN, shape \in Shape : UpdateTask(t, pending, shape)
           \/ \E t \in Task : DeleteTask(t)
           \/ UpdatePreferences
           \/ \E minute \in 0..LastMinute : Tick(minute)
           \/ UNCHANGED vars
  BY <1>4 DEF UpdateTask, DeleteTask, UpdatePreferences, Tick, vars
<1> QED BY <1>1, <1>2, <1>3, <1>4 DEF Next

(* No command, on whichever schedule, moves or drops a locked or started   *)
(* block of a task that is still to be done.                               *)
THEOREM ScheduleProtectedBlocksStay == Spec => ProtectedBlocksStay
<1>1. ASSUME IInv, [Next]_vars, NEW s \in DOMAIN schedules, NEW b \in CurrentState(s).blocks,
             Active(b.task), b.locked \/ b.start < now
      PROVE  Key(b) \in Keys(CurrentState(s)'.blocks)
  <2>1. TypeOK /\ CurrentIsStored
    BY <1>1 DEF IInv
  <2>2. CASE CurrentState(s)' = CurrentState(s)
    BY <2>2 DEF Keys
  <2>3. CASE UNCHANGED <<schedules, history>>
    BY <2>1, <2>2, <2>3, OthersKeepStates
  <2>4. ASSUME NEW o \in Schedule, NEW state \in SavedState, Saves(o, state)
        PROVE  Key(b) \in Keys(CurrentState(s)'.blocks)
    <3>1. CASE o # s
      BY <2>2, <2>4, <3>1 DEF Saves
    <3>2. CASE o = s
      <4>1. CurrentState(s)' = state /\ ProtectPlacements(CurrentState(s).blocks, state.blocks)
        BY <2>4, <3>2 DEF Saves, Previous
      <4> QED BY <1>1, <4>1 DEF ProtectPlacements
    <3> QED BY <3>1, <3>2
  <2> QED BY <1>1, <2>1, <2>3, <2>4, StepsSave
<1>2. IInv /\ [Next]_vars =>
        [\A s \in DOMAIN schedules : \A b \in CurrentState(s).blocks :
            Active(b.task) /\ (b.locked \/ b.start < now) =>
                Key(b) \in Keys(CurrentState(s)'.blocks)]_vars
  BY <1>1
<1> QED BY <1>2, ScheduleInvariant, PTL DEF Spec, ProtectedBlocksStay

LEMMA UndoRedoStep ==
    ASSUME IInv, [Next]_vars, NEW s \in DOMAIN schedules,
           schedules'[s].current \in Revisions(s)
    PROVE  /\ Rows(s)' = Rows(s)
           /\ \A r \in Revisions(s) :
                 /\ ~(schedules'[s].current < r /\ r < schedules[s].current)
                 /\ ~(schedules[s].current < r /\ r < schedules'[s].current)
<1>1. TypeOK /\ CurrentIsStored
  BY DEF IInv
<1>2. /\ s \in Schedule /\ schedules[s].current \in Nat /\ schedules[s].version \in Nat
      /\ \A h \in history : h.revision \in Nat
      /\ \A r \in Revisions(s) : r \in Nat /\ r <= schedules[s].version
  BY <1>1, LimitAssumption DEF TypeOK, CurrentIsStored, Revisions, Rows
<1>3. CASE schedules'[s] = schedules[s] /\ Rows(s)' = Rows(s)
  BY <1>2, <1>3
<1>4. ASSUME NEW id \in RequestId, NEW expected \in 1..VersionLimit,
             Replace(s, id, expected)
      PROVE  FALSE
  <2>1. /\ expected + 1 \in 1..VersionLimit /\ schedules[s].version = expected
    BY <1>4, LimitAssumption DEF Replace, NextVersion
  <2>2. schedules'[s].current = expected + 1
    BY <1>1, <1>4, <2>1, SetHeaderType, LimitAssumption DEF Replace
  <2> QED BY <1>2, <2>1, <2>2
<1>5. ASSUME NEW id \in RequestId, NEW expected \in 1..VersionLimit,
             NEW direction \in {"undo", "redo"}, Travel(s, id, expected, direction)
      PROVE  /\ Rows(s)' = Rows(s)
             /\ \A r \in Revisions(s) :
                   /\ ~(schedules'[s].current < r /\ r < schedules[s].current)
                   /\ ~(schedules[s].current < r /\ r < schedules'[s].current)
  <2>1. PICK target \in Rows(s) :
           /\ IF direction = "undo" THEN UndoTarget(s, target) ELSE RedoTarget(s, target)
           /\ SetHeader(s, expected + 1, target.revision)
    BY <1>5 DEF Travel
  <2>2. /\ expected + 1 \in 1..VersionLimit /\ target.revision \in Nat
    BY <1>2, <1>5, LimitAssumption DEF Travel, NextVersion, Rows
  <2>3. schedules'[s].current = target.revision
    BY <1>1, <2>1, <2>2, SetHeaderType
  <2>4. Rows(s)' = Rows(s)
    BY <1>5 DEF Travel, Rows
  <2>5. CASE UndoTarget(s, target)
    <3>1. \A g \in Rows(s) :
             /\ ~(target.revision < g.revision /\ g.revision < schedules[s].current)
             /\ target.revision < schedules[s].current
      BY <1>2, <2>2, <2>5 DEF UndoTarget, Rows
    <3>2. ASSUME NEW r \in Revisions(s)
          PROVE  /\ ~(target.revision < r /\ r < schedules[s].current)
                 /\ ~(schedules[s].current < r /\ r < target.revision)
      <4>1. PICK g \in Rows(s) : g.revision = r
        BY DEF Revisions
      <4> QED BY ONLY <3>1, <4>1, <1>2, <2>2
    <3> QED BY <2>3, <2>4, <3>2
  <2>6. CASE RedoTarget(s, target)
    <3>1. \A g \in Rows(s) :
             /\ ~(schedules[s].current < g.revision /\ g.revision < target.revision)
             /\ schedules[s].current < target.revision
      BY <1>2, <2>2, <2>6 DEF RedoTarget, Rows
    <3>2. ASSUME NEW r \in Revisions(s)
          PROVE  /\ ~(target.revision < r /\ r < schedules[s].current)
                 /\ ~(schedules[s].current < r /\ r < target.revision)
      <4>1. PICK g \in Rows(s) : g.revision = r
        BY DEF Revisions
      <4> QED BY ONLY <3>1, <4>1, <1>2, <2>2
    <3> QED BY <2>3, <2>4, <3>2
  <2> QED BY <2>1, <2>5, <2>6
<1>6. ASSUME NEW o \in Schedule, NEW id \in RequestId, Create(o, id)
      PROVE  schedules'[s] = schedules[s] /\ Rows(s)' = Rows(s)
  BY <1>6 DEF Create, Rows
<1>7. ASSUME NEW o \in Schedule, o # s, NEW id \in RequestId,
             NEW expected \in 1..VersionLimit,
             \/ Replace(o, id, expected)
             \/ \E direction \in {"undo", "redo"} : Travel(o, id, expected, direction)
      PROVE  schedules'[s] = schedules[s] /\ Rows(s)' = Rows(s)
  <2>1. CASE Replace(o, id, expected)
    BY <1>7, <2>1 DEF Replace, SetHeader, Rows, Trim, Kept, Revision
  <2>2. CASE \E direction \in {"undo", "redo"} : Travel(o, id, expected, direction)
    BY <1>7, <2>2 DEF Travel, SetHeader, Rows
  <2> QED BY <1>7, <2>1, <2>2
<1>8. CASE UNCHANGED <<schedules, history>>
  BY <1>3, <1>8 DEF Rows
<1>9. ASSUME \/ \E t \in Task, pending \in BOOLEAN, shape \in Shape : UpdateTask(t, pending, shape)
             \/ \E t \in Task : DeleteTask(t)
             \/ UpdatePreferences
             \/ \E minute \in 0..LastMinute : Tick(minute)
             \/ UNCHANGED vars
      PROVE  UNCHANGED <<schedules, history>>
  BY <1>9 DEF UpdateTask, DeleteTask, UpdatePreferences, Tick, vars
<1> QED BY <1>2, <1>3, <1>4, <1>5, <1>6, <1>7, <1>8, <1>9 DEF Next

(* Undo and redo walk the stored revisions one at a time and keep them     *)
(* all, so each leads back over the other.                                 *)
THEOREM ScheduleUndoRedoInverse == Spec => UndoRedoInverse
<1>1. IInv /\ [Next]_vars =>
        [\A s \in DOMAIN schedules :
            LET from == schedules[s].current
                to == schedules'[s].current
            IN  to \in Revisions(s) =>
                   /\ Rows(s)' = Rows(s)
                   /\ \A r \in Revisions(s) : ~(to < r /\ r < from) /\ ~(from < r /\ r < to)]_vars
  BY UndoRedoStep
<1> QED BY <1>1, ScheduleInvariant, PTL DEF Spec, UndoRedoInverse

============================================================================
