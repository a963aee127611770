-------------------------- MODULE TaskStore_proofs ---------------------------
(***************************************************************************)
(* Proofs about TaskStore for every value of its constants.                *)
(***************************************************************************)
EXTENDS TaskStore, FiniteSetTheorems, TLAPS

----------------------------------------------------------------------------
(* The rows of new occurrences: one for each day, in the order of the days. *)

Before(days, d) == {e \in days : e < d}
Place(days) == [d \in days |-> Cardinality(Before(days, d))]

LEMMA PlaceGrows ==
    ASSUME NEW days \in SUBSET Nat, IsFiniteSet(days),
           NEW d \in days, NEW e \in days, d < e
    PROVE  Place(days)[d] < Place(days)[e]
<1>1. Before(days, d) \in SUBSET Before(days, e) /\ d \in Before(days, e)
      /\ d \notin Before(days, d)
  <2>1. d \in Nat /\ e \in Nat /\ \A x \in days : x \in Nat
    OBVIOUS
  <2>2. \A x \in days : x < d => x < e
    BY <2>1
  <2>3. ~(d < d)
    BY <2>1
  <2> QED BY <2>2, <2>3 DEF Before
<1>2. IsFiniteSet(Before(days, e)) /\ IsFiniteSet(Before(days, d))
  BY FS_Subset DEF Before
<1>3. /\ Cardinality(Before(days, d)) <= Cardinality(Before(days, e))
      /\ Cardinality(Before(days, d)) # Cardinality(Before(days, e))
  BY <1>1, <1>2, FS_Subset
<1>4. Cardinality(Before(days, d)) \in Nat /\ Cardinality(Before(days, e)) \in Nat
  BY <1>2, FS_CardinalityType
<1> QED BY <1>3, <1>4 DEF Place

LEMMA PlaceBounds ==
    ASSUME NEW days \in SUBSET Nat, IsFiniteSet(days), NEW d \in days
    PROVE  Place(days)[d] \in 0..(Cardinality(days) - 1)
<1>1. Before(days, d) \in SUBSET days /\ d \notin Before(days, d)
  BY DEF Before
<1>2. /\ IsFiniteSet(Before(days, d))
      /\ Cardinality(Before(days, d)) <= Cardinality(days)
      /\ Cardinality(Before(days, d)) # Cardinality(days)
  BY <1>1, FS_Subset
<1>3. Cardinality(Before(days, d)) \in Nat /\ Cardinality(days) \in Nat
  BY <1>2, FS_CardinalityType
<1> QED BY <1>2, <1>3 DEF Place

LEMMA PlaceIsOwn ==
    ASSUME NEW days \in SUBSET Nat, IsFiniteSet(days),
           NEW d \in days, NEW e \in days, Place(days)[d] = Place(days)[e]
    PROVE  d = e
<1>1. Place(days)[d] \in Int /\ Place(days)[e] \in Int /\ d \in Nat /\ e \in Nat
  <2>1. Cardinality(days) \in Nat
    BY FS_CardinalityType
  <2> QED BY <2>1, PlaceBounds
<1>2. CASE d < e
  BY <1>1, <1>2, PlaceGrows
<1>3. CASE e < d
  BY <1>1, <1>3, PlaceGrows
<1> QED BY <1>1, <1>2, <1>3

LEMMA PlaceOnto ==
    ASSUME NEW days \in SUBSET Nat, IsFiniteSet(days)
    PROVE  \A k \in 0..(Cardinality(days) - 1) : \E d \in days : Place(days)[d] = k
<1> DEFINE n == Cardinality(days)
<1>1. n \in Nat
  BY FS_CardinalityType
<1>2. IsFiniteSet(0..(n - 1)) /\ Cardinality(0..(n - 1)) = n
  <2>1. /\ IsFiniteSet(0..(n - 1))
        /\ Cardinality(0..(n - 1)) = IF 0 > n - 1 THEN 0 ELSE (n - 1) - 0 + 1
    BY <1>1, FS_Interval
  <2> QED BY <1>1, <2>1
<1>3. Place(days) \in [days -> 0..(n - 1)]
  BY PlaceBounds DEF Place
<1>4. \A d, e \in days : Place(days)[d] = Place(days)[e] => d = e
  BY PlaceIsOwn
<1>5. Place(days) \in Injection(days, 0..(n - 1))
  BY <1>3, <1>4 DEF Injection, IsInjective
<1>6. Place(days) \in Surjection(days, 0..(n - 1))
  BY <1>1, <1>2, <1>5, FS_Injection
<1> QED BY <1>6 DEF Surjection

(* What Occurrences returns.                                               *)
LEMMA OccurrencesAre ==
    ASSUME NEW s, NEW p, NEW days \in SUBSET Nat, IsFiniteSet(days)
    PROVE  LET rows == Occurrences(s, p, days)
           IN  /\ Cardinality(days) \in Nat
               /\ DOMAIN rows = 1..Cardinality(days)
               /\ \A i \in DOMAIN rows :
                     rows[i] = Occurrence(s, p, rows[i].day) /\ rows[i].day \in days
               /\ \A i, j \in DOMAIN rows : rows[i].day = rows[j].day => i = j
               /\ \A d \in days : \E i \in DOMAIN rows : rows[i].day = d
<1> DEFINE n == Cardinality(days)
           Nth(i) == CHOOSE d \in days : Cardinality({e \in days : e < d}) = i - 1
           rows == Occurrences(s, p, days)
<1>1. n \in Nat
  BY FS_CardinalityType
<1>2. ASSUME NEW i \in 1..n
      PROVE  Nth(i) \in days /\ Place(days)[Nth(i)] = i - 1
  <2>1. i - 1 \in 0..(n - 1)
    BY <1>1
  <2>2. \E d \in days : Place(days)[d] = i - 1
    BY <2>1, PlaceOnto
  <2>3. \E d \in days : Cardinality({e \in days : e < d}) = i - 1
    BY <2>2 DEF Place, Before
  <2>4. Nth(i) \in days /\ Cardinality({e \in days : e < Nth(i)}) = i - 1
    BY <2>3
  <2> QED BY <2>4 DEF Place, Before
<1>3. rows = [i \in 1..n |-> Occurrence(s, p, Nth(i))]
  BY DEF Occurrences
<1>4. \A i \in 1..n : rows[i] = Occurrence(s, p, Nth(i)) /\ rows[i].day = Nth(i)
  <2> HIDE DEF Nth
  <2> QED BY <1>3 DEF Occurrence
<1> HIDE DEF Nth, rows
<1>5. \A i, j \in 1..n : rows[i].day = rows[j].day => i = j
  <2> SUFFICES ASSUME NEW i \in 1..n, NEW j \in 1..n, Nth(i) = Nth(j) PROVE i = j
    BY <1>4
  <2>1. i - 1 = j - 1
    BY <1>2
  <2> QED BY <1>1, <2>1
<1>6. ASSUME NEW d \in days
      PROVE  \E i \in 1..n : rows[i].day = d
  <2>1. PICK k \in Nat : k = Place(days)[d] /\ k \in 0..(n - 1)
    BY <1>1, PlaceBounds
  <2>2. k + 1 \in 1..n /\ (k + 1) - 1 = k
    BY <1>1, <2>1
  <2>3. PICK i \in 1..n : i = k + 1 /\ i - 1 = k
    BY <2>2
  <2>4. Nth(i) \in days /\ Place(days)[Nth(i)] = Place(days)[d]
    BY <1>2, <2>1, <2>3
  <2>5. Nth(i) = d
    BY <2>4, PlaceIsOwn
  <2> QED BY <1>4, <2>5
<1>7. DOMAIN rows = 1..n
  BY <1>3
<1>8. \A i \in 1..n : rows[i] = Occurrence(s, p, rows[i].day) /\ rows[i].day \in days
  BY <1>2, <1>4
<1> QED BY <1>1, <1>5, <1>6, <1>7, <1>8 DEF rows

----------------------------------------------------------------------------
(* Types.                                                                  *)

TaskRow == [request : Request \cup {NoRequest}, digest : Content \cup {NoDigest},
            content : Content, version : Nat, deleted : BOOLEAN, series : Nat, day : Nat]
SeriesRow == [request : Request, digest : Pattern, pattern : Pattern,
              version : Nat, deleted : BOOLEAN]

Reading == [pattern : Pattern, listed : SUBSET Nat, asOf : Nat, since : Nat]

Control ==
    /\ DOMAIN answer = Worker /\ DOMAIN call = Worker /\ DOMAIN pc = Worker /\ DOMAIN seen = Worker
    /\ \A w \in Worker : call[w] = Idle \/ call[w] \in Call

StoreTypes ==
    /\ tasks \in Seq(TaskRow) /\ series \in Seq(SeriesRow)
    /\ today \in Day
    /\ Control

LEMMA CallTypes ==
    ASSUME NEW c \in Call
    PROVE  /\ c # Idle
           /\ c.op = "create" => c.request \in Request /\ c.content \in Content
           /\ c.op = "update" => \A old \in Content : Patched(old, c) \in Content
           /\ c.op = "open" => c.request \in Request /\ c.pattern \in Pattern
           /\ c.op = "replace" => c.pattern \in Pattern
           /\ c.op \in {"update", "delete"} => c.task \in Nat
           /\ c.op \in {"replace", "drop", "materialize"} => c.series \in Nat
           /\ c.op # "create" /\ c.op # "open" => c.expected \in Nat
           /\ c.op = "materialize" => c.start \in Nat /\ c.days \in Nat
<1>1. c \in Calls
  BY CallAssumption
<1>2. CASE c \in [op : {"create"}, request : Request, content : Content]
  BY <1>2 DEF Idle
<1>3. CASE c \in [op : {"update"}, task : Nat, expected : 1..MaxVersion,
                  field : Fields, value : Nat]
  BY <1>3, CallAssumption DEF Idle, Patched
<1>4. CASE c \in [op : {"delete"}, task : Nat, expected : 1..MaxVersion]
  BY <1>4 DEF Idle
<1>5. CASE c \in [op : {"open"}, request : Request, pattern : Pattern]
  BY <1>5 DEF Idle
<1>6. CASE c \in [op : {"replace"}, series : Nat, expected : 1..MaxVersion, pattern : Pattern]
  BY <1>6 DEF Idle
<1>7. CASE c \in [op : {"drop"}, series : Nat, expected : 1..MaxVersion]
  BY <1>7 DEF Idle
<1>8. CASE c \in [op : {"materialize"}, series : Nat, expected : 1..MaxVersion,
                  start : Day, days : {1, Week}]
  <2>1. /\ c.op = "materialize" /\ c.series \in Nat /\ c.expected \in 1..MaxVersion
        /\ c.start \in Day /\ c.days \in {1, Week}
    BY <1>8
  <2>2. c.start \in Nat /\ c.days \in Nat /\ c.expected \in Nat
    <3>1. Day \subseteq Nat /\ {1, Week} \subseteq Nat /\ 1..MaxVersion \subseteq Nat
      BY DayAssumption, LimitAssumption
    <3> QED BY <2>1, <3>1
  <2> QED BY <2>1, <2>2 DEF Idle
<1> QED BY <1>1, <1>2, <1>3, <1>4, <1>5, <1>6, <1>7, <1>8 DEF Calls

LEMMA RowsTyped ==
    ASSUME StoreTypes
    PROVE  /\ Len(tasks) \in Nat /\ DOMAIN tasks = 1..Len(tasks)
           /\ \A t \in DOMAIN tasks : /\ tasks[t] \in TaskRow /\ tasks[t].version \in Nat
                                     /\ tasks[t].series \in Nat /\ tasks[t].day \in Nat
           /\ Len(series) \in Nat /\ DOMAIN series = 1..Len(series)
           /\ \A s \in DOMAIN series : series[s] \in SeriesRow /\ series[s].version \in Nat
<1>1. tasks \in Seq(TaskRow) /\ series \in Seq(SeriesRow)
  BY DEF StoreTypes
<1>2. /\ Len(tasks) \in Nat /\ DOMAIN tasks = 1..Len(tasks)
      /\ \A t \in DOMAIN tasks : tasks[t] \in TaskRow
      /\ Len(series) \in Nat /\ DOMAIN series = 1..Len(series)
      /\ \A s \in DOMAIN series : series[s] \in SeriesRow
  BY <1>1
<1> QED BY <1>2 DEF TaskRow, SeriesRow

(* The days a call can fill are finitely many numbers.                     *)
LEMMA DatesFinite ==
    ASSUME NEW c \in Call, c.op = "materialize", NEW p,
           NEW days, days \subseteq OccurrenceDates(p, Window(c))
    PROVE  days \in SUBSET Nat /\ IsFiniteSet(days)
<1>1. c.start \in Nat /\ c.days \in Nat
  BY CallTypes
<1>2. days \in SUBSET Window(c)
  BY DEF OccurrenceDates
<1>3. IsFiniteSet(Window(c))
  <2>1. c.start \in Int /\ c.start + c.days - 1 \in Int
    BY <1>1
  <2> QED BY <2>1, FS_Interval DEF Window
<1>4. Window(c) \subseteq Nat
  BY <1>1 DEF Window
<1> QED BY <1>2, <1>3, <1>4, FS_Subset

LEMMA RowTypes ==
    /\ \A c \in Call : c.op = "create" => NewTask(c) \in TaskRow
    /\ \A c \in Call : c.op = "open" => NewSeries(c) \in SeriesRow
    /\ \A s \in Nat, p \in Pattern, d \in Nat : Occurrence(s, p, d) \in TaskRow
<1>1. \A p \in Pattern : p.content \in Content
  BY PatternAssumption
<1> QED BY <1>1, CallTypes
        DEF NewTask, NewSeries, Occurrence, TaskRow, SeriesRow, NoRequest, NoDigest, NoSeries

----------------------------------------------------------------------------
(* The inductive invariant.                                                *)

Holding == {"locked", "listed", "dated"}

(* What a connection can rely on after each of its statements.             *)
Relied(w) ==
    LET c == call[w]
    IN  /\ pc[w] = "idle" <=> c = Idle
        /\ c # Idle => answer[w] = NoAnswer
        /\ pc[w] = "read" =>
              /\ c.op \in {"update", "delete"}
              /\ c.task \in DOMAIN tasks /\ tasks[c.task].version >= c.expected
              /\ c.op = "update" /\ tasks[c.task].version = c.expected =>
                    seen[w] = Patched(tasks[c.task].content, c) /\ Valid(seen[w])
        /\ pc[w] \in Holding =>
              /\ c.op \in {"replace", "drop", "materialize"}
              /\ Expected(series, c.series, c)
              /\ seen[w] \in Reading
              /\ seen[w].pattern = series[c.series].pattern
        /\ pc[w] \in {"listed", "dated"} =>
              c.op = "materialize" /\ seen[w].listed = InWindow(c) /\ seen[w].since <= today
        /\ pc[w] = "dated" =>
              /\ seen[w].asOf \in Day /\ seen[w].asOf <= today
              /\ seen[w].since <= seen[w].asOf

(* The lock on the row of a recurring activity.                            *)
OneLock ==
    \A v, w \in Worker :
        pc[v] \in Holding /\ pc[w] \in Holding /\ call[v].series = call[w].series => v = w

StoreInv ==
    /\ StoreTypes /\ OneLock
    /\ \A w \in Worker : Relied(w)
    /\ OneOccurrencePerDay

(* A connection keeps what it relies on when a row that changes counts up, *)
(* and the activity it has locked and its occurrences stay.                *)
LEMMA ReliedKept ==
    ASSUME NEW w \in Worker, StoreTypes, Relied(w), NEW c, c = call[w],
           call'[w] = c, pc'[w] = pc[w], seen'[w] = seen[w], answer'[w] = answer[w],
           \A t \in DOMAIN tasks : /\ t \in DOMAIN tasks'
                                  /\ \/ tasks'[t] = tasks[t]
                                     \/ /\ tasks'[t].version = tasks[t].version + 1
                                        /\ tasks[t].version \in Nat,
           pc[w] \in Holding => /\ c.series \in DOMAIN series'
                               /\ series'[c.series] = series[c.series]
                               /\ InWindow(c)' = InWindow(c),
           today' \in Day, today <= today'
    PROVE  Relied(w)'
<1>1. /\ pc'[w] = "idle" <=> c = Idle
      /\ c # Idle => answer'[w] = NoAnswer
  BY DEF Relied
<1>2. ASSUME pc[w] = "read"
      PROVE  /\ c.op \in {"update", "delete"}
             /\ c.task \in DOMAIN tasks' /\ tasks'[c.task].version >= c.expected
             /\ c.op = "update" /\ tasks'[c.task].version = c.expected =>
                   seen[w] = Patched(tasks'[c.task].content, c) /\ Valid(seen[w])
  <2>1. /\ c.op \in {"update", "delete"}
        /\ c.task \in DOMAIN tasks /\ tasks[c.task].version >= c.expected
        /\ c.op = "update" /\ tasks[c.task].version = c.expected =>
              seen[w] = Patched(tasks[c.task].content, c) /\ Valid(seen[w])
    BY <1>2 DEF Relied
  <2>2. c.expected \in Nat
    BY <2>1, CallTypes DEF StoreTypes, Control, Idle
  <2>3. CASE tasks'[c.task] = tasks[c.task]
    BY <2>1, <2>3
  <2>4. CASE /\ tasks'[c.task].version = tasks[c.task].version + 1
             /\ tasks[c.task].version \in Nat
    BY <2>1, <2>2, <2>4
  <2> QED BY <2>1, <2>3, <2>4
<1>3. ASSUME pc[w] \in Holding
      PROVE  /\ c.op \in {"replace", "drop", "materialize"}
             /\ Expected(series, c.series, c)'
             /\ seen[w] \in Reading
             /\ seen[w].pattern = series'[c.series].pattern
  BY <1>3 DEF Relied, Expected, Live
<1>4. ASSUME pc[w] \in {"listed", "dated"}
      PROVE  c.op = "materialize" /\ seen[w].listed = InWindow(c)' /\ seen[w].since <= today'
  <2>1. c.op = "materialize" /\ seen[w].listed = InWindow(c) /\ seen[w].since <= today
    BY <1>4 DEF Relied
  <2>2. InWindow(c)' = InWindow(c) /\ seen[w].since \in Nat
    BY <1>4 DEF Relied, Holding, Reading
  <2>3. today \in Nat /\ today' \in Nat
    BY DayAssumption DEF StoreTypes
  <2> QED BY <2>1, <2>2, <2>3
<1>5. ASSUME pc[w] = "dated"
      PROVE  seen[w].asOf \in Day /\ seen[w].asOf <= today' /\ seen[w].since <= seen[w].asOf
  <2>1. seen[w].asOf \in Day /\ seen[w].asOf <= today /\ seen[w].since <= seen[w].asOf
    BY <1>5 DEF Relied
  <2>2. today \in Nat /\ today' \in Nat /\ seen[w].asOf \in Nat
    BY <2>1, DayAssumption DEF StoreTypes
  <2> QED BY <2>1, <2>2
<1> QED BY <1>1, <1>2, <1>3, <1>4, <1>5 DEF Relied, Valid, Patched

----------------------------------------------------------------------------
(* What a statement of connection w does to the control state.             *)

Aside(w) ==
    \A v \in Worker \ {w} : /\ call'[v] = call[v] /\ pc'[v] = pc[v]
                            /\ seen'[v] = seen[v] /\ answer'[v] = answer[v]

Ended(w) == Control' /\ Aside(w) /\ call'[w] = Idle /\ pc'[w] = "idle"

LEMMA ReturnEnds ==
    ASSUME NEW w \in Worker, Control, NEW outcome, NEW rows, Return(w, outcome, rows)
    PROVE  Ended(w) /\ answer'[w] = [call |-> call[w], outcome |-> outcome, rows |-> rows]
BY DEF Return, Keep, Control, Aside, Ended

LEMMA RefuseEnds ==
    ASSUME NEW w \in Worker, Control, Refuse(w)
    PROVE  Ended(w) /\ UNCHANGED <<tasks, series, answer>>
BY DEF Refuse, Keep, Control, Aside, Ended

LEMMA GoGoes ==
    ASSUME NEW w \in Worker, Control, NEW place, Go(w, place), DOMAIN seen' = Worker,
           \A v \in Worker \ {w} : seen'[v] = seen[v]
    PROVE  Control' /\ Aside(w) /\ call'[w] = call[w] /\ pc'[w] = place /\ answer' = answer
BY DEF Go, Control, Aside

LEMMA EndedRelies ==
    ASSUME NEW w \in Worker, Ended(w)
    PROVE  Relied(w)'
BY DEF Ended, Relied, Holding

LEMMA LockKept ==
    ASSUME NEW w \in Worker, OneLock, Aside(w),
           pc'[w] \in Holding => pc[w] \in Holding /\ call'[w] = call[w]
    PROVE  OneLock'
<1> SUFFICES ASSUME NEW u \in Worker, NEW v \in Worker, pc'[u] \in Holding, pc'[v] \in Holding,
                    call'[u].series = call'[v].series
             PROVE  u = v
  BY DEF OneLock
<1>1. pc[u] \in Holding /\ call'[u] = call[u] /\ pc[v] \in Holding /\ call'[v] = call[v]
  BY DEF Aside
<1> QED BY <1>1 DEF OneLock

(* Statements that write no row.                                           *)
LEMMA TablesStay ==
    ASSUME StoreInv, NEW w \in Worker, UNCHANGED <<tasks, series, today>>,
           Control', Aside(w), Relied(w)', OneLock'
    PROVE  StoreInv'
<1>1. StoreTypes /\ today \in Nat
  BY DayAssumption DEF StoreInv, StoreTypes
<1>2. ASSUME NEW v \in Worker, v # w PROVE Relied(v)'
  <2>1. PICK c : c = call[v]
    OBVIOUS
  <2>2. Relied(v) /\ call'[v] = c /\ pc'[v] = pc[v] /\ seen'[v] = seen[v] /\ answer'[v] = answer[v]
    BY <1>2, <2>1 DEF StoreInv, Aside
  <2>3. /\ \A t \in DOMAIN tasks : t \in DOMAIN tasks' /\ tasks'[t] = tasks[t]
        /\ InWindow(c)' = InWindow(c)
        /\ today' \in Day /\ today <= today'
    BY <1>1 DEF InWindow, StoreTypes
  <2>4. pc[v] \in Holding => c.series \in DOMAIN series' /\ series'[c.series] = series[c.series]
    BY <2>1, <2>2 DEF Relied, Expected, Live
  <2> QED BY <1>1, <2>1, <2>2, <2>3, <2>4, ReliedKept
<1>3. StoreTypes'
  BY <1>1 DEF StoreTypes
<1>4. OneOccurrencePerDay'
  BY DEF StoreInv, OneOccurrencePerDay
<1> QED BY <1>2, <1>3, <1>4 DEF StoreInv

(* Statements that write and end their transaction.                        *)
LEMMA TablesChange ==
    ASSUME StoreInv, NEW w \in Worker, Ended(w), today' = today,
           tasks' \in Seq(TaskRow), series' \in Seq(SeriesRow), OneOccurrencePerDay',
           \A t \in DOMAIN tasks : /\ t \in DOMAIN tasks'
                                  /\ \/ tasks'[t] = tasks[t]
                                     \/ tasks'[t].version = tasks[t].version + 1,
           \A v \in Worker \ {w} : pc[v] \in Holding =>
               \A c : c = call[v] => /\ c.series \in DOMAIN series'
                                    /\ series'[c.series] = series[c.series]
                                    /\ InWindow(c)' = InWindow(c)
    PROVE  StoreInv'
<1>1. StoreTypes /\ today \in Nat
  BY DayAssumption DEF StoreInv, StoreTypes
<1>2. ASSUME NEW v \in Worker, v # w PROVE Relied(v)'
  <2>1. PICK c : c = call[v]
    OBVIOUS
  <2>2. Relied(v) /\ call'[v] = c /\ pc'[v] = pc[v] /\ seen'[v] = seen[v] /\ answer'[v] = answer[v]
    BY <1>2, <2>1 DEF StoreInv, Aside, Ended
  <2>3. today' \in Day /\ today <= today' /\ \A t \in DOMAIN tasks : tasks[t].version \in Nat
    BY <1>1, RowsTyped DEF StoreTypes
  <2>4. pc[v] \in Holding => /\ c.series \in DOMAIN series'
                            /\ series'[c.series] = series[c.series]
                            /\ InWindow(c)' = InWindow(c)
    BY <1>2, <2>1
  <2> QED BY <1>1, <2>1, <2>2, <2>3, <2>4, ReliedKept
<1>3. StoreTypes'
  BY <1>1 DEF StoreTypes, Ended
<1>4. OneLock'
  BY LockKept DEF StoreInv, Ended, Holding
<1> QED BY <1>2, <1>3, <1>4, EndedRelies DEF StoreInv

----------------------------------------------------------------------------
(* Statements that write no row, one by one.                               *)

LEMMA RefuseSteps ==
    ASSUME StoreInv, NEW w \in Worker, Refuse(w), today' = today
    PROVE  StoreInv'
<1>1. Ended(w) /\ UNCHANGED <<tasks, series, answer>>
  BY RefuseEnds DEF StoreInv, StoreTypes
<1>2. OneLock'
  BY <1>1, LockKept DEF StoreInv, Ended, Holding
<1> QED BY <1>1, <1>2, EndedRelies, TablesStay DEF Ended

LEMMA ReturnSteps ==
    ASSUME StoreInv, NEW w \in Worker, NEW outcome, NEW rows, Return(w, outcome, rows),
           UNCHANGED <<tasks, series, today>>
    PROVE  StoreInv'
<1>1. Ended(w)
  BY ReturnEnds DEF StoreInv, StoreTypes
<1>2. OneLock'
  BY <1>1, LockKept DEF StoreInv, Ended, Holding
<1> QED BY <1>1, <1>2, EndedRelies, TablesStay DEF Ended

LEMMA BeginSteps ==
    ASSUME StoreInv, NEW w \in Worker, Begin(w)
    PROVE  StoreInv'
<1>1. PICK c \in Call : call' = [call EXCEPT ![w] = c]
  BY DEF Begin
<1>2. /\ Control' /\ Aside(w) /\ call'[w] = c /\ pc'[w] = "begun" /\ answer'[w] = NoAnswer
      /\ UNCHANGED <<tasks, series, today>>
  BY <1>1 DEF Begin, StoreInv, StoreTypes, Control, Aside
<1>3. Relied(w)'
  BY <1>2, CallTypes DEF Relied, Holding
<1>4. OneLock'
  BY <1>2, LockKept DEF StoreInv, Holding
<1> QED BY <1>2, <1>3, <1>4, TablesStay

(* A lost race for the request id: the row is read again.                  *)
LEMMA KnownSteps ==
    ASSUME StoreInv, NEW w \in Worker, call[w] # Idle, Go(w, "known"),
           UNCHANGED <<tasks, series, today, seen>>
    PROVE  StoreInv'
<1>1. Control' /\ Aside(w) /\ call'[w] = call[w] /\ pc'[w] = "known" /\ answer' = answer
  BY GoGoes DEF StoreInv, StoreTypes, Control
<1>2. Relied(w)'
  BY <1>1 DEF StoreInv, Relied, Holding
<1>3. OneLock'
  BY <1>1, LockKept DEF StoreInv, Holding
<1> QED BY <1>1, <1>2, <1>3, TablesStay

LEMMA ReadTaskSteps ==
    ASSUME StoreInv, NEW w \in Worker, ReadTask(w)
    PROVE  StoreInv'
<1>1. PICK c : c = call[w]
  OBVIOUS
<1>2. /\ c # Idle /\ c.op \in {"update", "delete"} /\ c \in Call
      /\ today' = today /\ answer[w] = NoAnswer
  BY <1>1 DEF ReadTask, At, StoreInv, StoreTypes, Control, Relied
<1>3. CASE Refuse(w)
  BY <1>2, <1>3, RefuseSteps
<1>4. CASE ~Refuse(w)
  <2> DEFINE new == Patched(tasks[c.task].content, c)
  <2>1. /\ Expected(tasks, c.task, c)
        /\ c.op = "update" => c.expected < MaxVersion /\ Valid(new)
        /\ Go(w, "read")
        /\ Keep(w, IF c.op = "update" THEN new ELSE Nothing)
        /\ UNCHANGED <<tasks, series>>
    BY <1>1, <1>4 DEF ReadTask
  <2>2. /\ DOMAIN seen' = Worker /\ \A v \in Worker \ {w} : seen'[v] = seen[v]
        /\ c.op = "update" => seen'[w] = new
    BY <2>1 DEF Keep, StoreInv, StoreTypes, Control
  <2>3. Control' /\ Aside(w) /\ call'[w] = c /\ pc'[w] = "read" /\ answer' = answer
    BY <1>1, <2>1, <2>2, GoGoes DEF StoreInv, StoreTypes
  <2>4. /\ c.task \in DOMAIN tasks' /\ tasks'[c.task].version = c.expected
        /\ c.expected \in Nat
    BY <1>2, <2>1, CallTypes DEF Expected, Live
  <2>5. c.op = "update" => seen'[w] = Patched(tasks'[c.task].content, c) /\ Valid(seen'[w])
    BY <2>1, <2>2
  <2>6. Relied(w)'
    BY <1>2, <2>3, <2>4, <2>5 DEF Relied, Holding, Patched, Valid
  <2>7. OneLock'
    BY <2>3, LockKept DEF StoreInv, Holding
  <2> QED BY <1>2, <2>1, <2>3, <2>6, <2>7, TablesStay
<1> QED BY <1>3, <1>4

LEMMA LockSeriesSteps ==
    ASSUME StoreInv, NEW w \in Worker, LockSeries(w)
    PROVE  StoreInv'
<1>1. PICK c : c = call[w]
  OBVIOUS
<1>2. /\ c # Idle /\ c.op \in {"replace", "drop", "materialize"} /\ c \in Call
      /\ today' = today /\ answer[w] = NoAnswer /\ pc[w] = "begun"
  BY <1>1 DEF LockSeries, At, StoreInv, StoreTypes, Control, Relied
<1>3. CASE Refuse(w)
  BY <1>2, <1>3, RefuseSteps
<1>4. CASE ~Refuse(w)
  <2>1. /\ Expected(series, c.series, c)
        /\ Go(w, "locked")
        /\ Keep(w, [pattern |-> series[c.series].pattern, listed |-> {},
                    asOf |-> 0, since |-> today])
        /\ UNCHANGED <<tasks, series>>
    BY <1>1, <1>4 DEF LockSeries
  <2>2. /\ DOMAIN seen' = Worker /\ \A v \in Worker \ {w} : seen'[v] = seen[v]
        /\ seen'[w] = [pattern |-> series[c.series].pattern, listed |-> {},
                       asOf |-> 0, since |-> today]
    BY <2>1 DEF Keep, StoreInv, StoreTypes, Control
  <2>3. Control' /\ Aside(w) /\ call'[w] = c /\ pc'[w] = "locked" /\ answer' = answer
    BY <1>1, <2>1, <2>2, GoGoes DEF StoreInv, StoreTypes
  <2>4. series[c.series].pattern \in Pattern /\ today \in Nat
    BY <2>1, RowsTyped, DayAssumption DEF Expected, Live, StoreInv, StoreTypes, SeriesRow
  <2>5. Expected(series, c.series, c)'
    BY <2>1 DEF Expected, Live
  <2>6. seen'[w] \in Reading /\ seen'[w].pattern = series'[c.series].pattern
    BY <2>1, <2>2, <2>4 DEF Reading
  <2>7. Relied(w)'
    BY <1>2, <2>3, <2>5, <2>6 DEF Relied, Holding, Expected, Live
  <2>8. OneLock'
    <3> SUFFICES ASSUME NEW u \in Worker, NEW v \in Worker,
                        pc'[u] \in Holding, pc'[v] \in Holding,
                        call'[u].series = call'[v].series
                 PROVE  u = v
      BY DEF OneLock
    <3>1. \A v1 \in Worker \ {w} : ~HoldsSeries(v1, c.series)
      BY <1>1 DEF LockSeries
    <3>2. \A v1 \in Worker \ {w} : pc[v1] \in Holding => call[v1].series # c.series
      BY <3>1 DEF HoldsSeries, Holding, StoreInv, Relied, Idle
    <3>3. CASE u = w \/ v = w
      BY <2>3, <3>2, <3>3 DEF Aside
    <3>4. CASE u # w /\ v # w
      BY <2>3, <3>4 DEF Aside, StoreInv, OneLock
    <3> QED BY <3>3, <3>4
  <2> QED BY <1>2, <2>1, <2>3, <2>7, <2>8, TablesStay
<1> QED BY <1>3, <1>4

LEMMA ListSteps ==
    ASSUME StoreInv, NEW w \in Worker, ListOccurrences(w)
    PROVE  StoreInv'
<1>1. PICK c : c = call[w]
  OBVIOUS
<1>2. /\ c # Idle /\ c.op = "materialize" /\ c \in Call /\ pc[w] = "locked" /\ pc[w] \in Holding
      /\ UNCHANGED <<tasks, series, today>> /\ answer[w] = NoAnswer
      /\ Go(w, "listed")
      /\ seen' = [seen EXCEPT ![w].listed = InWindow(c), ![w].since = today]
  BY <1>1 DEF ListOccurrences, At, StoreInv, StoreTypes, Control, Relied, Holding
<1>3. /\ Expected(series, c.series, c) /\ seen[w] \in Reading
      /\ seen[w].pattern = series[c.series].pattern
  BY <1>1, <1>2 DEF StoreInv, Relied
<1>4. /\ DOMAIN seen' = Worker /\ \A v \in Worker \ {w} : seen'[v] = seen[v]
      /\ seen'[w] = [seen[w] EXCEPT !.listed = InWindow(c), !.since = today]
  BY <1>2 DEF StoreInv, StoreTypes, Control
<1>5. Control' /\ Aside(w) /\ call'[w] = c /\ pc'[w] = "listed" /\ answer' = answer
  BY <1>1, <1>2, <1>4, GoGoes DEF StoreInv, StoreTypes
<1>6. InWindow(c) \in SUBSET Nat /\ today \in Nat
  BY RowsTyped, DayAssumption DEF InWindow, StoreInv, StoreTypes
<1>7. /\ seen'[w] \in Reading /\ seen'[w].pattern = series[c.series].pattern
      /\ seen'[w].listed = InWindow(c) /\ seen'[w].since = today
  BY <1>3, <1>4, <1>6 DEF Reading
<1>8. InWindow(c)' = InWindow(c)
  BY <1>2 DEF InWindow
<1>9. Relied(w)'
  BY <1>2, <1>3, <1>5, <1>6, <1>7, <1>8 DEF Relied, Holding, Expected, Live
<1>10. OneLock'
  BY <1>1, <1>2, <1>5, LockKept DEF StoreInv
<1> QED BY <1>2, <1>5, <1>9, <1>10, TablesStay

LEMMA CaptureSteps ==
    ASSUME StoreInv, NEW w \in Worker, CaptureToday(w)
    PROVE  StoreInv'
<1>1. PICK c : c = call[w]
  OBVIOUS
<1>2. /\ c # Idle /\ c.op = "materialize" /\ c \in Call /\ pc[w] = "listed" /\ pc[w] \in Holding
      /\ UNCHANGED <<tasks, series, today>> /\ answer[w] = NoAnswer
      /\ Go(w, "dated")
      /\ seen' = [seen EXCEPT ![w].asOf = today]
  BY <1>1 DEF CaptureToday, At, StoreInv, StoreTypes, Control, Relied, Holding
<1>3. /\ Expected(series, c.series, c) /\ seen[w] \in Reading
      /\ seen[w].pattern = series[c.series].pattern
      /\ seen[w].listed = InWindow(c) /\ seen[w].since <= today
  BY <1>1, <1>2 DEF StoreInv, Relied
<1>4. /\ DOMAIN seen' = Worker /\ \A v \in Worker \ {w} : seen'[v] = seen[v]
      /\ seen'[w] = [seen[w] EXCEPT !.asOf = today]
  BY <1>2 DEF StoreInv, StoreTypes, Control
<1>5. Control' /\ Aside(w) /\ call'[w] = c /\ pc'[w] = "dated" /\ answer' = answer
  BY <1>1, <1>2, <1>4, GoGoes DEF StoreInv, StoreTypes
<1>6. today \in Nat /\ today \in Day
  BY DayAssumption DEF StoreInv, StoreTypes
<1>7. /\ seen'[w] \in Reading /\ seen'[w].pattern = series[c.series].pattern
      /\ seen'[w].listed = InWindow(c) /\ seen'[w].since <= today /\ seen'[w].asOf = today
  BY <1>3, <1>4, <1>6 DEF Reading
<1>8. InWindow(c)' = InWindow(c)
  BY <1>2 DEF InWindow
<1>9. Relied(w)'
  BY <1>2, <1>3, <1>5, <1>6, <1>7, <1>8 DEF Relied, Holding, Expected, Live
<1>10. OneLock'
  BY <1>1, <1>2, <1>5, LockKept DEF StoreInv
<1> QED BY <1>2, <1>5, <1>9, <1>10, TablesStay

----------------------------------------------------------------------------
(* Statements that write, one by one.                                      *)

(* A connection that holds an activity has one that exists.                *)
LEMMA HeldSeries ==
    ASSUME StoreInv, NEW v \in Worker, pc[v] \in Holding, NEW c, c = call[v]
    PROVE  /\ c \in Call /\ c.series \in DOMAIN series /\ c.series # NoSeries
           /\ c.series \in 1..Len(series)
<1>1. c.op \in {"replace", "drop", "materialize"} /\ Expected(series, c.series, c)
  BY DEF StoreInv, Relied
<1>2. c.series \in DOMAIN series /\ c \in Call
  BY <1>1 DEF Expected, Live, StoreInv, StoreTypes, Control, Idle
<1>3. DOMAIN series = 1..Len(series) /\ Len(series) \in Nat
  BY RowsTyped DEF StoreInv
<1> QED BY <1>2, <1>3 DEF NoSeries

LEMMA InsertTaskSteps ==
    ASSUME StoreInv, NEW w \in Worker, InsertTask(w)
    PROVE  StoreInv'
<1>1. PICK c : c = call[w]
  OBVIOUS
<1>2. /\ c # Idle /\ c.op = "create" /\ c \in Call
      /\ today' = today /\ series' = series
  BY <1>1 DEF InsertTask, At, StoreInv, StoreTypes, Control
<1>3. CASE WithRequest(tasks, c.request) # {}
  <2>1. Go(w, "known") /\ UNCHANGED <<tasks, seen>>
    BY <1>1, <1>3 DEF InsertTask
  <2> QED BY <1>1, <1>2, <2>1, KnownSteps
<1>4. CASE WithRequest(tasks, c.request) = {}
  <2>1. tasks' = Append(tasks, NewTask(c)) /\ Return(w, "ok", {Len(tasks) + 1})
    BY <1>1, <1>4 DEF InsertTask
  <2>2. Ended(w)
    BY <2>1, ReturnEnds DEF StoreInv, StoreTypes
  <2>3. NewTask(c) \in TaskRow /\ NewTask(c).series = NoSeries
    BY <1>2, RowTypes DEF NewTask
  <2>4. tasks \in Seq(TaskRow) /\ series \in Seq(SeriesRow)
    BY DEF StoreInv, StoreTypes
  <2>5. /\ tasks' \in Seq(TaskRow) /\ series' \in Seq(SeriesRow)
        /\ DOMAIN tasks' = DOMAIN tasks \cup {Len(tasks) + 1}
        /\ \A t \in DOMAIN tasks : t \in DOMAIN tasks' /\ tasks'[t] = tasks[t]
        /\ tasks'[Len(tasks) + 1] = NewTask(c)
    BY <1>2, <2>1, <2>3, <2>4
  <2>6. \A d : d.series # NoSeries => InWindow(d)' = InWindow(d)
    BY <2>3, <2>5 DEF InWindow
  <2>7. OneOccurrencePerDay'
    BY <2>3, <2>5 DEF StoreInv, OneOccurrencePerDay
  <2>8. \A v \in Worker \ {w} : pc[v] \in Holding =>
            \A d : d = call[v] => /\ d.series \in DOMAIN series'
                                 /\ series'[d.series] = series[d.series]
                                 /\ InWindow(d)' = InWindow(d)
    BY <1>2, <2>6, HeldSeries
  <2> QED BY <1>2, <2>2, <2>5, <2>7, <2>8, TablesChange
<1> QED BY <1>3, <1>4

LEMMA InsertSeriesSteps ==
    ASSUME StoreInv, NEW w \in Worker, InsertSeries(w)
    PROVE  StoreInv'
<1>1. PICK c : c = call[w]
  OBVIOUS
<1>2. /\ c # Idle /\ c.op = "open" /\ c \in Call
      /\ today' = today /\ tasks' = tasks
  BY <1>1 DEF InsertSeries, At, StoreInv, StoreTypes, Control
<1>3. CASE WithRequest(series, c.request) # {}
  <2>1. Go(w, "known") /\ UNCHANGED <<series, seen>>
    BY <1>1, <1>3 DEF InsertSeries
  <2> QED BY <1>1, <1>2, <2>1, KnownSteps
<1>4. CASE WithRequest(series, c.request) = {}
  <2>1. series' = Append(series, NewSeries(c)) /\ Return(w, "ok", {Len(series) + 1})
    BY <1>1, <1>4 DEF InsertSeries
  <2>2. Ended(w)
    BY <2>1, ReturnEnds DEF StoreInv, StoreTypes
  <2>3. NewSeries(c) \in SeriesRow
    BY <1>2, RowTypes
  <2>4. tasks \in Seq(TaskRow) /\ series \in Seq(SeriesRow)
    BY DEF StoreInv, StoreTypes
  <2>5. /\ tasks' \in Seq(TaskRow) /\ series' \in Seq(SeriesRow)
        /\ \A s \in DOMAIN series : s \in DOMAIN series' /\ series'[s] = series[s]
        /\ \A t \in DOMAIN tasks : t \in DOMAIN tasks' /\ tasks'[t] = tasks[t]
    BY <1>2, <2>1, <2>3, <2>4
  <2>6. \A d : InWindow(d)' = InWindow(d)
    BY <1>2 DEF InWindow
  <2>7. OneOccurrencePerDay'
    BY <1>2 DEF StoreInv, OneOccurrencePerDay
  <2>8. \A v \in Worker \ {w} : pc[v] \in Holding =>
            \A d : d = call[v] => /\ d.series \in DOMAIN series'
                                 /\ series'[d.series] = series[d.series]
                                 /\ InWindow(d)' = InWindow(d)
    BY <2>5, <2>6, HeldSeries
  <2> QED BY <1>2, <2>2, <2>5, <2>7, <2>8, TablesChange
<1> QED BY <1>3, <1>4

(* What an edit makes of a row is a row.                                   *)
LEMMA EditedRow ==
    ASSUME NEW old \in TaskRow, NEW content \in Content
    PROVE  /\ [old EXCEPT !.content = content, !.version = @ + 1] \in TaskRow
           /\ [old EXCEPT !.deleted = TRUE, !.version = @ + 1] \in TaskRow
<1>1. old.version \in Nat
  BY DEF TaskRow
<1>2. old.version + 1 \in Nat
  BY <1>1
<1>3. PICK n \in Nat : n = old.version + 1
  BY <1>2
<1>4. /\ [old EXCEPT !.content = content, !.version = n] \in TaskRow
      /\ [old EXCEPT !.deleted = TRUE, !.version = n] \in TaskRow
  BY <1>3 DEF TaskRow
<1> QED BY <1>3, <1>4

(* A row that is edited stays the occurrence it is.                        *)
LEMMA EditSteps ==
    ASSUME StoreInv, NEW w \in Worker, NEW n \in DOMAIN tasks, NEW row,
           row \in TaskRow, row.version = tasks[n].version + 1,
           row.series = tasks[n].series, row.day = tasks[n].day,
           tasks' = [tasks EXCEPT ![n] = row], UNCHANGED <<series, today>>, Ended(w)
    PROVE  StoreInv'
<1>1. tasks \in Seq(TaskRow) /\ series \in Seq(SeriesRow)
  BY DEF StoreInv, StoreTypes
<1>2. /\ tasks' \in Seq(TaskRow) /\ series' \in Seq(SeriesRow)
      /\ DOMAIN tasks' = DOMAIN tasks
      /\ \A t \in DOMAIN tasks : tasks'[t] = IF t = n THEN row ELSE tasks[t]
  BY <1>1
<1>3. \A t \in DOMAIN tasks : tasks'[t].series = tasks[t].series /\ tasks'[t].day = tasks[t].day
  BY <1>2
<1>4. OneOccurrencePerDay'
  BY <1>2, <1>3 DEF StoreInv, OneOccurrencePerDay
<1>5. \A d : InWindow(d)' = InWindow(d)
  BY <1>2, <1>3 DEF InWindow
<1>6. \A v \in Worker \ {w} : pc[v] \in Holding =>
          \A d : d = call[v] => /\ d.series \in DOMAIN series'
                               /\ series'[d.series] = series[d.series]
                               /\ InWindow(d)' = InWindow(d)
  BY <1>5, HeldSeries
<1>7. \A t \in DOMAIN tasks : /\ t \in DOMAIN tasks'
                             /\ \/ tasks'[t] = tasks[t]
                                \/ tasks'[t].version = tasks[t].version + 1
  BY <1>2
<1> QED BY <1>2, <1>4, <1>6, <1>7, TablesChange

LEMMA UpdateTaskSteps ==
    ASSUME StoreInv, NEW w \in Worker, UpdateTask(w)
    PROVE  StoreInv'
<1>1. PICK c : c = call[w]
  OBVIOUS
<1>2. /\ c # Idle /\ c.op = "update" /\ c \in Call /\ pc[w] = "read" /\ today' = today
  BY <1>1 DEF UpdateTask, At, StoreInv, StoreTypes, Control
<1>3. CASE Refuse(w)
  BY <1>2, <1>3, RefuseSteps
<1>4. CASE ~Refuse(w)
  <2>1. /\ Expected(tasks, c.task, c)
        /\ tasks' = [tasks EXCEPT ![c.task].content = seen[w], ![c.task].version = @ + 1]
        /\ Return(w, "ok", {c.task})
        /\ UNCHANGED series
    BY <1>1, <1>4 DEF UpdateTask
  <2>2. Ended(w)
    BY <2>1, ReturnEnds DEF StoreInv, StoreTypes
  <2>3. /\ c.task \in DOMAIN tasks /\ tasks[c.task] \in TaskRow /\ tasks \in Seq(TaskRow)
    BY <2>1, RowsTyped DEF Expected, Live, StoreInv, StoreTypes
  <2>4. seen[w] = Patched(tasks[c.task].content, c)
    BY <1>1, <1>2, <2>1 DEF StoreInv, Relied, Expected
  <2>5. seen[w] \in Content
    BY <1>2, <2>3, <2>4, CallTypes DEF TaskRow
  <2> DEFINE row == [tasks[c.task] EXCEPT !.content = seen[w], !.version = @ + 1]
  <2>6. row \in TaskRow
    BY <2>3, <2>5, EditedRow
  <2>7. tasks' = [tasks EXCEPT ![c.task] = row]
    BY <2>1, <2>3
  <2>8. /\ row.version = tasks[c.task].version + 1
        /\ row.series = tasks[c.task].series /\ row.day = tasks[c.task].day
    BY <2>3 DEF TaskRow
  <2> HIDE DEF row
  <2> QED BY <1>2, <2>1, <2>2, <2>3, <2>6, <2>7, <2>8, EditSteps
<1> QED BY <1>3, <1>4

LEMMA DeleteTaskSteps ==
    ASSUME StoreInv, NEW w \in Worker, DeleteTask(w)
    PROVE  StoreInv'
<1>1. PICK c : c = call[w]
  OBVIOUS
<1>2. today' = today
  BY DEF DeleteTask
<1>3. CASE Refuse(w)
  BY <1>2, <1>3, RefuseSteps
<1>4. CASE ~Refuse(w)
  <2>1. /\ Expected(tasks, c.task, c)
        /\ tasks' = [tasks EXCEPT ![c.task].deleted = TRUE, ![c.task].version = @ + 1]
        /\ Return(w, "ok", {c.task})
        /\ UNCHANGED series
    BY <1>1, <1>4 DEF DeleteTask
  <2>2. Ended(w)
    BY <2>1, ReturnEnds DEF StoreInv, StoreTypes
  <2>3. /\ c.task \in DOMAIN tasks /\ tasks[c.task] \in TaskRow /\ tasks \in Seq(TaskRow)
    BY <2>1, RowsTyped DEF Expected, Live, StoreInv, StoreTypes
  <2> DEFINE row == [tasks[c.task] EXCEPT !.deleted = TRUE, !.version = @ + 1]
  <2>4. row \in TaskRow
    <3>1. tasks[c.task].content \in Content
      BY <2>3 DEF TaskRow
    <3> QED BY <2>3, <3>1, EditedRow
  <2>5. tasks' = [tasks EXCEPT ![c.task] = row]
    BY <2>1, <2>3
  <2>6. /\ row.version = tasks[c.task].version + 1
        /\ row.series = tasks[c.task].series /\ row.day = tasks[c.task].day
    BY <2>3 DEF TaskRow
  <2> HIDE DEF row
  <2> QED BY <1>2, <2>1, <2>2, <2>3, <2>4, <2>5, <2>6, EditSteps
<1> QED BY <1>3, <1>4

(* Nobody else holds the activity that a connection has locked.            *)
LEMMA LockedSeriesSteps ==
    ASSUME StoreInv, NEW w \in Worker, NEW c, c = call[w], pc[w] \in Holding, NEW row,
           row \in SeriesRow, series' = [series EXCEPT ![c.series] = row],
           UNCHANGED <<tasks, today>>, Ended(w)
    PROVE  StoreInv'
<1>1. tasks \in Seq(TaskRow) /\ series \in Seq(SeriesRow)
  BY DEF StoreInv, StoreTypes
<1>2. /\ series' \in Seq(SeriesRow) /\ DOMAIN series' = DOMAIN series
      /\ \A s \in DOMAIN series : s # c.series => series'[s] = series[s]
  <2>1. c.series \in DOMAIN series
    BY HeldSeries
  <2> QED BY <1>1, <2>1
<1>3. OneOccurrencePerDay'
  BY DEF StoreInv, OneOccurrencePerDay
<1>4. \A d : InWindow(d)' = InWindow(d)
  BY DEF InWindow
<1>5. \A v \in Worker \ {w} : pc[v] \in Holding =>
          \A d : d = call[v] => /\ d.series \in DOMAIN series'
                               /\ series'[d.series] = series[d.series]
                               /\ InWindow(d)' = InWindow(d)
  <2> SUFFICES ASSUME NEW v \in Worker \ {w}, pc[v] \in Holding, NEW d, d = call[v]
               PROVE  /\ d.series \in DOMAIN series'
                      /\ series'[d.series] = series[d.series]
                      /\ InWindow(d)' = InWindow(d)
    OBVIOUS
  <2>1. d.series # c.series
    BY DEF StoreInv, OneLock
  <2>2. d.series \in DOMAIN series
    BY HeldSeries
  <2> QED BY <1>2, <1>4, <2>1, <2>2
<1>6. \A t \in DOMAIN tasks : /\ t \in DOMAIN tasks'
                             /\ \/ tasks'[t] = tasks[t]
                                \/ tasks'[t].version = tasks[t].version + 1
  OBVIOUS
<1> QED BY <1>1, <1>2, <1>3, <1>5, <1>6, TablesChange

LEMMA EditedSeries ==
    ASSUME NEW old \in SeriesRow, NEW pattern \in Pattern
    PROVE  /\ [old EXCEPT !.pattern = pattern, !.version = @ + 1] \in SeriesRow
           /\ [old EXCEPT !.deleted = TRUE, !.version = @ + 1] \in SeriesRow
<1>1. old.version \in Nat
  BY DEF SeriesRow
<1>2. PICK n \in Nat : n = old.version + 1
  BY <1>1
<1>3. /\ [old EXCEPT !.pattern = pattern, !.version = n] \in SeriesRow
      /\ [old EXCEPT !.deleted = TRUE, !.version = n] \in SeriesRow
  BY <1>2 DEF SeriesRow
<1> QED BY <1>2, <1>3

LEMMA ReplaceSeriesSteps ==
    ASSUME StoreInv, NEW w \in Worker, ReplaceSeries(w)
    PROVE  StoreInv'
<1>1. PICK c : c = call[w]
  OBVIOUS
<1>2. /\ c # Idle /\ c.op = "replace" /\ c \in Call /\ pc[w] \in Holding
      /\ UNCHANGED <<tasks, today>>
      /\ series' = [series EXCEPT ![c.series].pattern = c.pattern, ![c.series].version = @ + 1]
      /\ Return(w, "ok", {c.series})
  BY <1>1 DEF ReplaceSeries, At, StoreInv, StoreTypes, Control, Holding
<1>3. Ended(w)
  BY <1>2, ReturnEnds DEF StoreInv, StoreTypes
<1>4. c.series \in DOMAIN series /\ series[c.series] \in SeriesRow
  BY <1>1, <1>2, HeldSeries, RowsTyped DEF StoreInv
<1>5. c.pattern \in Pattern
  BY <1>2, CallTypes
<1> DEFINE row == [series[c.series] EXCEPT !.pattern = c.pattern, !.version = @ + 1]
<1>6. row \in SeriesRow
  BY <1>4, <1>5, EditedSeries
<1>7. series' = [series EXCEPT ![c.series] = row]
  BY <1>2, <1>4
<1> HIDE DEF row
<1> QED BY <1>1, <1>2, <1>3, <1>6, <1>7, LockedSeriesSteps

LEMMA DeleteSeriesSteps ==
    ASSUME StoreInv, NEW w \in Worker, DeleteSeries(w)
    PROVE  StoreInv'
<1>1. PICK c : c = call[w]
  OBVIOUS
<1>2. /\ c # Idle /\ c.op = "drop" /\ c \in Call /\ pc[w] \in Holding
      /\ UNCHANGED <<tasks, today>>
      /\ series' = [series EXCEPT ![c.series].deleted = TRUE, ![c.series].version = @ + 1]
      /\ Return(w, "ok", {c.series})
  BY <1>1 DEF DeleteSeries, At, StoreInv, StoreTypes, Control, Holding
<1>3. Ended(w)
  BY <1>2, ReturnEnds DEF StoreInv, StoreTypes
<1>4. c.series \in DOMAIN series /\ series[c.series] \in SeriesRow
  BY <1>1, <1>2, HeldSeries, RowsTyped DEF StoreInv
<1> DEFINE row == [series[c.series] EXCEPT !.deleted = TRUE, !.version = @ + 1]
<1>5. row \in SeriesRow
  <2>1. series[c.series].pattern \in Pattern
    BY <1>4 DEF SeriesRow
  <2> QED BY <1>4, <2>1, EditedSeries
<1>6. series' = [series EXCEPT ![c.series] = row]
  BY <1>2, <1>4
<1> HIDE DEF row
<1> QED BY <1>1, <1>2, <1>3, <1>5, <1>6, LockedSeriesSteps

LEMMA Concatenated ==
    ASSUME NEW Row, NEW front \in Seq(Row), NEW back \in Seq(Row)
    PROVE  /\ front \o back \in Seq(Row)
           /\ Len(front \o back) = Len(front) + Len(back)
           /\ \A i \in 1..Len(front) : (front \o back)[i] = front[i]
           /\ \A i \in 1..Len(back) : (front \o back)[Len(front) + i] = back[i]
OBVIOUS

(* What the new rows are, behind those that were there.                    *)
AddsRows(n, p, new) ==
    /\ Cardinality(new) \in Nat
    /\ tasks' \in Seq(TaskRow)
    /\ DOMAIN tasks' = 1..(Len(tasks) + Cardinality(new))
    /\ \A t \in DOMAIN tasks : t \in DOMAIN tasks' /\ tasks'[t] = tasks[t]
    /\ \A t \in DOMAIN tasks' \ DOMAIN tasks :
          /\ t \in (Len(tasks) + 1)..(Len(tasks) + Cardinality(new))
          /\ tasks'[t] = Occurrence(n, p, tasks'[t].day)
          /\ tasks'[t].day \in new /\ tasks'[t].series = n
    /\ \A s, t \in DOMAIN tasks' \ DOMAIN tasks : tasks'[s].day = tasks'[t].day => s = t
    /\ \A d \in new : \E t \in DOMAIN tasks' \ DOMAIN tasks : tasks'[t].day = d

LEMMA Added ==
    ASSUME StoreTypes, NEW n \in Nat, NEW p \in Pattern,
           NEW new \in SUBSET Nat, IsFiniteSet(new),
           tasks' = tasks \o Occurrences(n, p, new)
    PROVE  AddsRows(n, p, new)
<1> DEFINE k == Cardinality(new)
           rows == Occurrences(n, p, new)
           len == Len(tasks)
<1>3. /\ k \in Nat /\ DOMAIN rows = 1..k
      /\ \A i \in 1..k : rows[i] = Occurrence(n, p, rows[i].day) /\ rows[i].day \in new
      /\ \A i, j \in 1..k : rows[i].day = rows[j].day => i = j
      /\ \A d \in new : \E i \in 1..k : rows[i].day = d
  <2> HIDE DEF k
  <2>1. LET r == Occurrences(n, p, new)
        IN  /\ Cardinality(new) \in Nat
            /\ DOMAIN r = 1..Cardinality(new)
            /\ \A i \in DOMAIN r :
                  r[i] = Occurrence(n, p, r[i].day) /\ r[i].day \in new
            /\ \A i, j \in DOMAIN r : r[i].day = r[j].day => i = j
            /\ \A d \in new : \E i \in DOMAIN r : r[i].day = d
    BY OccurrencesAre
  <2> QED BY <2>1 DEF k, rows
<1>4. tasks \in Seq(TaskRow) /\ len \in Nat /\ DOMAIN tasks = 1..len
  BY RowsTyped DEF StoreTypes
<1>5. \A i \in 1..k : rows[i] \in TaskRow /\ rows[i].series = n
  <2> SUFFICES ASSUME NEW i \in 1..k PROVE rows[i] \in TaskRow /\ rows[i].series = n
    OBVIOUS
  <2>1. PICK d \in Nat : d = rows[i].day
    BY <1>3
  <2>2. rows[i] = Occurrence(n, p, d)
    BY <1>3, <2>1
  <2> HIDE DEF rows
  <2> QED BY <2>2, RowTypes DEF Occurrence
<1>6. rows \in Seq(TaskRow) /\ Len(rows) = k
  <2>1. rows = [i \in 1..k |-> rows[i]]
    BY DEF Occurrences
  <2> HIDE DEF rows, k
  <2>2. [i \in 1..k |-> rows[i]] \in Seq(TaskRow)
    BY <1>3, <1>5
  <2>3. rows \in Seq(TaskRow)
    BY <2>1, <2>2
  <2> QED BY <1>3, <2>3
<1>7. tasks' = tasks \o rows
  OBVIOUS
<1> HIDE DEF rows, k, len
<1>8. /\ tasks' \in Seq(TaskRow) /\ Len(tasks') = len + k
      /\ \A t \in 1..len : tasks'[t] = tasks[t]
      /\ \A i \in 1..k : tasks'[len + i] = rows[i]
  <2>1. tasks \in Seq(TaskRow) /\ rows \in Seq(TaskRow) /\ Len(rows) = k /\ Len(tasks) = len
    BY <1>4, <1>6 DEF len
  <2>2. /\ tasks \o rows \in Seq(TaskRow)
        /\ Len(tasks \o rows) = Len(tasks) + Len(rows)
        /\ \A i \in 1..Len(tasks) : (tasks \o rows)[i] = tasks[i]
        /\ \A i \in 1..Len(rows) : (tasks \o rows)[Len(tasks) + i] = rows[i]
    <3>1. \A a, b \in Seq(TaskRow) :
            /\ a \o b \in Seq(TaskRow)
            /\ Len(a \o b) = Len(a) + Len(b)
            /\ \A i \in 1..Len(a) : (a \o b)[i] = a[i]
            /\ \A i \in 1..Len(b) : (a \o b)[Len(a) + i] = b[i]
      BY Concatenated
    <3> QED BY ONLY <2>1, <3>1, Zenon
  <2> QED BY <1>7, <2>1, <2>2
<1>9. DOMAIN tasks' = 1..(len + k)
  BY <1>8
<1>10. \A t \in DOMAIN tasks' \ DOMAIN tasks :
          t \in (len + 1)..(len + k) /\ t - len \in 1..k /\ tasks'[t] = rows[t - len]
  <2> SUFFICES ASSUME NEW t \in DOMAIN tasks', t \notin DOMAIN tasks
               PROVE  t \in (len + 1)..(len + k) /\ t - len \in 1..k /\ tasks'[t] = rows[t - len]
    OBVIOUS
  <2>1. t \in (len + 1)..(len + k) /\ t - len \in 1..k /\ len + (t - len) = t
    BY <1>3, <1>4, <1>9
  <2> QED BY <1>8, <2>1
<1>11. \A t \in DOMAIN tasks : t \in DOMAIN tasks' /\ tasks'[t] = tasks[t]
  BY <1>3, <1>4, <1>8, <1>9
<1>12. \A t \in DOMAIN tasks' \ DOMAIN tasks :
          /\ t \in (len + 1)..(len + k)
          /\ tasks'[t] = Occurrence(n, p, tasks'[t].day)
          /\ tasks'[t].day \in new /\ tasks'[t].series = n
  BY <1>3, <1>5, <1>10
<1>13. \A s, t \in DOMAIN tasks' \ DOMAIN tasks : tasks'[s].day = tasks'[t].day => s = t
  <2> SUFFICES ASSUME NEW s \in DOMAIN tasks' \ DOMAIN tasks, NEW t \in DOMAIN tasks' \ DOMAIN tasks,
                      tasks'[s].day = tasks'[t].day
               PROVE  s = t
    OBVIOUS
  <2>1. s - len \in 1..k /\ t - len \in 1..k /\ rows[s - len].day = rows[t - len].day
    BY <1>10
  <2>2. s - len = t - len /\ s \in Int /\ t \in Int
    BY <1>3, <1>9, <2>1
  <2> QED BY <1>4, <2>2
<1>14. ASSUME NEW d \in new
       PROVE  \E t \in DOMAIN tasks' \ DOMAIN tasks : tasks'[t].day = d
  <2>1. PICK i \in 1..k : rows[i].day = d
    BY <1>3
  <2>2. len + i \in DOMAIN tasks' /\ len + i \notin DOMAIN tasks
    BY <1>3, <1>4, <1>9
  <2>3. tasks'[len + i].day = d
    BY <1>8, <2>1
  <2> QED BY <2>2, <2>3
<1> QED BY <1>3, <1>8, <1>9, <1>11, <1>12, <1>13, <1>14 DEF k, len, AddsRows

(* What a connection that is about to insert occurrences has.              *)
LEMMA Filling ==
    ASSUME StoreInv, NEW w \in Worker, pc[w] = "dated"
    PROVE  /\ call[w] \in Call /\ call[w].op = "materialize" /\ call[w].series \in Nat
           /\ seen[w].pattern \in Pattern /\ seen[w].pattern = series[call[w].series].pattern
           /\ Expected(series, call[w].series, call[w])
           /\ NewDates(w) \in SUBSET Nat /\ IsFiniteSet(NewDates(w))
<1>1. /\ call[w] \in Call /\ call[w].op = "materialize" /\ seen[w] \in Reading
      /\ seen[w].pattern = series[call[w].series].pattern
      /\ Expected(series, call[w].series, call[w])
  <2>1. pc[w] \in Holding
    BY DEF Holding
  <2> QED BY <2>1, HeldSeries DEF StoreInv, Relied
<1>2. call[w].series \in Nat
  BY <1>1, CallTypes
<1>3. NewDates(w) \subseteq OccurrenceDates(seen[w].pattern, Window(call[w]))
  BY DEF NewDates
<1>4. NewDates(w) \in SUBSET Nat /\ IsFiniteSet(NewDates(w))
  BY ONLY <1>1, <1>3, DatesFinite
<1> QED BY <1>1, <1>2, <1>4 DEF Reading

(* A new occurrence is on a day for which none was listed, and nothing has *)
(* been added to the window since.                                         *)
LEMMA InsertOccurrencesSteps ==
    ASSUME StoreInv, NEW w \in Worker, InsertOccurrences(w)
    PROVE  StoreInv'
<1>1. PICK c : c = call[w]
  OBVIOUS
<1>2. /\ c # Idle /\ c.op = "materialize" /\ c \in Call /\ pc[w] = "dated" /\ pc[w] \in Holding
      /\ today' = today
  BY <1>1 DEF InsertOccurrences, At, StoreInv, StoreTypes, Control, Holding
<1>3. CASE Refuse(w)
  BY <1>2, <1>3, RefuseSteps
<1>4. CASE ~Refuse(w)
  <2> DEFINE k == Cardinality(NewDates(w))
  <2>1. /\ tasks' = tasks \o Occurrences(c.series, seen[w].pattern, NewDates(w))
        /\ Return(w, "ok", {t \in seen[w].listed : ~tasks[t].deleted}
                           \cup (Len(tasks) + 1)..(Len(tasks) + k))
        /\ series' = series
    BY <1>1, <1>4 DEF InsertOccurrences
  <2>2. Ended(w)
    BY <2>1, ReturnEnds DEF StoreInv, StoreTypes
  <2>3. /\ tasks' \in Seq(TaskRow)
        /\ \A t \in DOMAIN tasks : t \in DOMAIN tasks' /\ tasks'[t] = tasks[t]
        /\ \A t \in DOMAIN tasks' \ DOMAIN tasks :
              tasks'[t].day \in NewDates(w) /\ tasks'[t].series = c.series
        /\ \A s, t \in DOMAIN tasks' \ DOMAIN tasks : tasks'[s].day = tasks'[t].day => s = t
    <3>1. StoreTypes /\ c.series \in Nat
      BY <1>1, <1>2, Filling DEF StoreInv
    <3>2. AddsRows(c.series, seen[w].pattern, NewDates(w))
      BY <1>2, <2>1, <3>1, Filling, Added
    <3> QED BY <3>2 DEF AddsRows
  <2>4. \A d \in NewDates(w) : d \in Window(c) /\ \A t \in InWindow(c) : tasks[t].day # d
    BY <1>1, <1>2 DEF NewDates, OccurrenceDates, StoreInv, Relied
  <2>5. OneOccurrencePerDay'
    <3> SUFFICES ASSUME NEW s \in DOMAIN tasks', NEW t \in DOMAIN tasks',
                        tasks'[s].series # NoSeries, tasks'[s].series = tasks'[t].series,
                        tasks'[s].day = tasks'[t].day
                 PROVE  s = t
      BY DEF OneOccurrencePerDay
    <3>1. CASE s \in DOMAIN tasks /\ t \in DOMAIN tasks
      BY <2>3, <3>1 DEF StoreInv, OneOccurrencePerDay
    <3>2. CASE s \notin DOMAIN tasks /\ t \notin DOMAIN tasks
      BY <2>3, <3>2
    <3>3. ~(s \in DOMAIN tasks /\ t \notin DOMAIN tasks)
      BY <2>3, <2>4 DEF InWindow
    <3>4. ~(t \in DOMAIN tasks /\ s \notin DOMAIN tasks)
      BY <2>3, <2>4 DEF InWindow
    <3> QED BY <3>1, <3>2, <3>3, <3>4
  <2>6. \A v \in Worker \ {w} : pc[v] \in Holding =>
            \A d : d = call[v] => /\ d.series \in DOMAIN series'
                                 /\ series'[d.series] = series[d.series]
                                 /\ InWindow(d)' = InWindow(d)
    <3> SUFFICES ASSUME NEW v \in Worker \ {w}, pc[v] \in Holding, NEW d, d = call[v]
                 PROVE  d.series \in DOMAIN series' /\ InWindow(d)' = InWindow(d)
      BY <2>1
    <3>1. d.series # c.series
      BY <1>1, <1>2 DEF StoreInv, OneLock
    <3>2. d.series \in DOMAIN series
      BY HeldSeries
    <3> QED BY <2>1, <2>3, <3>1, <3>2 DEF InWindow
  <2>7. series' \in Seq(SeriesRow)
    BY <2>1 DEF StoreInv, StoreTypes
  <2>8. \A t \in DOMAIN tasks : /\ t \in DOMAIN tasks'
                               /\ \/ tasks'[t] = tasks[t]
                                  \/ tasks'[t].version = tasks[t].version + 1
    BY <2>3
  <2> QED BY <1>2, <2>2, <2>3, <2>5, <2>6, <2>7, <2>8, TablesChange
<1> QED BY <1>3, <1>4

LEMMA MidnightSteps ==
    ASSUME StoreInv, Midnight
    PROVE  StoreInv'
<1>1. /\ today \in Nat /\ today' \in Day /\ today <= today' /\ StoreTypes
      /\ UNCHANGED <<tasks, series, answer, call, pc, seen>>
  BY DayAssumption DEF Midnight, StoreInv, StoreTypes
<1>2. ASSUME NEW v \in Worker PROVE Relied(v)'
  <2>1. PICK c : c = call[v]
    OBVIOUS
  <2>2. /\ call'[v] = c /\ pc'[v] = pc[v] /\ seen'[v] = seen[v] /\ answer'[v] = answer[v]
        /\ Relied(v) /\ InWindow(c)' = InWindow(c)
        /\ \A t \in DOMAIN tasks : t \in DOMAIN tasks' /\ tasks'[t] = tasks[t]
    BY <1>1, <2>1 DEF StoreInv, InWindow
  <2>3. pc[v] \in Holding => c.series \in DOMAIN series' /\ series'[c.series] = series[c.series]
    BY <1>1, <2>1, HeldSeries
  <2> QED BY <1>1, <2>1, <2>2, <2>3, ReliedKept
<1>3. StoreTypes' /\ OneLock' /\ OneOccurrencePerDay'
  BY <1>1 DEF StoreInv, StoreTypes, Control, OneLock, OneOccurrencePerDay
<1> QED BY <1>2, <1>3 DEF StoreInv

----------------------------------------------------------------------------
(* The invariant, and the property the runs check.                         *)

LEMMA InitStoreInv == Init => StoreInv
<1> SUFFICES ASSUME Init PROVE StoreInv
  OBVIOUS
<1>1. StoreTypes
  BY DEF Init, StoreTypes, Control
<1>2. \A w \in Worker : pc[w] = "idle" /\ call[w] = Idle
  BY DEF Init
<1>3. OneLock /\ \A w \in Worker : Relied(w)
  BY <1>2 DEF OneLock, Relied, Holding
<1>4. OneOccurrencePerDay
  BY DEF Init, OneOccurrencePerDay
<1> QED BY <1>1, <1>3, <1>4 DEF StoreInv

LEMMA StutterSteps ==
    ASSUME StoreInv, UNCHANGED vars
    PROVE  StoreInv'
<1>1. UNCHANGED <<tasks, series, today, answer, call, pc, seen>>
  BY DEF vars
<1>2. \A c : InWindow(c)' = InWindow(c)
  BY <1>1 DEF InWindow
<1>3. \A w \in Worker : Relied(w)'
  BY <1>1, <1>2 DEF StoreInv, Relied, Expected, Live, Reading, Valid, Patched
<1>4. StoreTypes' /\ OneLock' /\ OneOccurrencePerDay'
  BY <1>1 DEF StoreInv, StoreTypes, Control, OneLock, OneOccurrencePerDay
<1> QED BY <1>3, <1>4 DEF StoreInv

LEMMA NextStoreInv == StoreInv /\ [Next]_vars => StoreInv'
<1> SUFFICES ASSUME StoreInv, [Next]_vars PROVE StoreInv'
  OBVIOUS
<1>1. CASE UNCHANGED vars
  BY <1>1, StutterSteps
<1>2. CASE Midnight
  BY <1>2, MidnightSteps
<1>3. ASSUME NEW w \in Worker, Begin(w) PROVE StoreInv'
  BY <1>3, BeginSteps
<1>4. ASSUME NEW w \in Worker, Abort(w) PROVE StoreInv'
  BY <1>4, RefuseSteps DEF Abort
<1>5. ASSUME NEW w \in Worker, Step(w) PROVE StoreInv'
  <2>1. CASE InsertTask(w)
    BY <2>1, InsertTaskSteps
  <2>2. CASE ReplayTask(w)
    BY <2>2, ReturnSteps DEF ReplayTask
  <2>3. CASE InsertSeries(w)
    BY <2>3, InsertSeriesSteps
  <2>4. CASE ReplaySeries(w)
    BY <2>4, ReturnSteps DEF ReplaySeries
  <2>5. CASE ReadTask(w)
    BY <2>5, ReadTaskSteps
  <2>6. CASE UpdateTask(w)
    BY <2>6, UpdateTaskSteps
  <2>7. CASE DeleteTask(w)
    BY <2>7, DeleteTaskSteps
  <2>8. CASE LockSeries(w)
    BY <2>8, LockSeriesSteps
  <2>9. CASE ReplaceSeries(w)
    BY <2>9, ReplaceSeriesSteps
  <2>10. CASE DeleteSeries(w)
    BY <2>10, DeleteSeriesSteps
  <2>11. CASE ListOccurrences(w)
    BY <2>11, ListSteps
  <2>12. CASE CaptureToday(w)
    BY <2>12, CaptureSteps
  <2>13. CASE InsertOccurrences(w)
    BY <2>13, InsertOccurrencesSteps
  <2> QED BY <1>5, <2>1, <2>2, <2>3, <2>4, <2>5, <2>6, <2>7, <2>8, <2>9, <2>10, <2>11, <2>12,
             <2>13 DEF Step
<1> QED BY <1>1, <1>2, <1>3, <1>4, <1>5 DEF Next

(* In every reachable state the tables hold rows, each activity is locked  *)
(* by at most one connection, every connection can rely on what it has     *)
(* read, and no two tasks are the same occurrence.                         *)
THEOREM StoreInvariant == Spec => []StoreInv
BY InitStoreInv, NextStoreInv, PTL DEF Spec

(* However the statements of concurrent materialize calls interleave, and  *)
(* whichever fail, no day of an activity has two tasks, deleted ones       *)
(* included.                                                               *)
THEOREM StoreOneOccurrencePerDay == Spec => []OneOccurrencePerDay
<1>1. StoreInv => OneOccurrencePerDay
  BY DEF StoreInv
<1> QED BY <1>1, StoreInvariant, PTL

----------------------------------------------------------------------------
(* Properties of the steps.                                                *)

TasksStay == \A t \in DOMAIN tasks : t \in DOMAIN tasks' /\ tasks'[t] = tasks[t]
NoNewTasks == DOMAIN tasks' \ DOMAIN tasks = {}

LEMMA InsertedTask ==
    ASSUME StoreInv, NEW w \in Worker, InsertTask(w)
    PROVE  TasksStay /\ \A t \in DOMAIN tasks' \ DOMAIN tasks : tasks'[t].series = NoSeries
<1>1. CASE tasks' = tasks
  BY <1>1 DEF TasksStay
<1>2. CASE tasks' # tasks
  <2>1. PICK row : row = NewTask(call[w])
    OBVIOUS
  <2>2. row \in TaskRow /\ row.series = NoSeries
    BY <2>1, RowTypes DEF NewTask, InsertTask, At, StoreInv, StoreTypes, Control
  <2>3. tasks' = Append(tasks, row) /\ tasks \in Seq(TaskRow)
    BY <1>2, <2>1 DEF InsertTask, StoreInv, StoreTypes
  <2>4. /\ DOMAIN tasks' = DOMAIN tasks \cup {Len(tasks) + 1}
        /\ \A t \in DOMAIN tasks : t \in DOMAIN tasks' /\ tasks'[t] = tasks[t]
        /\ tasks'[Len(tasks) + 1] = row
    BY <2>2, <2>3
  <2> QED BY <2>2, <2>4 DEF TasksStay
<1> QED BY <1>1, <1>2

LEMMA InsertedOccurrences ==
    ASSUME StoreInv, NEW w \in Worker, InsertOccurrences(w)
    PROVE  /\ pc[w] = "dated"
           /\ \/ tasks' = tasks /\ Refuse(w)
              \/ /\ AddsRows(call[w].series, seen[w].pattern, NewDates(w))
                 /\ series' = series
                 /\ Return(w, "ok", {t \in seen[w].listed : ~tasks[t].deleted}
                        \cup (Len(tasks) + 1)..(Len(tasks) + Cardinality(NewDates(w))))
<1>1. pc[w] = "dated"
  BY DEF InsertOccurrences, At
<1>2. CASE Refuse(w)
  BY <1>1, <1>2 DEF Refuse
<1>3. CASE ~Refuse(w)
  <2>1. /\ tasks' = tasks \o Occurrences(call[w].series, seen[w].pattern, NewDates(w))
        /\ Return(w, "ok", {t \in seen[w].listed : ~tasks[t].deleted}
               \cup (Len(tasks) + 1)..(Len(tasks) + Cardinality(NewDates(w))))
        /\ series' = series
    BY <1>3 DEF InsertOccurrences
  <2>2. StoreTypes /\ call[w].series \in Nat
    BY <1>1, Filling DEF StoreInv
  <2>3. AddsRows(call[w].series, seen[w].pattern, NewDates(w))
    BY <1>1, <2>1, <2>2, Filling, Added
  <2> QED BY <1>1, <2>1, <2>3
<1> QED BY <1>2, <1>3

(* The steps that touch the tasks.                                         *)
LEMMA TasksOfStep ==
    ASSUME StoreInv, [Next]_vars
    PROVE  \/ tasks' = tasks
           \/ \E w \in Worker : \/ InsertTask(w) \/ UpdateTask(w) \/ DeleteTask(w)
                               \/ InsertOccurrences(w)
<1> SUFFICES ASSUME tasks' # tasks
             PROVE  \E w \in Worker : \/ InsertTask(w) \/ UpdateTask(w) \/ DeleteTask(w)
                                     \/ InsertOccurrences(w)
  OBVIOUS
<1>1. PICK w \in Worker : Begin(w) \/ Step(w) \/ Abort(w)
  BY DEF Next, vars, Midnight
<1>2. Step(w)
  BY <1>1 DEF Begin, Abort, Refuse
<1>3. ~(ReplayTask(w) \/ InsertSeries(w) \/ ReplaySeries(w))
  BY DEF ReplayTask, InsertSeries, ReplaySeries
<1>4. ~(ReadTask(w) \/ LockSeries(w))
  BY DEF ReadTask, LockSeries, Refuse
<1>5. ~(ReplaceSeries(w) \/ DeleteSeries(w) \/ ListOccurrences(w) \/ CaptureToday(w))
  BY DEF ReplaceSeries, DeleteSeries, ListOccurrences, CaptureToday
<1> QED BY <1>2, <1>3, <1>4, <1>5 DEF Step

(* What an update or a deletion writes.                                    *)
EditOf(w, t) ==
    LET c == call[w]
        old == tasks[t]
    IN  /\ c # Idle /\ c.op \in {"update", "delete"}
        /\ c.task = t /\ c.expected = old.version /\ ~old.deleted
        /\ tasks'[t] = IF c.op = "update"
                       THEN [old EXCEPT !.content = Patched(old.content, c), !.version = @ + 1]
                       ELSE [old EXCEPT !.deleted = TRUE, !.version = @ + 1]

LEMMA EditedTask ==
    ASSUME StoreInv, NEW w \in Worker, UpdateTask(w) \/ DeleteTask(w),
           NEW t \in DOMAIN tasks, tasks'[t] # tasks[t]
    PROVE  EditOf(w, t)
<1>1. PICK c : c = call[w]
  OBVIOUS
<1>2. c # Idle /\ ~Refuse(w)
  BY <1>1 DEF UpdateTask, DeleteTask, At, Refuse
<1>3. CASE UpdateTask(w)
  <2>1. /\ c.op = "update" /\ pc[w] = "read" /\ Expected(tasks, c.task, c)
        /\ tasks' = [tasks EXCEPT ![c.task].content = seen[w], ![c.task].version = @ + 1]
    BY <1>1, <1>2, <1>3 DEF UpdateTask, At
  <2>2. seen[w] = Patched(tasks[c.task].content, c)
    BY <1>1, <2>1 DEF StoreInv, Relied, Expected
  <2>3. c.task = t /\ tasks[t].version = c.expected /\ ~tasks[t].deleted
    BY <2>1 DEF Expected, Live
  <2>4. tasks'[t] = [tasks[t] EXCEPT !.content = seen[w], !.version = @ + 1]
    BY <2>1, <2>3
  <2> QED BY <1>1, <1>2, <2>1, <2>2, <2>3, <2>4 DEF EditOf
<1>4. CASE DeleteTask(w)
  <2>1. /\ c.op = "delete" /\ Expected(tasks, c.task, c)
        /\ tasks' = [tasks EXCEPT ![c.task].deleted = TRUE, ![c.task].version = @ + 1]
    BY <1>1, <1>2, <1>4 DEF DeleteTask, At
  <2>2. c.task = t /\ tasks[t].version = c.expected /\ ~tasks[t].deleted
    BY <2>1 DEF Expected, Live
  <2>3. tasks'[t] = [tasks[t] EXCEPT !.deleted = TRUE, !.version = @ + 1]
    BY <2>1, <2>2
  <2> QED BY <1>1, <1>2, <2>1, <2>2, <2>3 DEF EditOf
<1> QED BY <1>3, <1>4

(* No accepted edit is lost or built on an older row: whatever happens     *)
(* between the read of a task and the write of what was prepared from it,  *)
(* a row changes only by a call that named its version, to what that call  *)
(* makes of the row stored.                                                *)
THEOREM StoreEditsApply == Spec => EditsApplyToCurrent
<1> DEFINE Applies ==
        \A t \in DOMAIN tasks : tasks'[t] # tasks[t] =>
          /\ ~tasks[t].deleted
          /\ \E w \in Worker :
                LET c == call[w]
                    old == tasks[t]
                IN  /\ c # Idle /\ c.op \in {"update", "delete"}
                    /\ c.task = t /\ c.expected = old.version
                    /\ tasks'[t] = IF c.op = "update"
                                   THEN [old EXCEPT !.content = Patched(old.content, c),
                                                    !.version = @ + 1]
                                   ELSE [old EXCEPT !.deleted = TRUE, !.version = @ + 1]
<1>1. StoreInv /\ [Next]_vars => Applies
  <2> SUFFICES ASSUME StoreInv, [Next]_vars, NEW t \in DOMAIN tasks, tasks'[t] # tasks[t]
               PROVE  \E w \in Worker : EditOf(w, t)
    BY DEF EditOf
  <2>1. PICK w \in Worker : \/ InsertTask(w) \/ UpdateTask(w) \/ DeleteTask(w)
                            \/ InsertOccurrences(w)
    BY TasksOfStep
  <2>2. ~InsertTask(w)
    BY InsertedTask DEF TasksStay
  <2>3. ~InsertOccurrences(w)
    BY InsertedOccurrences DEF AddsRows
  <2> QED BY <2>1, <2>2, <2>3, EditedTask
<1>2. StoreInv /\ [Next]_vars => [Applies]_vars
  BY <1>1
<1> QED BY <1>2, StoreInvariant, PTL DEF Spec, EditsApplyToCurrent

(* Every new occurrence is one the pattern stored at that instant selects, *)
(* of an activity that is not deleted, and on no day that was over when    *)
(* the call got its locks.                                                 *)
THEOREM StoreOccurrencesFollow == Spec => OccurrencesFollowPattern
<1> DEFINE Follow ==
        \A t \in DOMAIN tasks' \ DOMAIN tasks :
          LET new == tasks'[t]
          IN  new.series # NoSeries =>
                /\ Live(series, new.series)
                /\ new.content = series[new.series].pattern.content
                /\ new.day \in OccurrenceDates(series[new.series].pattern, {new.day})
                /\ \E w \in Worker : pc[w] = "dated" /\ seen[w].since <= new.day
<1>1. StoreInv /\ [Next]_vars => Follow
  <2> SUFFICES ASSUME StoreInv, [Next]_vars,
                      NEW t \in DOMAIN tasks' \ DOMAIN tasks, NEW new, new = tasks'[t],
                      new.series # NoSeries
               PROVE  /\ Live(series, new.series)
                      /\ new.content = series[new.series].pattern.content
                      /\ new.day \in OccurrenceDates(series[new.series].pattern, {new.day})
                      /\ \E w \in Worker : pc[w] = "dated" /\ seen[w].since <= new.day
    OBVIOUS
  <2>1. PICK w \in Worker : \/ InsertTask(w) \/ UpdateTask(w) \/ DeleteTask(w)
                            \/ InsertOccurrences(w)
    BY TasksOfStep
  <2>2. ~InsertTask(w)
    BY InsertedTask
  <2>3. ~UpdateTask(w) /\ ~DeleteTask(w)
    BY DEF UpdateTask, DeleteTask, Refuse
  <2>4. pc[w] = "dated" /\ AddsRows(call[w].series, seen[w].pattern, NewDates(w))
    BY <2>1, <2>2, <2>3, InsertedOccurrences
  <2>5. /\ new = Occurrence(call[w].series, seen[w].pattern, new.day)
        /\ new.day \in NewDates(w) /\ new.series = call[w].series
    BY <2>4 DEF AddsRows
  <2>6. /\ seen[w].pattern = series[new.series].pattern
        /\ Expected(series, new.series, call[w])
        /\ NewDates(w) \in SUBSET Nat
    BY <2>4, <2>5, Filling
  <2>7. new.content = seen[w].pattern.content
    BY <2>5 DEF Occurrence
  <2>8. new.day \in OccurrenceDates(seen[w].pattern, {new.day}) /\ new.day >= seen[w].asOf
    BY <2>5 DEF NewDates, OccurrenceDates
  <2>9. seen[w].since <= new.day
    <3>1. /\ seen[w].since \in Nat /\ seen[w].asOf \in Nat
          /\ seen[w].since <= seen[w].asOf
      BY <2>4, DayAssumption DEF StoreInv, Relied, Holding, Reading
    <3>2. new.day \in Nat
      BY <2>5, <2>6
    <3> QED BY <2>8, <3>1, <3>2
  <2> QED BY <2>4, <2>6, <2>7, <2>8, <2>9 DEF Expected
<1>2. StoreInv /\ [Next]_vars => [Follow]_vars
  BY <1>1
<1> QED BY <1>2, StoreInvariant, PTL DEF Spec, OccurrencesFollowPattern

(* The step of one connection leaves the others where they are.            *)
LEMMA OthersWait ==
    ASSUME StoreInv, NEW w \in Worker, Begin(w) \/ Step(w) \/ Abort(w),
           NEW v \in Worker, v # w
    PROVE  pc'[v] = pc[v]
<1>1. DOMAIN pc = Worker
  BY DEF StoreInv, StoreTypes, Control
<1>2. \E place : pc' = [pc EXCEPT ![w] = place]
  <2>1. CASE Begin(w) \/ Abort(w)
    BY <2>1 DEF Begin, Abort, Refuse
  <2>2. CASE InsertTask(w) \/ ReplayTask(w) \/ InsertSeries(w) \/ ReplaySeries(w)
    BY <2>2 DEF InsertTask, ReplayTask, InsertSeries, ReplaySeries, Go, Return
  <2>3. CASE ReadTask(w) \/ UpdateTask(w) \/ DeleteTask(w) \/ LockSeries(w)
    BY <2>3 DEF ReadTask, UpdateTask, DeleteTask, LockSeries, Go, Return, Refuse
  <2>4. CASE ReplaceSeries(w) \/ DeleteSeries(w) \/ ListOccurrences(w) \/ CaptureToday(w)
    BY <2>4 DEF ReplaceSeries, DeleteSeries, ListOccurrences, CaptureToday, Go, Return
  <2>5. CASE InsertOccurrences(w)
    BY <2>5 DEF InsertOccurrences, Return, Refuse
  <2> QED BY <2>1, <2>2, <2>3, <2>4, <2>5 DEF Step
<1> QED BY <1>1, <1>2

(* A connection that has its date has one statement left, or fails.        *)
LEMMA LastStatement ==
    ASSUME StoreInv, [Next]_vars, NEW w \in Worker, pc[w] = "dated", pc'[w] # "dated"
    PROVE  InsertOccurrences(w) \/ Refuse(w)
<1>1. PICK v \in Worker : Begin(v) \/ Step(v) \/ Abort(v)
  BY DEF Next, vars, Midnight
<1>2. v = w
  BY <1>1, OthersWait
<1>3. call[w] # Idle
  BY DEF StoreInv, Relied
<1>4. ~Begin(w)
  BY <1>3 DEF Begin
<1>5. ~(InsertTask(w) \/ ReplayTask(w) \/ InsertSeries(w) \/ ReplaySeries(w))
  BY DEF InsertTask, ReplayTask, InsertSeries, ReplaySeries, At
<1>6. ~(ReadTask(w) \/ UpdateTask(w) \/ DeleteTask(w))
  BY DEF ReadTask, UpdateTask, DeleteTask, At
<1>7. ~(LockSeries(w) \/ ReplaceSeries(w) \/ DeleteSeries(w) \/ ListOccurrences(w)
          \/ CaptureToday(w))
  BY DEF LockSeries, ReplaceSeries, DeleteSeries, ListOccurrences, CaptureToday, At
<1> QED BY <1>1, <1>2, <1>4, <1>5, <1>6, <1>7 DEF Step, Abort

(* The occurrences in the window of a call once its new rows are in.       *)
WindowAfter(c) == {t \in DOMAIN tasks' : tasks'[t].series = c.series
                                          /\ tasks'[t].day \in Window(c)}
Filled(w, c) ==
    /\ \A d \in OccurrenceDates(series[c.series].pattern, Window(c)) :
          d < seen[w].asOf \/ \E t \in WindowAfter(c) : tasks'[t].day = d
    /\ {t \in WindowAfter(c) : ~tasks'[t].deleted}
          = {t \in seen[w].listed : ~tasks[t].deleted}
            \cup (Len(tasks) + 1)..(Len(tasks) + Cardinality(NewDates(w)))

LEMMA WindowFilled ==
    ASSUME StoreInv, NEW w \in Worker, pc[w] = "dated",
           AddsRows(call[w].series, seen[w].pattern, NewDates(w))
    PROVE  Filled(w, call[w])
<1>0. PICK c : c = call[w]
  OBVIOUS
<1> DEFINE added == (Len(tasks) + 1)..(Len(tasks) + Cardinality(NewDates(w)))
<1>1. /\ c.op = "materialize" /\ seen[w].pattern = series[c.series].pattern
      /\ NewDates(w) \in SUBSET Nat /\ c \in Call
  BY <1>0, Filling
<1>2. seen[w].listed = InWindow(c) /\ seen[w].asOf \in Nat
  BY <1>0, DayAssumption DEF StoreInv, Relied
<1>3. DOMAIN tasks = 1..Len(tasks) /\ Len(tasks) \in Nat
  BY RowsTyped DEF StoreInv
<1>4. /\ \A t \in DOMAIN tasks : t \in DOMAIN tasks' /\ tasks'[t] = tasks[t]
      /\ \A t \in DOMAIN tasks' \ DOMAIN tasks :
            /\ tasks'[t].series = c.series /\ tasks'[t].day \in NewDates(w)
            /\ ~tasks'[t].deleted
      /\ \A d \in NewDates(w) : \E t \in DOMAIN tasks' \ DOMAIN tasks : tasks'[t].day = d
  BY <1>0 DEF AddsRows, Occurrence
<1>5. DOMAIN tasks' \ DOMAIN tasks = added
  <2>1. Cardinality(NewDates(w)) \in Nat
        /\ DOMAIN tasks' = 1..(Len(tasks) + Cardinality(NewDates(w)))
    BY DEF AddsRows
  <2> QED BY <1>3, <2>1
<1>6. NewDates(w) \subseteq Window(c)
  BY <1>0 DEF NewDates, OccurrenceDates
<1> HIDE DEF added
<1>7. WindowAfter(c) = InWindow(c) \cup added
  BY <1>4, <1>5, <1>6 DEF InWindow, WindowAfter
<1>8. ASSUME NEW d \in OccurrenceDates(series[c.series].pattern, Window(c)), ~(d < seen[w].asOf)
      PROVE  \E t \in WindowAfter(c) : tasks'[t].day = d
  <2>1. CASE d \in NewDates(w)
    BY <1>4, <1>5, <1>7, <2>1
  <2>2. CASE d \notin NewDates(w)
    <3>1. d \in Nat
      <4>1. c.start \in Nat /\ c.days \in Nat
        BY <1>1, CallTypes
      <4> QED BY <4>1 DEF OccurrenceDates, Window
    <3>2. PICK t \in seen[w].listed : tasks[t].day = d
      BY <1>0, <1>1, <1>2, <1>8, <2>2, <3>1 DEF NewDates
    <3>3. t \in WindowAfter(c) /\ t \in DOMAIN tasks
      BY <1>2, <1>7 DEF InWindow
    <3> QED BY <1>4, <3>2, <3>3
  <2> QED BY <2>1, <2>2
<1>9. {t \in WindowAfter(c) : ~tasks'[t].deleted} = {t \in seen[w].listed : ~tasks[t].deleted} \cup added
  <2>1. \A t \in InWindow(c) : tasks'[t] = tasks[t]
    BY <1>4 DEF InWindow
  <2>2. \A t \in added : ~tasks'[t].deleted
    BY <1>4, <1>5
  <2> QED BY <1>2, <1>7, <2>1, <2>2
<1> QED BY <1>0, <1>8, <1>9 DEF added, Filled

(* An answered materialize has left every day of its window that the       *)
(* pattern selects, from the date it read on, with its task or tombstone,  *)
(* and names exactly the live tasks of the window, whatever the others     *)
(* have done since its first read.                                         *)
THEOREM StoreMaterializeComplete == Spec => MaterializeIsComplete
<1> DEFINE Complete ==
        \A w \in Worker : (pc[w] = "dated" /\ pc'[w] = "idle" /\ answer'[w].outcome = "ok") =>
          LET c == call[w]
              mine == {t \in DOMAIN tasks' : tasks'[t].series = c.series
                                               /\ tasks'[t].day \in Window(c)}
          IN  /\ \A d \in OccurrenceDates(series[c.series].pattern, Window(c)) :
                    d < seen[w].asOf \/ \E t \in mine : tasks'[t].day = d
              /\ answer'[w].rows = {t \in mine : ~tasks'[t].deleted}
<1>1. StoreInv /\ [Next]_vars => Complete
  <2> SUFFICES ASSUME StoreInv, [Next]_vars, NEW w \in Worker,
                      pc[w] = "dated", pc'[w] = "idle", answer'[w].outcome = "ok"
               PROVE  /\ \A d \in OccurrenceDates(series[call[w].series].pattern, Window(call[w])) :
                            \/ d < seen[w].asOf
                            \/ \E t \in WindowAfter(call[w]) : tasks'[t].day = d
                      /\ answer'[w].rows = {t \in WindowAfter(call[w]) : ~tasks'[t].deleted}
    BY DEF WindowAfter
  <2>1. ~Refuse(w)
    <3>1. answer[w] = NoAnswer
      BY DEF StoreInv, Relied
    <3> QED BY <3>1 DEF Refuse, NoAnswer
  <2>2. InsertOccurrences(w)
    BY <2>1, LastStatement
  <2>3. /\ AddsRows(call[w].series, seen[w].pattern, NewDates(w))
        /\ Return(w, "ok", {t \in seen[w].listed : ~tasks[t].deleted}
               \cup (Len(tasks) + 1)..(Len(tasks) + Cardinality(NewDates(w))))
    <3>1. CASE Refuse(w)
      BY <2>1, <3>1
    <3> QED BY <2>1, <2>2, InsertedOccurrences
  <2>4. answer'[w].rows = {t \in seen[w].listed : ~tasks[t].deleted}
                         \cup (Len(tasks) + 1)..(Len(tasks) + Cardinality(NewDates(w)))
    BY <2>3 DEF Return, StoreInv, StoreTypes, Control
  <2>5. Filled(w, call[w])
    BY <2>3, WindowFilled
  <2> QED BY <2>4, <2>5 DEF Filled
<1>2. StoreInv /\ [Next]_vars => [Complete]_vars
  BY <1>1
<1> QED BY <1>2, StoreInvariant, PTL DEF Spec, MaterializeIsComplete

----------------------------------------------------------------------------
(* The book of atomic calls.  What its module takes from TaskRows is the   *)
(* same there and here.                                                    *)

LEMMA SameRows ==
    /\ \A c : Book!NewTask(c) = NewTask(c) /\ Book!NewSeries(c) = NewSeries(c)
    /\ \A old, c : Book!Patched(old, c) = Patched(old, c)
    /\ \A content : Book!Valid(content) = Valid(content)
    /\ \A c : Book!Window(c) = Window(c)
    /\ \A p, days : Book!OccurrenceDates(p, days) = OccurrenceDates(p, days)
    /\ Book!NoAnswer = NoAnswer
BY DEF Book!NewTask, NewTask, Book!NewSeries, NewSeries, Book!NoSeries, NoSeries,
       Book!Patched, Patched, Book!Valid, Valid, Book!Window, Window,
       Book!OccurrenceDates, OccurrenceDates, Book!Weekday, Weekday, Book!NoAnswer, NoAnswer

LEMMA SameCardinality == \A set : Book!Cardinality(set) = Cardinality(set)
BY DEF Book!Cardinality, Cardinality

LEMMA SameOccurrences ==
    \A s, p, days : Book!Occurrences(s, p, days) = Occurrences(s, p, days)
BY SameCardinality
   DEF Book!Occurrences, Occurrences, Book!Occurrence, Occurrence,
       Book!NoRequest, NoRequest, Book!NoDigest, NoDigest

BookStep == [Book!BookNext]_Book!bookVars

(* Statements that touch neither the tables nor an answer.                 *)
LEMMA Unseen ==
    ASSUME UNCHANGED <<tasks, series, today, answer>>
    PROVE  BookStep
BY DEF BookStep, Book!bookVars

LEMMA Seen ==
    ASSUME NEW w \in Worker, NEW c \in Call, Book!Answered(w, c)
    PROVE  BookStep
BY DEF BookStep, Book!BookNext

LEMMA ReturnSays ==
    ASSUME NEW w, NEW outcome, NEW rows, Return(w, outcome, rows)
    PROVE  Book!Says(w, call[w], outcome, rows)
BY DEF Return, Book!Says

LEMMA BookBegin ==
    ASSUME StoreInv, NEW w \in Worker, Begin(w)
    PROVE  BookStep
<1>1. PICK c \in Call : TRUE
  BY DEF Begin
<1>2. Book!Unanswered(w)
  BY SameRows DEF Begin, Book!Unanswered
<1> QED BY <1>2, Seen DEF Book!Answered

LEMMA BookReplayTask ==
    ASSUME StoreInv, NEW w \in Worker, ReplayTask(w)
    PROVE  BookStep
<1>1. PICK c : c = call[w]
  OBVIOUS
<1>2. c \in Call /\ c.op = "create" /\ UNCHANGED <<tasks, series, today>>
  BY <1>1 DEF ReplayTask, At, StoreInv, StoreTypes, Control
<1>3. PICK t \in DOMAIN tasks :
        /\ tasks[t].request = c.request
        /\ IF tasks[t].digest # c.content THEN Return(w, "conflict", {})
           ELSE Return(w, IF tasks[t].deleted THEN "gone" ELSE "ok", {t})
  BY <1>1 DEF ReplayTask, WithRequest
<1>4. \/ tasks[t].digest # c.content /\ Book!Says(w, c, "conflict", {})
      \/ tasks[t].digest = c.content /\ tasks[t].deleted /\ Book!Says(w, c, "gone", {t})
      \/ tasks[t].digest = c.content /\ ~tasks[t].deleted /\ Book!Says(w, c, "ok", {t})
  <2>1. CASE tasks[t].digest # c.content
    BY <1>1, <1>3, <2>1, ReturnSays
  <2>2. CASE tasks[t].digest = c.content /\ tasks[t].deleted
    BY <1>1, <1>3, <2>2, ReturnSays
  <2>3. CASE tasks[t].digest = c.content /\ ~tasks[t].deleted
    BY <1>1, <1>3, <2>3, ReturnSays
  <2> QED BY <2>1, <2>2, <2>3
<1>5. Book!Repeated(w, c, tasks, c.content)
  BY <1>2, <1>3, <1>4 DEF Book!Repeated
<1> QED BY <1>2, <1>5, Seen DEF Book!Answered

LEMMA BookReplaySeries ==
    ASSUME StoreInv, NEW w \in Worker, ReplaySeries(w)
    PROVE  BookStep
<1>1. PICK c : c = call[w]
  OBVIOUS
<1>2. c \in Call /\ c.op = "open" /\ UNCHANGED <<tasks, series, today>>
  BY <1>1 DEF ReplaySeries, At, StoreInv, StoreTypes, Control
<1>3. PICK s \in DOMAIN series :
        /\ series[s].request = c.request
        /\ IF series[s].digest # c.pattern THEN Return(w, "conflict", {})
           ELSE Return(w, IF series[s].deleted THEN "gone" ELSE "ok", {s})
  BY <1>1 DEF ReplaySeries, WithRequest
<1>4. \/ series[s].digest # c.pattern /\ Book!Says(w, c, "conflict", {})
      \/ series[s].digest = c.pattern /\ series[s].deleted /\ Book!Says(w, c, "gone", {s})
      \/ series[s].digest = c.pattern /\ ~series[s].deleted /\ Book!Says(w, c, "ok", {s})
  <2>1. CASE series[s].digest # c.pattern
    BY <1>1, <1>3, <2>1, ReturnSays
  <2>2. CASE series[s].digest = c.pattern /\ series[s].deleted
    BY <1>1, <1>3, <2>2, ReturnSays
  <2>3. CASE series[s].digest = c.pattern /\ ~series[s].deleted
    BY <1>1, <1>3, <2>3, ReturnSays
  <2> QED BY <2>1, <2>2, <2>3
<1>5. Book!Repeated(w, c, series, c.pattern)
  BY <1>2, <1>3, <1>4 DEF Book!Repeated
<1> QED BY <1>2, <1>5, Seen DEF Book!Answered

LEMMA BookInsertTask ==
    ASSUME StoreInv, NEW w \in Worker, InsertTask(w)
    PROVE  BookStep
<1>1. PICK c : c = call[w]
  OBVIOUS
<1>2. c \in Call /\ c.op = "create" /\ UNCHANGED <<series, today>>
  BY <1>1 DEF InsertTask, At, StoreInv, StoreTypes, Control
<1>3. CASE WithRequest(tasks, c.request) # {}
  BY <1>1, <1>2, <1>3, Unseen DEF InsertTask, Go
<1>4. CASE WithRequest(tasks, c.request) = {}
  <2>1. tasks' = Append(tasks, NewTask(c)) /\ Return(w, "ok", {Len(tasks) + 1})
    BY <1>1, <1>4 DEF InsertTask
  <2>2. Book!New(c, tasks)
    BY <1>4 DEF Book!New, WithRequest
  <2>3. Book!Says(w, c, "ok", {Len(tasks) + 1})
    BY <1>1, <2>1, ReturnSays
  <2>4. Book!Created(w, c)
    BY <1>2, <2>1, <2>2, <2>3, SameRows DEF Book!Created
  <2> QED BY <1>2, <2>4, Seen DEF Book!Answered
<1> QED BY <1>3, <1>4

LEMMA BookInsertSeries ==
    ASSUME StoreInv, NEW w \in Worker, InsertSeries(w)
    PROVE  BookStep
<1>1. PICK c : c = call[w]
  OBVIOUS
<1>2. c \in Call /\ c.op = "open" /\ UNCHANGED <<tasks, today>>
  BY <1>1 DEF InsertSeries, At, StoreInv, StoreTypes, Control
<1>3. CASE WithRequest(series, c.request) # {}
  BY <1>1, <1>2, <1>3, Unseen DEF InsertSeries, Go
<1>4. CASE WithRequest(series, c.request) = {}
  <2>1. series' = Append(series, NewSeries(c)) /\ Return(w, "ok", {Len(series) + 1})
    BY <1>1, <1>4 DEF InsertSeries
  <2>2. Book!New(c, series)
    BY <1>4 DEF Book!New, WithRequest
  <2>3. Book!Says(w, c, "ok", {Len(series) + 1})
    BY <1>1, <2>1, ReturnSays
  <2>4. Book!Opened(w, c)
    BY <1>2, <2>1, <2>2, <2>3, SameRows DEF Book!Opened
  <2> QED BY <1>2, <2>4, Seen DEF Book!Answered
<1> QED BY <1>3, <1>4

LEMMA BookRefuse ==
    ASSUME NEW w, Refuse(w), today' = today
    PROVE  BookStep
BY Unseen DEF Refuse

LEMMA BookUpdateTask ==
    ASSUME StoreInv, NEW w \in Worker, UpdateTask(w)
    PROVE  BookStep
<1>1. PICK c : c = call[w]
  OBVIOUS
<1>2. c \in Call /\ c.op = "update" /\ today' = today /\ pc[w] = "read"
  BY <1>1 DEF UpdateTask, At, StoreInv, StoreTypes, Control
<1>3. CASE Refuse(w)
  BY <1>2, <1>3, BookRefuse
<1>4. CASE ~Refuse(w)
  <2>1. /\ Expected(tasks, c.task, c)
        /\ tasks' = [tasks EXCEPT ![c.task].content = seen[w], ![c.task].version = @ + 1]
        /\ Return(w, "ok", {c.task})
        /\ UNCHANGED series
    BY <1>1, <1>4 DEF UpdateTask
  <2>2. seen[w] = Patched(tasks[c.task].content, c) /\ Valid(seen[w])
    BY <1>1, <1>2, <2>1 DEF StoreInv, Relied, Expected
  <2>3. Book!Current(tasks, c.task, c)
    BY <2>1 DEF Expected, Live, Book!Current
  <2>4. Book!Says(w, c, "ok", {c.task})
    BY <1>1, <2>1, ReturnSays
  <2>5. Book!Patched(tasks[c.task].content, c) = seen[w] /\ Book!Valid(seen[w])
    BY <2>2, SameRows
  <2>6. Book!Updated(w, c)
    BY <1>2, <2>1, <2>3, <2>4, <2>5 DEF Book!Updated
  <2> QED BY <1>2, <2>6, Seen DEF Book!Answered
<1> QED BY <1>3, <1>4

LEMMA BookDeleteTask ==
    ASSUME StoreInv, NEW w \in Worker, DeleteTask(w)
    PROVE  BookStep
<1>1. PICK c : c = call[w]
  OBVIOUS
<1>2. c \in Call /\ c.op = "delete" /\ today' = today
  BY <1>1 DEF DeleteTask, At, StoreInv, StoreTypes, Control
<1>3. CASE Refuse(w)
  BY <1>2, <1>3, BookRefuse
<1>4. CASE ~Refuse(w)
  <2>1. /\ Expected(tasks, c.task, c)
        /\ tasks' = [tasks EXCEPT ![c.task].deleted = TRUE, ![c.task].version = @ + 1]
        /\ Return(w, "ok", {c.task})
        /\ UNCHANGED series
    BY <1>1, <1>4 DEF DeleteTask
  <2>2. Book!Current(tasks, c.task, c)
    BY <2>1 DEF Expected, Live, Book!Current
  <2>3. Book!Says(w, c, "ok", {c.task})
    BY <1>1, <2>1, ReturnSays
  <2>4. Book!Deleted(w, c)
    BY <1>2, <2>1, <2>2, <2>3 DEF Book!Deleted
  <2> QED BY <1>2, <2>4, Seen DEF Book!Answered
<1> QED BY <1>3, <1>4

(* The row of an activity that is locked is still the one that was read.   *)
LEMMA LockedIsCurrent ==
    ASSUME StoreInv, NEW w \in Worker, pc[w] \in Holding
    PROVE  Book!Current(series, call[w].series, call[w])
BY DEF StoreInv, Relied, Expected, Live, Book!Current

LEMMA BookReplaceSeries ==
    ASSUME StoreInv, NEW w \in Worker, ReplaceSeries(w)
    PROVE  BookStep
<1>1. PICK c : c = call[w]
  OBVIOUS
<1>2. /\ c \in Call /\ c.op = "replace" /\ UNCHANGED <<tasks, today>> /\ pc[w] \in Holding
      /\ series' = [series EXCEPT ![c.series].pattern = c.pattern, ![c.series].version = @ + 1]
      /\ Return(w, "ok", {c.series})
  BY <1>1 DEF ReplaceSeries, At, StoreInv, StoreTypes, Control, Holding
<1>3. Book!Says(w, c, "ok", {c.series}) /\ Book!Current(series, c.series, c)
  BY <1>1, <1>2, ReturnSays, LockedIsCurrent
<1>4. Book!Replaced(w, c)
  BY <1>2, <1>3 DEF Book!Replaced
<1> QED BY <1>2, <1>4, Seen DEF Book!Answered

LEMMA BookDeleteSeries ==
    ASSUME StoreInv, NEW w \in Worker, DeleteSeries(w)
    PROVE  BookStep
<1>1. PICK c : c = call[w]
  OBVIOUS
<1>2. /\ c \in Call /\ c.op = "drop" /\ UNCHANGED <<tasks, today>> /\ pc[w] \in Holding
      /\ series' = [series EXCEPT ![c.series].deleted = TRUE, ![c.series].version = @ + 1]
      /\ Return(w, "ok", {c.series})
  BY <1>1 DEF DeleteSeries, At, StoreInv, StoreTypes, Control, Holding
<1>3. Book!Says(w, c, "ok", {c.series}) /\ Book!Current(series, c.series, c)
  BY <1>1, <1>2, ReturnSays, LockedIsCurrent
<1>4. Book!Dropped(w, c)
  BY <1>2, <1>3 DEF Book!Dropped
<1> QED BY <1>2, <1>4, Seen DEF Book!Answered

(* The instant of a materialize call is that of its insert: the pattern it *)
(* read, the occurrences it listed and its date are those of that instant, *)
(* or the date is an earlier one.                                          *)
LEMMA BookInsertOccurrences ==
    ASSUME StoreInv, NEW w \in Worker, InsertOccurrences(w)
    PROVE  BookStep
<1>1. PICK c : c = call[w]
  OBVIOUS
<1>2. /\ c \in Call /\ c.op = "materialize" /\ today' = today
      /\ pc[w] = "dated" /\ pc[w] \in Holding
  BY <1>1 DEF InsertOccurrences, At, StoreInv, StoreTypes, Control, Holding
<1>3. CASE Refuse(w)
  BY <1>2, <1>3, BookRefuse
<1>4. CASE ~Refuse(w)
  <2> DEFINE mine == {t \in DOMAIN tasks : tasks[t].series = c.series /\ tasks[t].day \in Book!Window(c)}
             pattern == series[c.series].pattern
             asOf == seen[w].asOf
             new == {d \in Book!OccurrenceDates(pattern, Book!Window(c)) :
                        d >= asOf /\ \A t \in mine : tasks[t].day # d}
             rows == {t \in mine : ~tasks[t].deleted}
                     \cup (Len(tasks) + 1)..(Len(tasks) + Book!Cardinality(new))
  <2>1. /\ NewDates(w) \cap Missing = {}
        /\ tasks' = tasks \o Occurrences(c.series, seen[w].pattern, NewDates(w))
        /\ Return(w, "ok", {t \in seen[w].listed : ~tasks[t].deleted}
               \cup (Len(tasks) + 1)..(Len(tasks) + Cardinality(NewDates(w))))
        /\ series' = series
    BY <1>1, <1>4 DEF InsertOccurrences
  <2>2. /\ asOf \in Day /\ asOf <= today
        /\ seen[w].listed = InWindow(c) /\ seen[w].pattern = pattern
    BY <1>1, <1>2 DEF StoreInv, Relied
  <2>3. mine = seen[w].listed
    BY <2>2, SameRows DEF InWindow
  <2> HIDE DEF mine
  <2>4. new = NewDates(w)
    BY <1>1, <2>2, <2>3, SameRows DEF NewDates
  <2> HIDE DEF new
  <2>5. rows = {t \in seen[w].listed : ~tasks[t].deleted}
               \cup (Len(tasks) + 1)..(Len(tasks) + Cardinality(NewDates(w)))
    BY <2>3, <2>4, SameCardinality
  <2> HIDE DEF rows, pattern
  <2>6. Book!Says(w, c, "ok", rows)
    BY <1>1, <2>1, <2>5, ReturnSays
  <2>7. tasks' = tasks \o Book!Occurrences(c.series, pattern, new)
    BY <2>1, <2>2, <2>4, SameOccurrences
  <2>8. new \cap Missing = {}
    BY <2>1, <2>4
  <2>9. Book!Current(series, c.series, c)
    BY <1>1, <1>2, LockedIsCurrent
  <2>10. Book!Materialized(w, c)
    BY <1>2, <2>1, <2>2, <2>6, <2>7, <2>8, <2>9 DEF Book!Materialized, mine, new, rows, pattern
  <2> QED BY <1>2, <2>10, Seen DEF Book!Answered
<1> QED BY <1>3, <1>4

LEMMA BookQuiet ==
    ASSUME NEW w \in Worker,
           \/ ReadTask(w) \/ LockSeries(w) \/ ListOccurrences(w) \/ CaptureToday(w) \/ Abort(w)
    PROVE  BookStep
BY Unseen DEF ReadTask, LockSeries, ListOccurrences, CaptureToday, Abort, Go, Refuse

(* The interleaved statements of the repositories do what the book of      *)
(* atomic calls does: every answered call took effect at one instant, on   *)
(* the rows as they were, and a creation that is sent again names the row  *)
(* of the first in every answer.                                           *)
THEOREM StoreKeepsBook == Spec => BookKept
<1>1. Init => Book!BookInit
  BY SameRows DEF Init, Book!BookInit
<1>2. StoreInv /\ [Next]_vars => BookStep
  <2> SUFFICES ASSUME StoreInv, [Next]_vars PROVE BookStep
    OBVIOUS
  <2>1. CASE UNCHANGED vars
    BY <2>1, Unseen DEF vars
  <2>2. CASE Midnight
    <3>1. today \in Nat /\ today' \in {d \in Day : d > today}
      BY <2>2, DayAssumption DEF Midnight, StoreInv, StoreTypes
    <3> QED BY <2>2, <3>1 DEF Midnight, BookStep, Book!BookNext, Book!DayPasses
  <2>3. ASSUME NEW w \in Worker, Begin(w) \/ Step(w) \/ Abort(w) PROVE BookStep
    BY <2>3, BookBegin, BookInsertTask, BookReplayTask, BookInsertSeries, BookReplaySeries,
       BookUpdateTask, BookDeleteTask, BookReplaceSeries, BookDeleteSeries,
       BookInsertOccurrences, BookQuiet DEF Step
  <2> QED BY <2>1, <2>2, <2>3 DEF Next
<1> QED BY <1>1, <1>2, StoreInvariant, PTL DEF Spec, BookStep, BookKept, Book!BookSpec
=============================================================================
